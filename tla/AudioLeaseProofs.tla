-------------------------- MODULE AudioLeaseProofs ---------------------------
(***************************************************************************)
(* LeaseIsAgreed of module AudioLease for any panes and devices, and any   *)
(* number of requests, attachments and registrations.                      *)
(***************************************************************************)
EXTENDS AudioLease, SequenceTheorems, TLAPS

DeviceState == [pane : Pane \cup {No}, att : 0..MaxAtt, reg : 0..MaxRegs,
                on : Id \cup {No}, answer : {"none", "ok", "error"}]
RouteState  == [state : {"live", "expired", "ended", "gone"},
                pane : Pane \cup {No}, att : 0..MaxAtt, reg : 0..MaxRegs,
                claimed : BOOLEAN, ready : BOOLEAN, idle : BOOLEAN]
Reply       == [id : Id, ok : BOOLEAN]

\* Devices know what they ask for, and their registrations are none to come.
Devices ==
    /\ client \in [Pane -> [id : 0..MaxAtt, own : BOOLEAN]]
    /\ atts \in 0..MaxAtt
    /\ dpc \in [Device -> {"closed", "gate", "wait", "open"}]
    /\ dev \in [Device -> DeviceState]
    /\ reg \in 0..MaxRegs
    /\ \A d \in Device :
          /\ dev[d].reg <= reg
          /\ dpc[d] \in {"gate", "wait"} => dev[d].pane \in Pane
          /\ dpc[d] = "wait" => dev[d].on \in Id
          /\ dpc[d] # "wait" => dev[d].answer = "none"

\* A registration's acquisitions are let through the gate one at a time, each
\* with a number of its own.
OneWaits ==
    \A d, e \in Device :
        /\ dpc[d] = "wait" /\ dpc[e] = "wait"
        /\ dev[d].reg = dev[e].reg \/ dev[d].on = dev[e].on
        => d = e

\* The provider's queues.
Provider ==
    /\ prov \in {"off", "recv", "sent"}
    /\ chan \in Seq(Id)
    /\ cur \in Id \cup {No}
    /\ pending \in Id \cup {No}
    /\ toMac \in Seq(Id)
    /\ fromMac \in Seq(Reply)

\* The helper serves a request in every state but two.
Helper ==
    /\ helper \in {"away", "idle", "dial", "opened", "up", "grace"}
    /\ wanted \in Id \cup {No}
    /\ next \in Id \cup {No}
    /\ helper \in {"dial", "opened", "up", "grace"} => wanted \in Id
    /\ helper = "grace" => next \in Id

\* Of a registration at most one request is under way, at one of four places:
\* on the wire to the Mac, in the helper's hands, waiting there, or answered.
OneRequest ==
    prov # "off" =>
        /\ Len(toMac) <= 1
        /\ Len(fromMac) <= 1
        /\ toMac # <<>> => prov = "sent" /\ toMac[1] = cur /\ fromMac = <<>>
                             /\ helper \notin {"dial", "opened", "grace"}
        /\ fromMac # <<>> => prov = "sent" /\ fromMac[1].id = cur
                               /\ helper \notin {"dial", "opened", "grace"}
        /\ helper \in {"dial", "opened"} => prov = "sent" /\ wanted = cur
        /\ helper = "grace" => prov = "sent" /\ next = cur

\* There is one route at a time, and it has the connection's datagrams.
Leased ==
    /\ route \in [Id -> RouteState]
    /\ table \in [Pane -> Id \cup {No}]
    /\ lease \in Id \cup {No}
    /\ media \subseteq Id
    /\ \A i \in Id : route[i].state # "gone" <=> lease = i

\* The helper opened the hardware for the request i, or is about to say so.
Granted(i) ==
    \/ helper = "opened" /\ wanted = i
    \/ fromMac # <<>> /\ fromMac[1] = [id |-> i, ok |-> TRUE]

\* What a granted acquisition finds in its pane is its own route, or none.
OwnRoute ==
    \A d \in Device :
        /\ dpc[d] = "wait"
        /\ Connected(dev[d].reg)
        /\ Granted(dev[d].on) \/ dev[d].answer = "ok"
        => table[dev[d].pane] \in {dev[d].on, No}

\* The inductive invariant.
IndInv ==
    /\ Devices /\ OneWaits /\ Provider /\ Helper /\ OneRequest /\ Leased
    /\ OwnRoute /\ IdleTakesNoDevice /\ ReadyIsClaimed

-----------------------------------------------------------------------------
(* Steps *)

\* A device is closed, whoever wants it.
Shut(d) ==
    /\ Closes(d)
    /\ UNCHANGED <<clientVars, provVars, wireVars, helperVars, routeVars>>

\* The helper gives a request back.
Refuse == helper \in {"dial", "opened"} /\ GiveBack

\* A route ends, for whatever reason.
Drop(i) == route[i].state \in {"live", "expired"} /\ EndRoute(i)

\* The steps, by what they change.
LEMMA Steps ==
  ASSUME [Next]_vars
  PROVE  \/ \E n \in Pane : Detach(n) \/ \E own \in BOOLEAN : Attach(n, own)
         \/ \E d \in Device : \/ Shut(d) \/ Gate(d) \/ Answered(d)
                              \/ \E n \in Pane : Acquire(d, n)
         \/ Register \/ Forward \/ TakeReady \/ Unregister
         \/ Take \/ Dial \/ OpenHardware \/ NextArrives \/ GraceOver
         \/ Refuse \/ OperationEnds \/ Away
         \/ \E i \in Id : Drop(i) \/ IdleLook(i) \/ IdleExpire(i) \/ Gone(i)
         \/ UNCHANGED vars
<1>1. ASSUME NEW d \in Device, LoseDevice(d) \/ Cancel(d) \/ CloseDevice(d)
      PROVE  Shut(d)
  BY <1>1 DEF LoseDevice, Cancel, CloseDevice, Shut
<1>2. ASSUME NEW i \in Id, CheckTick(i) \/ Expired(i) \/ ReaderEof(i)
      PROVE  Drop(i)
  BY <1>2 DEF CheckTick, Expired, ReaderEof, Drop
<1>3. ASSUME ProviderEof \/ ProviderTimeout
      PROVE  Unregister
  BY <1>3 DEF ProviderEof, ProviderTimeout
<1>4. ASSUME DialFails \/ OpenFails
      PROVE  Refuse
  BY <1>4 DEF DialFails, OpenFails, Refuse
<1>5. ASSUME RouteEof \/ HardwareFails
      PROVE  OperationEnds
  BY <1>5 DEF RouteEof, HardwareFails
<1>6. ASSUME HelperDies \/ HelperEof
      PROVE  Away
  BY <1>6 DEF HelperDies, HelperEof
<1> QED
  BY <1>1, <1>2, <1>3, <1>4, <1>5, <1>6
  DEF Next, DeviceStep, ProvStep, HelperStep, RouteStep


\* A queue of one element is empty without it.
LEMMA Single ==
  ASSUME NEW S, NEW s \in Seq(S), s # <<>>, Len(s) <= 1
  PROVE  Tail(s) = <<>> /\ Head(s) = s[1]
<1>1. Len(s) \in Nat \ {0}
  BY EmptySeq
<1>2. Len(s) = 1
  BY <1>1
<1>3. Tail(s) \in Seq(S) /\ Len(Tail(s)) = Len(s) - 1
  BY HeadTailProperties
<1>4. Len(Tail(s)) = 0
  BY <1>2, <1>3
<1> QED BY <1>3, <1>4

\* Requests and replies keep their types.
LEMMA ProviderStep == Provider /\ Helper /\ [Next]_vars => Provider'
<1> SUFFICES ASSUME Provider, Helper, [Next]_vars PROVE Provider'
  OBVIOUS
<1>1. CASE \/ \E n \in Pane : Detach(n)
           \/ \E n \in Pane, own \in BOOLEAN : Attach(n, own)
           \/ \E d \in Device : Shut(d) \/ Answered(d)
           \/ \E d \in Device, n \in Pane : Acquire(d, n)
           \/ Dial \/ OperationEnds
           \/ \E i \in Id :
                 Drop(i) \/ IdleLook(i) \/ IdleExpire(i) \/ Gone(i)
           \/ UNCHANGED vars
  BY <1>1
  DEF Detach, Attach, Shut, Answered, Acquire, Dial, OperationEnds, Drop,
      IdleLook, IdleExpire, Gone, deviceVars, provVars, wireVars, helperVars,
      routeVars, clientVars, Closes, Opens, EndRoute, vars, Provider
<1>2. ASSUME NEW d \in Device, Gate(d)
      PROVE  Provider'
  <2>1. \A i \in Id : Append(chan, i) \in Seq(Id)
    BY DEF Provider
  <2> QED BY <1>2, <2>1 DEF Gate, wireVars, Provider
<1>3. CASE Register
  BY <1>3
  DEF Register, clientVars, deviceVars, routeVars, provVars, wireVars,
      Provider
<1>4. CASE Forward
  <2>1. Head(chan) \in Id /\ Tail(chan) \in Seq(Id)
    BY <1>4, HeadTailProperties DEF Forward, Provider
  <2>2. Append(toMac, Head(chan)) \in Seq(Id)
    BY <2>1 DEF Provider
  <2> QED BY <1>4, <2>1, <2>2 DEF Forward, Provider
<1>5. CASE TakeReady
  <2>1. Tail(fromMac) \in Seq(Reply)
    BY <1>5, HeadTailProperties DEF TakeReady, Provider
  <2> QED BY <1>5, <2>1 DEF TakeReady, Provider
<1>6. CASE Unregister
  BY <1>6
  DEF Unregister, clientVars, wireVars, helperVars, routeVars, Answer,
      Provider
<1>7. CASE Take
  <2>1. Tail(toMac) \in Seq(Id)
    BY <1>7, HeadTailProperties DEF Take, Provider
  <2> QED BY <1>7, <2>1 DEF Take, provVars, Provider
<1>8. CASE OpenHardware
  <2>1. Append(fromMac, [id |-> wanted, ok |-> TRUE]) \in Seq(Reply)
    BY <1>8 DEF OpenHardware, Provider, Helper, Reply
  <2> QED BY <1>8, <2>1 DEF OpenHardware, Ready, provVars, Provider
<1>9. CASE NextArrives
  <2>1. Tail(toMac) \in Seq(Id)
    BY <1>9, HeadTailProperties DEF NextArrives, Provider
  <2> QED BY <1>9, <2>1 DEF NextArrives, provVars, Provider
<1>10. CASE GraceOver
  <2>1. Append(fromMac, [id |-> next, ok |-> FALSE]) \in Seq(Reply)
    BY <1>10 DEF GraceOver, Provider, Helper, Reply
  <2> QED BY <1>10, <2>1 DEF GraceOver, Ready, provVars, Provider
<1>11. CASE Refuse
  <2>1. Append(fromMac, [id |-> wanted, ok |-> FALSE]) \in Seq(Reply)
    BY <1>11 DEF Refuse, Provider, Helper, Reply
  <2> QED BY <1>11, <2>1 DEF Refuse, GiveBack, Ready, provVars, Provider
<1>12. CASE Away
  BY <1>12 DEF Away, clientVars, deviceVars, provVars, wireVars, Provider
<1> QED
  BY <1>1, <1>2, <1>3, <1>4, <1>5, <1>6, <1>7, <1>8, <1>9, <1>10, <1>11,
     <1>12, Steps

\* The helper keeps what it serves.
LEMMA HelperKept == Provider /\ Helper /\ [Next]_vars => Helper'
<1> SUFFICES ASSUME Provider, Helper, [Next]_vars PROVE Helper'
  OBVIOUS
<1>1. CASE \/ \E n \in Pane : Detach(n)
           \/ \E n \in Pane, own \in BOOLEAN : Attach(n, own)
           \/ \E d \in Device : Shut(d) \/ Gate(d) \/ Answered(d)
           \/ \E d \in Device, n \in Pane : Acquire(d, n)
           \/ Forward \/ TakeReady \/ Unregister
           \/ \E i \in Id :
                 Drop(i) \/ IdleLook(i) \/ IdleExpire(i) \/ Gone(i)
           \/ UNCHANGED vars
  <2>1. UNCHANGED <<helper, wanted, next>>
    BY <1>1
    DEF Detach, Attach, Shut, Gate, Answered, Acquire, Forward, TakeReady,
        Unregister, Drop, EndRoute, IdleLook, IdleExpire, Gone, helperVars, vars
  <2> QED BY <2>1 DEF Helper
<1>2. CASE Register
  BY <1>2
  DEF Register, clientVars, deviceVars, routeVars, provVars, wireVars, Helper
<1>3. CASE Take
  <2>1. Head(toMac) \in Id
    BY <1>3, HeadTailProperties DEF Take, Provider
  <2> QED BY <1>3, <2>1 DEF Take, Helper
<1>4. CASE Dial
  BY <1>4 DEF Dial, clientVars, deviceVars, provVars, wireVars, Helper
<1>5. CASE OpenHardware
  BY <1>5
  DEF OpenHardware, clientVars, deviceVars, provVars, routeVars, Ready,
      wireVars, Helper
<1>6. CASE NextArrives
  <2>1. Head(toMac) \in Id
    BY <1>6, HeadTailProperties DEF NextArrives, Provider
  <2> QED BY <1>6, <2>1 DEF NextArrives, Helper
<1>7. CASE GraceOver
  BY <1>7
  DEF GraceOver, clientVars, deviceVars, provVars, routeVars, Ready, wireVars,
      Helper
<1>8. CASE Refuse
  BY <1>8
  DEF Refuse, GiveBack, clientVars, deviceVars, provVars, Ready, wireVars,
      Helper
<1>9. CASE OperationEnds
  BY <1>9
  DEF OperationEnds, clientVars, deviceVars, provVars, wireVars, Helper
<1>10. CASE Away
  BY <1>10 DEF Away, clientVars, deviceVars, provVars, wireVars, Helper
<1> QED
  BY <1>1, <1>2, <1>3, <1>4, <1>5, <1>6, <1>7, <1>8, <1>9, <1>10, Steps

\* A registration's requests come one after the other.
LEMMA RequestStep == IndInv /\ [Next]_vars => OneRequest'
<1> SUFFICES ASSUME IndInv, [Next]_vars PROVE OneRequest'
  OBVIOUS
<1> USE DEF IndInv
<1>1. CASE \/ \E n \in Pane : Detach(n)
           \/ \E n \in Pane, own \in BOOLEAN : Attach(n, own)
           \/ \E d \in Device : Shut(d) \/ Gate(d) \/ Answered(d)
           \/ \E d \in Device, n \in Pane : Acquire(d, n)
           \/ \E i \in Id :
                 Drop(i) \/ IdleLook(i) \/ IdleExpire(i) \/ Gone(i)
           \/ UNCHANGED vars
  <2>1. UNCHANGED <<prov, cur, toMac, fromMac, helper, wanted, next>>
    BY <1>1
    DEF Detach, Attach, Shut, Gate, Answered, Acquire, Drop, EndRoute, IdleLook,
        IdleExpire, Gone, provVars, wireVars, helperVars, vars
  <2> QED BY <2>1 DEF OneRequest
<1>2. CASE Register
  BY <1>2
  DEF Register, clientVars, deviceVars, routeVars, provVars, wireVars,
      OneRequest
<1>3. CASE Forward
  <2>1. prov = "recv" /\ toMac = <<>> /\ fromMac = <<>>
    BY <1>3 DEF Forward, OneRequest
  <2>2. helper \notin {"dial", "opened", "grace"}
    BY <1>3 DEF Forward, OneRequest
  <2>3. \/ toMac' = <<>>
        \/ toMac' = <<Head(chan)>> /\ cur' = Head(chan) /\ prov' = "sent"
    BY <1>3, <2>1 DEF Forward
  <2>4. UNCHANGED <<fromMac, helper, wanted, next>>
    BY <1>3 DEF Forward, helperVars
  <2>5. Len(toMac') <= 1 /\ Len(fromMac') <= 1
    <3>1. Len(<<Head(chan)>>) <= 1 /\ Len(<<>>) <= 1
      OBVIOUS
    <3> QED BY <2>1, <2>3, <2>4, <3>1
  <2>6. toMac' # <<>> => prov' = "sent" /\ toMac'[1] = cur'
    BY <2>3
  <2> QED BY <2>1, <2>2, <2>4, <2>5, <2>6 DEF OneRequest
<1>4. CASE TakeReady
  <2>1. prov = "sent" /\ toMac = <<>> /\ helper \notin {"dial", "opened", "grace"}
    BY <1>4 DEF TakeReady, OneRequest
  <2>2. fromMac' = <<>>
    BY <1>4, Single DEF TakeReady, OneRequest, Provider
  <2> QED BY <1>4, <2>1, <2>2 DEF TakeReady, helperVars, OneRequest
<1>5. CASE Unregister
  BY <1>5
  DEF Unregister, clientVars, wireVars, helperVars, routeVars, Answer,
      OneRequest
<1>6. CASE Take
  <2>1. prov # "off" => toMac' = <<>> /\ Head(toMac) = toMac[1]
    BY <1>6, Single DEF Take, OneRequest, Provider
  <2> QED BY <1>6, <2>1 DEF Take, provVars, OneRequest
<1>7. CASE Dial
  BY <1>7 DEF Dial, clientVars, deviceVars, provVars, wireVars, OneRequest
<1>8. CASE OpenHardware
  <2>1. ASSUME prov # "off"
        PROVE  /\ prov = "sent" /\ toMac = <<>> /\ wanted = cur
               /\ fromMac' = <<[id |-> wanted, ok |-> TRUE]>>
    <3>1. prov = "sent" /\ toMac = <<>> /\ fromMac = <<>> /\ wanted = cur
      BY <1>8, <2>1 DEF OpenHardware, OneRequest
    <3> QED BY <1>8, <3>1 DEF OpenHardware, Ready
  <2>2. UNCHANGED <<prov, cur, toMac>> /\ helper' \in {"idle", "up"}
    BY <1>8 DEF OpenHardware, provVars
  <2>3. prov # "off" => Len(fromMac') <= 1 /\ fromMac'[1].id = cur
    <3>1. Len(<<[id |-> wanted, ok |-> TRUE]>>) <= 1
      OBVIOUS
    <3>2. <<[id |-> wanted, ok |-> TRUE]>>[1].id = wanted
      OBVIOUS
    <3>3. CASE prov # "off"
      <4>1. fromMac' = <<[id |-> wanted, ok |-> TRUE]>> /\ wanted = cur
        BY <2>1, <3>3
      <4> QED BY <4>1, <3>1, <3>2
    <3> QED BY <3>3
  <2> QED BY <2>1, <2>2, <2>3 DEF OneRequest
<1>9. CASE NextArrives
  <2>1. prov # "off" => toMac' = <<>> /\ Head(toMac) = toMac[1]
    BY <1>9, Single DEF NextArrives, OneRequest, Provider
  <2> QED BY <1>9, <2>1 DEF NextArrives, provVars, OneRequest
<1>10. CASE GraceOver
  <2>1. ASSUME prov # "off"
        PROVE  /\ prov = "sent" /\ toMac = <<>> /\ next = cur
               /\ fromMac' = <<[id |-> next, ok |-> FALSE]>>
    <3>1. prov = "sent" /\ toMac = <<>> /\ fromMac = <<>> /\ next = cur
      BY <1>10, <2>1 DEF GraceOver, OneRequest
    <3> QED BY <1>10, <3>1 DEF GraceOver, Ready
  <2>2. UNCHANGED <<prov, cur, toMac>> /\ helper' \in {"idle", "up"}
    BY <1>10 DEF GraceOver, provVars
  <2>3. prov # "off" => Len(fromMac') <= 1 /\ fromMac'[1].id = cur
    <3>1. Len(<<[id |-> next, ok |-> FALSE]>>) <= 1
      OBVIOUS
    <3>2. <<[id |-> next, ok |-> FALSE]>>[1].id = next
      OBVIOUS
    <3>3. CASE prov # "off"
      <4>1. fromMac' = <<[id |-> next, ok |-> FALSE]>> /\ next = cur
        BY <2>1, <3>3
      <4> QED BY <4>1, <3>1, <3>2
    <3> QED BY <3>3
  <2> QED BY <2>1, <2>2, <2>3 DEF OneRequest
<1>11. CASE Refuse
  <2>1. ASSUME prov # "off"
        PROVE  /\ prov = "sent" /\ toMac = <<>> /\ wanted = cur
               /\ fromMac' = <<[id |-> wanted, ok |-> FALSE]>>
    <3>1. prov = "sent" /\ toMac = <<>> /\ fromMac = <<>> /\ wanted = cur
      BY <1>11, <2>1 DEF Refuse, OneRequest
    <3> QED BY <1>11, <3>1 DEF Refuse, GiveBack, Ready
  <2>2. UNCHANGED <<prov, cur, toMac>> /\ helper' \in {"idle", "up"}
    BY <1>11 DEF Refuse, GiveBack, provVars
  <2>3. prov # "off" => Len(fromMac') <= 1 /\ fromMac'[1].id = cur
    <3>1. Len(<<[id |-> wanted, ok |-> FALSE]>>) <= 1
      OBVIOUS
    <3>2. <<[id |-> wanted, ok |-> FALSE]>>[1].id = wanted
      OBVIOUS
    <3>3. CASE prov # "off"
      <4>1. fromMac' = <<[id |-> wanted, ok |-> FALSE]>> /\ wanted = cur
        BY <2>1, <3>3
      <4> QED BY <4>1, <3>1, <3>2
    <3> QED BY <3>3
  <2> QED BY <2>1, <2>2, <2>3 DEF OneRequest
<1>12. CASE OperationEnds
  BY <1>12
  DEF OperationEnds, clientVars, deviceVars, provVars, wireVars, OneRequest
<1>13. CASE Away
  BY <1>13 DEF Away, clientVars, deviceVars, provVars, wireVars, OneRequest
<1> QED
  BY <1>1, <1>2, <1>3, <1>4, <1>5, <1>6, <1>7, <1>8, <1>9, <1>10, <1>11,
     <1>12, <1>13, Steps

\* A device that is closed is in no state that matters.
LEMMA ShutDevice ==
  ASSUME Devices, NEW d \in Device, Closes(d), UNCHANGED <<client, atts, reg>>
  PROVE  Devices'
<1>1. NoDevice \in DeviceState /\ NoDevice.reg <= reg /\ NoDevice.answer = "none"
  BY AudioLeaseAssumption DEF NoDevice, DeviceState, No, Devices
<1> QED BY <1>1 DEF Closes, Devices

\* A device that is opened joins a route that is there.
LEMMA OpenedDevice ==
  ASSUME Devices, NEW d \in Device, NEW rec \in DeviceState, rec.reg <= reg,
         NEW i \in Id \cup {No}, Opens(d, rec, i), UNCHANGED <<client, atts, reg>>
  PROVE  Devices'
<1> DEFINE r == [rec EXCEPT !.on = i, !.answer = "none"]
<1>1. r \in DeviceState /\ r.reg <= reg /\ r.answer = "none"
  BY DEF DeviceState
<1>2. dev' = [dev EXCEPT ![d] = r] /\ dpc' = [dpc EXCEPT ![d] = "open"]
  BY DEF Opens
<1> HIDE DEF r
<1> QED BY <1>1, <1>2 DEF Devices

\* Only devices that wait are answered.
LEMMA AnsweredDevice ==
  ASSUME Devices, NEW J, NEW with \in {"ok", "error"}, Answer(J, with),
         UNCHANGED <<client, atts, dpc, reg>>
  PROVE  Devices'
<1>1. ASSUME NEW d \in Device
      PROVE  /\ dev'[d] \in DeviceState
             /\ dev'[d].reg = dev[d].reg /\ dev'[d].pane = dev[d].pane
             /\ dev'[d].on = dev[d].on
             /\ dpc[d] # "wait" => dev'[d].answer = dev[d].answer
  BY <1>1 DEF Answer, Devices, DeviceState, Waiting
<1>2. dev' = [d \in Device |-> dev'[d]]
  BY DEF Answer
<1>3. dev' \in [Device -> DeviceState]
  BY <1>1, <1>2
<1> QED BY <1>1, <1>3 DEF Devices

\* Devices keep knowing what they ask for.
LEMMA DevicesStep == IndInv /\ [Next]_vars => Devices'
<1> SUFFICES ASSUME IndInv, [Next]_vars PROVE Devices'
  OBVIOUS
<1> USE DEF IndInv
<1>1. ASSUME NEW n \in Pane, Detach(n)
      PROVE  Devices'
  <2>1. [id |-> No, own |-> FALSE] \in [id : 0..MaxAtt, own : BOOLEAN]
    BY AudioLeaseAssumption DEF No
  <2> QED BY <1>1, <2>1 DEF Detach, deviceVars, provVars, Devices
<1>2. ASSUME NEW n \in Pane, NEW own \in BOOLEAN, Attach(n, own)
      PROVE  Devices'
  <2>1. atts + 1 \in 0..MaxAtt
    BY <1>2, AudioLeaseAssumption DEF Attach, Devices
  <2>2. [id |-> atts + 1, own |-> own] \in [id : 0..MaxAtt, own : BOOLEAN]
    BY <2>1
  <2> QED BY <1>2, <2>1, <2>2 DEF Attach, deviceVars, provVars, Devices
<1>3. ASSUME NEW d \in Device, Shut(d)
      PROVE  Devices'
  BY <1>3, ShutDevice DEF Shut, clientVars, provVars
<1>4. ASSUME NEW d \in Device, Gate(d)
      PROVE  Devices'
  <2> UNCHANGED <<client, atts, reg>>
    BY <1>4 DEF Gate, clientVars
  <2>1. CASE Closes(d)
    BY <2>1, ShutDevice
  <2>2. CASE Opens(d, dev[d], table[dev[d].pane])
    <3>1. dev[d] \in DeviceState /\ dev[d].reg <= reg
      BY DEF Devices
    <3>2. table[dev[d].pane] \in Id \cup {No}
      BY <1>4 DEF Gate, Devices, Leased
    <3> QED BY <2>2, <3>1, <3>2, OpenedDevice
  <2>3. ASSUME NEW i \in Id, dpc' = [dpc EXCEPT ![d] = "wait"],
               dev' = [dev EXCEPT ![d].on = i]
        PROVE  Devices'
    <3> DEFINE r == [dev[d] EXCEPT !.on = i]
    <3>1. dev[d].pane \in Pane /\ dev[d] \in DeviceState /\ dev[d].reg <= reg
      BY <1>4 DEF Gate, Devices
    <3>2. r \in DeviceState /\ r.reg <= reg /\ r.pane \in Pane /\ r.on = i
      BY <3>1 DEF DeviceState
    <3>3. dev' = [dev EXCEPT ![d] = r]
      BY <2>3
    <3> HIDE DEF r
    <3> QED BY <2>3, <3>2, <3>3 DEF Devices
  <2> QED BY <1>4, <2>1, <2>2, <2>3 DEF Gate
<1>5. ASSUME NEW d \in Device, Answered(d)
      PROVE  Devices'
  <2> UNCHANGED <<client, atts, reg>>
    BY <1>5 DEF Answered, clientVars, provVars
  <2>1. CASE Closes(d)
    BY <2>1, ShutDevice
  <2>2. CASE Opens(d, dev[d], table[dev[d].pane])
    <3>1. dev[d] \in DeviceState /\ dev[d].reg <= reg
      BY DEF Devices
    <3>2. table[dev[d].pane] \in Id \cup {No}
      BY <1>5 DEF Answered, Devices, Leased
    <3> QED BY <2>2, <3>1, <3>2, OpenedDevice
  <2> QED BY <1>5, <2>1, <2>2 DEF Answered
<1>6. ASSUME NEW d \in Device, NEW n \in Pane, Acquire(d, n)
      PROVE  Devices'
  <2> DEFINE rec == [NoDevice EXCEPT !.pane = n, !.att = client[n].id, !.reg = reg]
  <2>1. /\ rec \in DeviceState /\ rec.reg <= reg /\ rec.pane \in Pane
        /\ rec.answer = "none"
    <3>1. client[n].id \in 0..MaxAtt /\ reg \in 0..MaxRegs /\ reg <= reg
      BY AudioLeaseAssumption DEF Devices
    <3>2. rec.reg = reg /\ rec.pane = n /\ rec.answer = "none"
      BY DEF NoDevice
    <3>3. rec \in DeviceState
      BY <3>1 DEF NoDevice, DeviceState
    <3> QED BY <3>1, <3>2, <3>3
  <2>2. UNCHANGED <<client, atts, reg>>
    BY <1>6 DEF Acquire, clientVars, provVars
  <2>3. \/ Opens(d, rec, table[n])
        \/ dpc' = [dpc EXCEPT ![d] = "gate"] /\ dev' = [dev EXCEPT ![d] = rec]
    BY <1>6 DEF Acquire
  <2>4. table[n] \in Id \cup {No}
    BY DEF Leased
  <2> HIDE DEF rec
  <2>5. CASE Opens(d, rec, table[n])
    BY <2>1, <2>2, <2>4, <2>5, OpenedDevice
  <2>6. CASE dpc' = [dpc EXCEPT ![d] = "gate"] /\ dev' = [dev EXCEPT ![d] = rec]
    BY <2>1, <2>2, <2>6 DEF Devices
  <2> QED BY <2>3, <2>5, <2>6
<1>7. CASE Register
  <2>1. reg' \in 0..MaxRegs /\ reg <= reg'
    BY <1>7, AudioLeaseAssumption DEF Register, Devices
  <2>2. UNCHANGED <<client, atts, dpc, dev>>
    BY <1>7 DEF Register, clientVars, deviceVars
  <2>3. \A d \in Device : dev[d].reg \in Nat /\ dev[d].reg <= reg /\ reg \in Nat
    BY AudioLeaseAssumption DEF Devices, DeviceState
  <2>4. \A d \in Device : dev[d].reg <= reg'
    BY <2>1, <2>3
  <2> QED BY <2>1, <2>2, <2>4 DEF Devices
<1>8. CASE \/ (Forward \/ Take \/ Dial \/ OpenHardware \/ NextArrives \/
               GraceOver \/ Refuse \/ OperationEnds \/ Away)
           \/ \E i \in Id :
                 Drop(i) \/ IdleLook(i) \/ IdleExpire(i) \/ Gone(i)
           \/ UNCHANGED vars
  BY <1>8
  DEF Forward, Take, Dial, OpenHardware, NextArrives, GraceOver, Refuse,
      OperationEnds, Away, Drop, IdleLook, IdleExpire, Gone, clientVars,
      deviceVars, helperVars, routeVars, provVars, wireVars, Ready, GiveBack,
      EndRoute, vars, Devices
<1>9. CASE TakeReady
  BY <1>9, AnsweredDevice DEF TakeReady, clientVars
<1>10. CASE Unregister
  BY <1>10, AnsweredDevice DEF Unregister, clientVars
<1> QED
  BY <1>1, <1>2, <1>3, <1>4, <1>5, <1>6, <1>7, <1>8, <1>9, <1>10, Steps
\* Devices wait one at a time.
LEMMA OneWaitsStep == IndInv /\ [Next]_vars => OneWaits'
<1> SUFFICES ASSUME IndInv, [Next]_vars PROVE OneWaits'
  OBVIOUS
<1> USE DEF IndInv
<1>1. CASE \/ \E n \in Pane : Detach(n)
           \/ \E n \in Pane, own \in BOOLEAN : Attach(n, own)
           \/ (Register \/ Forward \/ Take \/ Dial \/ OpenHardware \/
               NextArrives \/ GraceOver \/ Refuse \/ OperationEnds \/ Away)
           \/ \E i \in Id :
                 Drop(i) \/ IdleLook(i) \/ IdleExpire(i) \/ Gone(i)
           \/ UNCHANGED vars
  BY <1>1
  DEF Detach, Attach, Register, Forward, Take, Dial, OpenHardware,
      NextArrives, GraceOver, Refuse, OperationEnds, Away, Drop, IdleLook,
      IdleExpire, Gone, deviceVars, provVars, wireVars, helperVars, routeVars,
      clientVars, Ready, GiveBack, EndRoute, vars, OneWaits
<1>2. ASSUME NEW d \in Device, Shut(d)
      PROVE  OneWaits'
  BY <1>2 DEF Shut, Closes, OneWaits, Devices
<1>3. ASSUME NEW d \in Device, Gate(d)
      PROVE  OneWaits'
  <2>1. CASE Closes(d)
    BY <2>1 DEF Closes, OneWaits, Devices
  <2>2. CASE Opens(d, dev[d], table[dev[d].pane])
    BY <2>2 DEF Opens, OneWaits, Devices
  <2>3. ASSUME NEW i \in Id, ~Referred(i), dpc' = [dpc EXCEPT ![d] = "wait"],
               dev' = [dev EXCEPT ![d].on = i]
        PROVE  OneWaits'
    <3>1. dev'[d].reg = dev[d].reg /\ dev'[d].on = i /\ dpc'[d] = "wait"
      BY <2>3 DEF Devices, DeviceState
    <3>2. \A e \in Device : e # d => dev'[e] = dev[e] /\ dpc'[e] = dpc[e]
      BY <2>3 DEF Devices
    <3>3. \A e \in Device : dpc[e] = "wait" => dev[e].reg # dev[d].reg
      BY <1>3 DEF Gate
    <3>4. \A e \in Device : dev[e].on # i
      BY <2>3 DEF Referred
    <3> QED BY <3>1, <3>2, <3>3, <3>4 DEF OneWaits
  <2> QED BY <1>3, <2>1, <2>2, <2>3 DEF Gate
<1>4. ASSUME NEW d \in Device, Answered(d)
      PROVE  OneWaits'
  <2>1. Closes(d) \/ Opens(d, dev[d], table[dev[d].pane])
    BY <1>4 DEF Answered
  <2> QED BY <2>1 DEF Closes, Opens, OneWaits, Devices
<1>5. ASSUME NEW d \in Device, NEW n \in Pane, Acquire(d, n)
      PROVE  OneWaits'
  <2>1. /\ dpc'[d] # "wait"
        /\ \A e \in Device : e # d => dev'[e] = dev[e] /\ dpc'[e] = dpc[e]
    BY <1>5 DEF Acquire, Opens, Devices
  <2> QED BY <2>1 DEF OneWaits
<1>6. CASE TakeReady
  <2>1. \A d \in Device : dev'[d].reg = dev[d].reg /\ dev'[d].on = dev[d].on
    BY <1>6 DEF TakeReady, Answer, Devices, DeviceState
  <2> QED BY <1>6, <2>1 DEF TakeReady, OneWaits
<1>7. CASE Unregister
  <2>1. \A d \in Device : dev'[d].reg = dev[d].reg /\ dev'[d].on = dev[d].on
    BY <1>7 DEF Unregister, Answer, Devices, DeviceState
  <2> QED BY <1>7, <2>1 DEF Unregister, OneWaits
<1> QED
  BY <1>1, <1>2, <1>3, <1>4, <1>5, <1>6, <1>7, Steps

\* A route that is activated is a route.
LEMMA RouteFlags ==
  ASSUME NEW r \in RouteState
  PROVE  [r EXCEPT !.ready = TRUE] \in RouteState
         /\ [r EXCEPT !.claimed = TRUE] \in RouteState
BY DEF RouteState

\* There is one route at a time.
LEMMA LeasedStep == IndInv /\ [Next]_vars => Leased'
<1> SUFFICES ASSUME IndInv, [Next]_vars PROVE Leased'
  OBVIOUS
<1> USE DEF IndInv
<1>1. CASE \/ \E n \in Pane : Detach(n)
           \/ \E n \in Pane, own \in BOOLEAN : Attach(n, own)
           \/ \E d \in Device : Shut(d) \/ Gate(d)
           \/ \E d \in Device, n \in Pane : Acquire(d, n)
           \/ (Register \/ Forward \/ TakeReady \/ Unregister \/ Take \/
               OpenHardware \/ NextArrives \/ GraceOver)
           \/ UNCHANGED vars
  BY <1>1
  DEF Detach, Attach, Shut, Gate, Acquire, Register, Forward, TakeReady,
      Unregister, Take, OpenHardware, NextArrives, GraceOver, deviceVars,
      provVars, wireVars, helperVars, routeVars, clientVars, Closes, Opens,
      Answer, Ready, vars, Leased
<1>2. ASSUME NEW d \in Device, Answered(d)
      PROVE  Leased'
  <2>1. CASE UNCHANGED route
    BY <1>2, <2>1 DEF Answered, Leased
  <2> DEFINE n == dev[d].pane
  <2>2. ASSUME Joins(n, dev[d].att, TRUE),
               route' = [route EXCEPT ![table[n]].ready = TRUE,
                                      ![dev[d].on].claimed = TRUE]
        PROVE  Leased'
    <3>1. n \in Pane /\ dev[d].on \in Id
      BY <1>2 DEF Answered, Devices
    <3>2. table[n] \in Id
      BY <2>2, <3>1 DEF Joins, Leased
    <3> HIDE DEF n
    <3> DEFINE ready == [route EXCEPT ![table[n]].ready = TRUE]
    <3>3. ready \in [Id -> RouteState]
      <4>1. route \in [Id -> RouteState]
        BY DEF Leased
      <4>2. [route[table[n]] EXCEPT !.ready = TRUE] \in RouteState
        BY <3>2, <4>1, RouteFlags
      <4> QED BY <3>2, <4>1, <4>2
    <3>4. route' = [ready EXCEPT ![dev[d].on].claimed = TRUE]
      BY <2>2
    <3> HIDE DEF ready
    <3>5. route' \in [Id -> RouteState]
      <4>1. [ready[dev[d].on] EXCEPT !.claimed = TRUE] \in RouteState
        BY <3>1, <3>3, RouteFlags
      <4> QED BY <3>1, <3>3, <3>4, <4>1
    <3>6. \A j \in Id : route'[j].state = route[j].state
      BY <2>2, <3>1, <3>2 DEF Leased, RouteState
    <3> QED BY <1>2, <3>5, <3>6 DEF Answered, Leased
  <2> QED BY <1>2, <2>1, <2>2 DEF Answered
<1>3. CASE Dial
  <2>1. PICK d \in Device :
          /\ Admits(d, wanted)
          /\ route' = [route EXCEPT ![wanted] =
                         [NoRoute EXCEPT !.state = "live", !.pane = dev[d].pane,
                                         !.att = dev[d].att, !.reg = dev[d].reg]]
          /\ table' = [table EXCEPT ![dev[d].pane] = wanted]
    BY <1>3 DEF Dial
  <2>2. /\ wanted \in Id /\ lease = No
        /\ lease' = wanted /\ media' = media \cup {wanted}
    BY <1>3, <2>1 DEF Dial, Helper, Admits
  <2>3. dev[d] \in DeviceState
    BY DEF Devices
  <2>4. dev[d].pane \in Pane
    BY <2>1 DEF Admits, Waiting, Devices
  <2> DEFINE r == [NoRoute EXCEPT !.state = "live", !.pane = dev[d].pane,
                                  !.att = dev[d].att, !.reg = dev[d].reg]
  <2>5. r \in RouteState /\ r.state = "live"
    BY <2>3 DEF DeviceState, NoRoute, RouteState
  <2>6. route' = [route EXCEPT ![wanted] = r]
    BY <2>1
  <2> HIDE DEF r
  <2>7. table' \in [Pane -> Id \cup {No}]
    BY <2>1, <2>2, <2>4 DEF Leased
  <2>8. \A j \in Id : route'[j] = IF j = wanted THEN r ELSE route[j]
    BY <2>2, <2>6 DEF Leased
  <2>9. \A j \in Id : j # wanted => route[j].state = "gone"
    BY <2>2 DEF Leased, Id, No
  <2>10. route' \in [Id -> RouteState]
    BY <2>2, <2>5, <2>6 DEF Leased
  <2> QED BY <2>2, <2>5, <2>7, <2>8, <2>9, <2>10 DEF Leased
<1>4. CASE Refuse
  BY <1>4 DEF Refuse, GiveBack, Leased
<1>5. CASE OperationEnds
  BY <1>5 DEF OperationEnds, Leased
<1>6. CASE Away
  BY <1>6 DEF Away, Leased
<1>7. ASSUME NEW i \in Id, Drop(i)
      PROVE  Leased'
  <2>1. /\ \A j \in Id : route'[j].state = IF j = i THEN "ended" ELSE route[j].state
        /\ route' \in [Id -> RouteState]
    BY <1>7 DEF Drop, EndRoute, Leased, RouteState
  <2>2. table' \in [Pane -> Id \cup {No}] /\ UNCHANGED <<lease, media>>
    BY <1>7 DEF Drop, EndRoute, Leased
  <2> QED BY <1>7, <2>1, <2>2 DEF Drop, Leased
<1>8. ASSUME NEW i \in Id, IdleLook(i)
      PROVE  Leased'
  <2> DEFINE idle == Users(i) = {}
  <2>1. idle \in BOOLEAN /\ route' = [route EXCEPT ![i].idle = idle]
    BY <1>8 DEF IdleLook
  <2> HIDE DEF idle
  <2>2. route' \in [Id -> RouteState]
    BY <2>1 DEF Leased, RouteState
  <2>3. \A j \in Id : route'[j].state = route[j].state
    BY <2>1 DEF Leased, RouteState
  <2> QED BY <1>8, <2>2, <2>3 DEF IdleLook, Leased
<1>9. ASSUME NEW i \in Id, IdleExpire(i)
      PROVE  Leased'
  <2>1. /\ \A j \in Id :
              route'[j].state = IF j = i THEN "expired" ELSE route[j].state
        /\ route' \in [Id -> RouteState]
    BY <1>9 DEF IdleExpire, Leased, RouteState
  <2> QED BY <1>9, <2>1 DEF IdleExpire, Leased
<1>10. ASSUME NEW i \in Id, Gone(i)
       PROVE  Leased'
  <2>1. NoRoute \in RouteState /\ NoRoute.state = "gone"
    BY AudioLeaseAssumption DEF NoRoute, RouteState, No
  <2>2. lease = i /\ lease' = No /\ UNCHANGED <<table, media>>
    BY <1>10 DEF Gone, Leased
  <2>3. \A j \in Id : route'[j] = IF j = i THEN NoRoute ELSE route[j]
    BY <1>10 DEF Gone, Leased
  <2>4. route' \in [Id -> RouteState]
    BY <1>10, <2>1 DEF Gone, Leased
  <2>5. \A j \in Id : j # No
    BY DEF Id, No
  <2> QED BY <2>1, <2>2, <2>3, <2>4, <2>5 DEF Leased
<1> QED
  BY <1>1, <1>2, <1>3, <1>4, <1>5, <1>6, <1>7, <1>8, <1>9, <1>10, Steps

\* A granted acquisition keeps its route.
LEMMA OwnRouteStep == IndInv /\ [Next]_vars => OwnRoute'
<1> SUFFICES ASSUME IndInv, [Next]_vars PROVE OwnRoute'
  OBVIOUS
<1> USE DEF IndInv
<1>1. CASE \/ \E n \in Pane : Detach(n)
           \/ \E n \in Pane, own \in BOOLEAN : Attach(n, own)
           \/ \E i \in Id : IdleLook(i) \/ IdleExpire(i) \/ Gone(i)
           \/ UNCHANGED vars
  BY <1>1
  DEF Detach, Attach, IdleLook, IdleExpire, Gone, deviceVars, provVars,
      wireVars, helperVars, routeVars, clientVars, vars, OwnRoute, Connected,
      Granted
<1>2. ASSUME NEW d \in Device, Shut(d)
      PROVE  OwnRoute'
  <2>1. ASSUME NEW e \in Device, dpc'[e] = "wait"
        PROVE  e # d /\ dev'[e] = dev[e] /\ dpc[e] = "wait"
    BY <1>2, <2>1 DEF Shut, Closes, Devices
  <2>2. UNCHANGED <<prov, reg, helper, wanted, fromMac, table>>
    BY <1>2 DEF Shut, provVars, wireVars, helperVars, routeVars
  <2> QED BY <2>1, <2>2 DEF OwnRoute, Granted, Connected
<1>3. ASSUME NEW d \in Device, Gate(d)
      PROVE  OwnRoute'
  <2>1. UNCHANGED <<prov, reg, helper, wanted, fromMac, table>>
    BY <1>3 DEF Gate, wireVars, helperVars, routeVars
  <2>2. ASSUME NEW e \in Device, e # d
        PROVE  dev'[e] = dev[e] /\ dpc'[e] = dpc[e]
    BY <1>3, <2>2 DEF Gate, Closes, Opens, Devices
  <2>3. ASSUME dpc'[d] = "wait"
        PROVE  ~Granted(dev[d].on)' /\ dev'[d].answer = "none"
    <3>1. PICK i \in Id : ~Referred(i) /\ dev' = [dev EXCEPT ![d].on = i]
      BY <1>3, <2>3 DEF Gate, Closes, Opens, Devices
    <3>2. dev'[d].on = i /\ dev'[d].answer = dev[d].answer
      BY <3>1 DEF Devices, DeviceState
    <3>3. dev[d].answer = "none"
      BY <1>3 DEF Gate, Devices
    <3>4. wanted # i
      BY <3>1 DEF Referred
    <3>5. fromMac # <<>> => fromMac[1].id # i
      <4>1. fromMac # <<>> => 1 \in 1..Len(fromMac)
        BY EmptySeq DEF Provider
      <4> QED BY <3>1, <4>1 DEF Referred
    <3> QED BY <2>1, <3>2, <3>3, <3>4, <3>5 DEF Granted
  <2> QED BY <2>1, <2>2, <2>3 DEF OwnRoute, Granted, Connected
<1>4. ASSUME NEW d \in Device, Answered(d)
      PROVE  OwnRoute'
  <2>1. ASSUME NEW e \in Device, dpc'[e] = "wait"
        PROVE  e # d /\ dev'[e] = dev[e] /\ dpc[e] = "wait"
    BY <1>4, <2>1 DEF Answered, Closes, Opens, Devices
  <2>2. UNCHANGED <<prov, reg, helper, wanted, fromMac, table>>
    BY <1>4 DEF Answered, provVars, wireVars, helperVars
  <2> QED BY <2>1, <2>2 DEF OwnRoute, Granted, Connected
<1>5. ASSUME NEW d \in Device, NEW n \in Pane, Acquire(d, n)
      PROVE  OwnRoute'
  <2>1. ASSUME NEW e \in Device, dpc'[e] = "wait"
        PROVE  e # d /\ dev'[e] = dev[e] /\ dpc[e] = "wait"
    BY <1>5, <2>1 DEF Acquire, Opens, Devices
  <2>2. UNCHANGED <<prov, reg, helper, wanted, fromMac, table>>
    BY <1>5 DEF Acquire, provVars, wireVars, helperVars, routeVars
  <2> QED BY <2>1, <2>2 DEF OwnRoute, Granted, Connected
<1>6. CASE Register
  <2>1. ASSUME NEW e \in Device
        PROVE  ~Connected(dev[e].reg)'
    <3>1. dev[e].reg <= reg /\ dev[e].reg \in Nat /\ reg \in Nat
      BY AudioLeaseAssumption DEF Devices, DeviceState
    <3>2. dev'[e].reg = dev[e].reg /\ reg' = reg + 1
      BY <1>6 DEF Register, deviceVars
    <3> QED BY <3>1, <3>2 DEF Connected
  <2> QED BY <2>1 DEF OwnRoute
<1>7. CASE Forward
  <2>1. UNCHANGED <<dpc, dev, reg, fromMac, helper, wanted, table>>
    BY <1>7 DEF Forward, deviceVars, helperVars, routeVars
  <2>2. prov # "off"
    BY <1>7 DEF Forward
  <2> QED BY <2>1, <2>2 DEF OwnRoute, Connected, Granted
<1>8. CASE TakeReady
  <2>1. prov # "off" /\ prov' # "off"
    BY <1>8 DEF TakeReady
  <2>2. UNCHANGED <<dpc, reg, helper, wanted, table>>
    BY <1>8 DEF TakeReady, helperVars, routeVars
  <2>3. fromMac' = <<>> /\ Head(fromMac) = fromMac[1]
    BY <1>8, Single DEF TakeReady, OneRequest, Provider
  <2>4. ASSUME NEW e \in Device
        PROVE  /\ dev'[e].reg = dev[e].reg /\ dev'[e].pane = dev[e].pane
               /\ dev'[e].on = dev[e].on
    BY <1>8, <2>4 DEF TakeReady, Answer, Devices, DeviceState
  <2>5. ASSUME NEW e \in Device, dev'[e].answer = "ok", dev[e].answer # "ok"
        PROVE  Granted(dev[e].on)
    <3>1. dev[e].on = cur /\ Head(fromMac).ok
      BY <1>8, <2>5 DEF TakeReady, Answer, Waiting, Devices, DeviceState
    <3>2. fromMac # <<>> /\ fromMac[1].id = cur /\ fromMac[1].ok
      BY <1>8, <2>3, <3>1 DEF TakeReady
    <3>3. fromMac[1] \in Reply
      <4>1. 1 \in 1..Len(fromMac)
        BY <3>2, EmptySeq DEF Provider
      <4> QED BY <4>1, ElementOfSeq DEF Provider
    <3>4. fromMac[1] = [id |-> cur, ok |-> TRUE]
      BY <3>2, <3>3 DEF Reply
    <3> QED BY <3>1, <3>2, <3>4 DEF Granted
  <2>6. ASSUME NEW e \in Device, Granted(dev[e].on)'
        PROVE  Granted(dev[e].on)
    BY <2>2, <2>3, <2>4, <2>6 DEF Granted
  <2> QED BY <2>1, <2>2, <2>4, <2>5, <2>6 DEF OwnRoute, Connected
<1>9. CASE Unregister
  BY <1>9 DEF Unregister, OwnRoute, Connected
<1>10. CASE Take
  <2>1. UNCHANGED <<dpc, dev, prov, reg, fromMac, table>> /\ helper' # "opened"
    BY <1>10 DEF Take, deviceVars, provVars, wireVars, routeVars
  <2> QED BY <2>1 DEF OwnRoute, Connected, Granted
<1>11. CASE Dial
  <2>1. PICK d \in Device :
          /\ Admits(d, wanted)
          /\ table' = [table EXCEPT ![dev[d].pane] = wanted]
    BY <1>11 DEF Dial
  <2>2. UNCHANGED <<dpc, dev, prov, reg>>
    BY <1>11 DEF Dial, deviceVars, provVars
  <2>3. /\ dpc[d] = "wait" /\ dev[d].on = wanted /\ dev[d].reg = reg
        /\ dev[d].pane \in Pane
    BY <2>1 DEF Admits, Waiting, Connected, Devices
  <2>4. ASSUME NEW e \in Device, dpc[e] = "wait", dev[e].reg = reg
        PROVE  e = d
    BY <2>3, <2>4 DEF OneWaits
  <2>5. table'[dev[d].pane] = dev[d].on
    BY <2>1, <2>3 DEF Leased
  <2> QED BY <2>2, <2>4, <2>5 DEF OwnRoute, Connected
<1>12. CASE OpenHardware
  <2>1. UNCHANGED <<dpc, dev, prov, reg, table>>
    BY <1>12 DEF OpenHardware, deviceVars, provVars, routeVars
  <2>2. ASSUME prov # "off"
        PROVE  fromMac' = <<[id |-> wanted, ok |-> TRUE]>> /\ helper = "opened"
    <3>1. prov = "sent" /\ fromMac = <<>> /\ helper = "opened"
      BY <1>12, <2>2 DEF OpenHardware, OneRequest
    <3> QED BY <1>12, <3>1 DEF OpenHardware, Ready
  <2>3. ASSUME NEW e \in Device, prov # "off", Granted(dev[e].on)'
        PROVE  Granted(dev[e].on)
    <3>1. [id |-> dev[e].on, ok |-> TRUE] = [id |-> wanted, ok |-> TRUE]
      <4>1. helper' # "opened"
        BY <1>12 DEF OpenHardware
      <4>2. fromMac'[1] = [id |-> dev[e].on, ok |-> TRUE]
        BY <2>1, <2>3, <4>1 DEF Granted
      <4>3. fromMac'[1] = [id |-> wanted, ok |-> TRUE]
        BY <2>2, <2>3
      <4> QED BY <4>2, <4>3
    <3>2. dev[e].on = wanted
      BY <3>1
    <3> QED BY <2>2, <2>3, <3>2 DEF Granted
  <2> QED BY <2>1, <2>3 DEF OwnRoute, Connected
<1>13. CASE NextArrives
  <2>1. UNCHANGED <<dpc, dev, prov, reg, fromMac, table>> /\ helper' # "opened"
    BY <1>13 DEF NextArrives, deviceVars, provVars, wireVars, routeVars
  <2> QED BY <2>1 DEF OwnRoute, Connected, Granted
<1>14. CASE GraceOver
  <2>1. UNCHANGED <<dpc, dev, prov, reg, table>> /\ helper' # "opened"
    BY <1>14 DEF GraceOver, deviceVars, provVars, routeVars
  <2>2. ASSUME prov # "off"
        PROVE  fromMac' = <<[id |-> next, ok |-> FALSE]>>
    <3>1. prov = "sent" /\ fromMac = <<>>
      BY <1>14, <2>2 DEF GraceOver, OneRequest
    <3> QED BY <1>14, <3>1 DEF GraceOver, Ready
  <2>3. ASSUME NEW e \in Device, prov # "off", Granted(dev[e].on)'
        PROVE  FALSE
    <3>1. [id |-> dev'[e].on, ok |-> TRUE] = [id |-> next, ok |-> FALSE]
      <4>1. fromMac'[1] = [id |-> dev'[e].on, ok |-> TRUE]
        BY <2>1, <2>3 DEF Granted
      <4>2. fromMac'[1] = [id |-> next, ok |-> FALSE]
        BY <2>2, <2>3
      <4> QED BY <4>1, <4>2
    <3> QED BY <3>1
  <2> QED BY <2>1, <2>3 DEF OwnRoute, Connected
<1>15. CASE Refuse
  <2>1. UNCHANGED <<dpc, dev, prov, reg, table>> /\ helper' # "opened"
    BY <1>15 DEF Refuse, GiveBack, deviceVars, provVars, routeVars
  <2>2. ASSUME prov # "off"
        PROVE  fromMac' = <<[id |-> wanted, ok |-> FALSE]>>
    <3>1. prov = "sent" /\ fromMac = <<>>
      BY <1>15, <2>2 DEF Refuse, OneRequest
    <3> QED BY <1>15, <3>1 DEF Refuse, GiveBack, Ready
  <2>3. ASSUME NEW e \in Device, prov # "off", Granted(dev[e].on)'
        PROVE  FALSE
    <3>1. [id |-> dev'[e].on, ok |-> TRUE] = [id |-> wanted, ok |-> FALSE]
      <4>1. fromMac'[1] = [id |-> dev'[e].on, ok |-> TRUE]
        BY <2>1, <2>3 DEF Granted
      <4>2. fromMac'[1] = [id |-> wanted, ok |-> FALSE]
        BY <2>2, <2>3
      <4> QED BY <4>1, <4>2
    <3> QED BY <3>1
  <2> QED BY <2>1, <2>3 DEF OwnRoute, Connected
<1>16. CASE OperationEnds
  <2>1. UNCHANGED <<dpc, dev, prov, reg, fromMac, table>> /\ helper' # "opened"
    BY <1>16 DEF OperationEnds, deviceVars, provVars, wireVars, routeVars
  <2> QED BY <2>1 DEF OwnRoute, Connected, Granted
<1>17. CASE Away
  <2>1. UNCHANGED <<dpc, dev, prov, reg, fromMac, table>> /\ helper' # "opened"
    BY <1>17 DEF Away, deviceVars, provVars, wireVars, routeVars
  <2> QED BY <2>1 DEF OwnRoute, Connected, Granted
<1>18. ASSUME NEW i \in Id, Drop(i)
       PROVE  OwnRoute'
  <2>1. UNCHANGED <<dpc, dev, prov, reg, fromMac, helper, wanted>>
    BY <1>18 DEF Drop, EndRoute, deviceVars, provVars, wireVars, helperVars
  <2>2. \A n \in Pane : table'[n] \in {table[n], No}
    BY <1>18 DEF Drop, EndRoute, Leased
  <2>3. \A e \in Device : dpc[e] = "wait" => dev[e].pane \in Pane
    BY DEF Devices
  <2> QED BY <2>1, <2>2, <2>3 DEF OwnRoute, Connected, Granted
<1> QED
  BY <1>1, <1>2, <1>3, <1>4, <1>5, <1>6, <1>7, <1>8, <1>9, <1>10, <1>11,
     <1>12, <1>13, <1>14, <1>15, <1>16, <1>17, <1>18, Steps

\* Devices join live routes.
LEMMA JoinsLive ==
  ASSUME Devices, IdleTakesNoDevice, NEW d \in Device, NEW rec \in DeviceState,
         NEW n, NEW a, NEW activate \in BOOLEAN, Joins(n, a, activate),
         Opens(d, rec, table[n]),
         \A j \in Id : route'[j].state = route[j].state
  PROVE  IdleTakesNoDevice'
<1>1. route[table[n]].state = "live"
  BY DEF Joins
<1>2. dev'[d].on = table[n]
  BY DEF Opens, Devices, DeviceState
<1>3. \A e \in Device : e # d => dev'[e] = dev[e] /\ dpc'[e] = dpc[e]
  BY DEF Opens, Devices
<1> QED BY <1>1, <1>2, <1>3 DEF IdleTakesNoDevice, Users

\* Idle routes are joined by nobody.
LEMMA IdleStep == IndInv /\ [Next]_vars => IdleTakesNoDevice'
<1> SUFFICES ASSUME IndInv, [Next]_vars PROVE IdleTakesNoDevice'
  OBVIOUS
<1> USE DEF IndInv
<1>1. CASE \/ \E n \in Pane : Detach(n)
           \/ \E n \in Pane, own \in BOOLEAN : Attach(n, own)
           \/ (Register \/ Forward \/ Take \/ OpenHardware \/ NextArrives \/
               GraceOver \/ Refuse \/ OperationEnds \/ Away)
           \/ UNCHANGED vars
  BY <1>1
  DEF Detach, Attach, Register, Forward, Take, OpenHardware, NextArrives,
      GraceOver, Refuse, OperationEnds, Away, deviceVars, provVars, wireVars,
      helperVars, routeVars, clientVars, Ready, GiveBack, vars,
      IdleTakesNoDevice, Users
<1>2. ASSUME NEW d \in Device, Shut(d)
      PROVE  IdleTakesNoDevice'
  <2>1. \A e \in Device :
           dpc'[e] = "open" => dpc[e] = "open" /\ dev'[e].on = dev[e].on
    BY <1>2 DEF Shut, Closes, Devices
  <2>2. UNCHANGED route
    BY <1>2 DEF Shut, routeVars
  <2> QED BY <2>1, <2>2 DEF IdleTakesNoDevice, Users
<1>3. ASSUME NEW d \in Device, Gate(d)
      PROVE  IdleTakesNoDevice'
  <2>1. UNCHANGED route
    BY <1>3 DEF Gate, routeVars
  <2>2. CASE /\ Opens(d, dev[d], table[dev[d].pane])
             /\ Joins(dev[d].pane, dev[d].att, FALSE)
    BY <2>1, <2>2, JoinsLive DEF Devices
  <2>3. CASE dpc' = [dpc EXCEPT ![d] = "wait"] \/ Closes(d)
    <3>1. dpc'[d] # "open"
      BY <2>3 DEF Closes, Devices
    <3>2. \A e \in Device : e # d => dev'[e] = dev[e] /\ dpc'[e] = dpc[e]
      BY <1>3, <2>3 DEF Gate, Closes, Opens, Devices
    <3> QED BY <2>1, <3>1, <3>2 DEF IdleTakesNoDevice, Users
  <2> QED BY <1>3, <2>2, <2>3 DEF Gate
<1>4. ASSUME NEW d \in Device, Answered(d)
      PROVE  IdleTakesNoDevice'
  <2>1. CASE Closes(d) /\ UNCHANGED route
    BY <2>1 DEF Closes, IdleTakesNoDevice, Users, Devices
  <2> DEFINE n == dev[d].pane
  <2>2. ASSUME Opens(d, dev[d], table[n]), Joins(n, dev[d].att, TRUE),
               route' = [route EXCEPT ![table[n]].ready = TRUE,
                                      ![dev[d].on].claimed = TRUE]
        PROVE  IdleTakesNoDevice'
    <3>1. n \in Pane /\ dev[d].on \in Id
      BY <1>4 DEF Answered, Devices
    <3>2. table[n] \in Id
      BY <2>2, <3>1 DEF Joins, Leased
    <3> HIDE DEF n
    <3>3. \A j \in Id : route'[j].state = route[j].state
      BY <2>2, <3>1, <3>2 DEF Leased, RouteState
    <3> QED BY <2>2, <3>3, JoinsLive DEF Devices
  <2> QED BY <1>4, <2>1, <2>2 DEF Answered
<1>5. ASSUME NEW d \in Device, NEW n \in Pane, Acquire(d, n)
      PROVE  IdleTakesNoDevice'
  <2> DEFINE rec == [NoDevice EXCEPT !.pane = n, !.att = client[n].id, !.reg = reg]
  <2>1. UNCHANGED route
    BY <1>5 DEF Acquire, routeVars
  <2>2. rec \in DeviceState
    BY <2>1, AudioLeaseAssumption DEF NoDevice, DeviceState, No, Devices
  <2>3. \/ Opens(d, rec, table[n]) /\ Joins(n, client[n].id, FALSE)
        \/ dpc' = [dpc EXCEPT ![d] = "gate"] /\ dev' = [dev EXCEPT ![d] = rec]
    BY <1>5 DEF Acquire
  <2> HIDE DEF rec
  <2>4. CASE Opens(d, rec, table[n]) /\ Joins(n, client[n].id, FALSE)
    BY <2>1, <2>2, <2>4, JoinsLive
  <2>5. CASE dpc' = [dpc EXCEPT ![d] = "gate"] /\ dev' = [dev EXCEPT ![d] = rec]
    BY <2>1, <2>5 DEF IdleTakesNoDevice, Users, Devices
  <2> QED BY <2>3, <2>4, <2>5
<1>6. CASE TakeReady
  <2>1. \A e \in Device : dev'[e].on = dev[e].on
    BY <1>6 DEF TakeReady, Answer, Devices, DeviceState
  <2>2. UNCHANGED <<dpc, route>>
    BY <1>6 DEF TakeReady, routeVars
  <2> QED BY <2>1, <2>2 DEF IdleTakesNoDevice, Users
<1>7. CASE Unregister
  <2>1. \A e \in Device : dev'[e].on = dev[e].on
    BY <1>7 DEF Unregister, Answer, Devices, DeviceState
  <2>2. UNCHANGED <<dpc, route>>
    BY <1>7 DEF Unregister, routeVars
  <2> QED BY <2>1, <2>2 DEF IdleTakesNoDevice, Users
<1>8. CASE Dial
  <2>1. \A j \in Id : route'[j].state = "expired" => route[j].state = "expired"
    BY <1>8 DEF Dial, Leased, RouteState, NoRoute, Helper, Users
  <2>2. UNCHANGED <<dpc, dev>>
    BY <1>8 DEF Dial, deviceVars
  <2> QED BY <2>1, <2>2 DEF IdleTakesNoDevice, Users
<1>9. ASSUME NEW i \in Id, Drop(i)
      PROVE  IdleTakesNoDevice'
  <2>1. \A j \in Id : route'[j].state = "expired" => route[j].state = "expired"
    BY <1>9 DEF Drop, EndRoute, Leased, RouteState, NoRoute, Helper, Users
  <2>2. UNCHANGED <<dpc, dev>>
    BY <1>9 DEF Drop, EndRoute, deviceVars
  <2> QED BY <2>1, <2>2 DEF IdleTakesNoDevice, Users
<1>10. ASSUME NEW i \in Id, IdleLook(i)
       PROVE  IdleTakesNoDevice'
  <2>1. \A j \in Id : route'[j].state = "expired" => route[j].state = "expired"
    BY <1>10 DEF IdleLook, Leased, RouteState, NoRoute, Helper, Users
  <2>2. UNCHANGED <<dpc, dev>>
    BY <1>10 DEF IdleLook, deviceVars
  <2> QED BY <2>1, <2>2 DEF IdleTakesNoDevice, Users
<1>11. ASSUME NEW i \in Id, IdleExpire(i)
       PROVE  IdleTakesNoDevice'
  <2>1. \A j \in Id : route'[j].state = "expired" =>
           route[j].state = "expired" \/ Users(j) = {}
    BY <1>11 DEF IdleExpire, Leased, RouteState, NoRoute, Helper, Users
  <2>2. UNCHANGED <<dpc, dev>>
    BY <1>11 DEF IdleExpire, deviceVars
  <2> QED BY <2>1, <2>2 DEF IdleTakesNoDevice, Users
<1>12. ASSUME NEW i \in Id, Gone(i)
       PROVE  IdleTakesNoDevice'
  <2>1. \A j \in Id : route'[j].state = "expired" => route[j].state = "expired"
    BY <1>12 DEF Gone, Leased, RouteState, NoRoute, Helper, Users
  <2>2. UNCHANGED <<dpc, dev>>
    BY <1>12 DEF Gone, deviceVars
  <2> QED BY <2>1, <2>2 DEF IdleTakesNoDevice, Users
<1> QED
  BY <1>1, <1>2, <1>3, <1>4, <1>5, <1>6, <1>7, <1>8, <1>9, <1>10, <1>11,
     <1>12, Steps

\* A route is activated by the acquisition it was opened for.
LEMMA ReadyStep == IndInv /\ [Next]_vars => ReadyIsClaimed'
<1> SUFFICES ASSUME IndInv, [Next]_vars PROVE ReadyIsClaimed'
  OBVIOUS
<1> USE DEF IndInv
<1>1. CASE \/ \E n \in Pane : Detach(n)
           \/ \E n \in Pane, own \in BOOLEAN : Attach(n, own)
           \/ \E d \in Device : Shut(d) \/ Gate(d)
           \/ \E d \in Device, n \in Pane : Acquire(d, n)
           \/ (Register \/ Forward \/ TakeReady \/ Unregister \/ Take \/
               OpenHardware \/ NextArrives \/ GraceOver \/ Refuse \/
               OperationEnds \/ Away)
           \/ UNCHANGED vars
  BY <1>1
  DEF Detach, Attach, Shut, Gate, Acquire, Register, Forward, TakeReady,
      Unregister, Take, OpenHardware, NextArrives, GraceOver, Refuse,
      OperationEnds, Away, deviceVars, provVars, wireVars, helperVars,
      routeVars, clientVars, Closes, Opens, Answer, Ready, GiveBack, vars,
      ReadyIsClaimed
<1>2. ASSUME NEW d \in Device, Answered(d)
      PROVE  ReadyIsClaimed'
  <2>1. CASE UNCHANGED route
    BY <2>1 DEF ReadyIsClaimed
  <2> DEFINE n == dev[d].pane
  <2>2. ASSUME dev[d].answer = "ok", Connected(dev[d].reg),
               Joins(n, dev[d].att, TRUE),
               route' = [route EXCEPT ![table[n]].ready = TRUE,
                                      ![dev[d].on].claimed = TRUE]
        PROVE  ReadyIsClaimed'
    <3>1. dpc[d] = "wait" /\ dev[d].on \in Id
      BY <1>2 DEF Answered, Devices
    <3>2. table[n] = dev[d].on
      BY <2>2, <3>1 DEF OwnRoute, Joins
    <3> HIDE DEF n
    <3>3. route' = [route EXCEPT ![dev[d].on].ready = TRUE,
                                 ![dev[d].on].claimed = TRUE]
      BY <2>2, <3>2
    <3>4. \A j \in Id : j # dev[d].on => route'[j] = route[j]
      BY <3>1, <3>3 DEF Leased
    <3>5. route'[dev[d].on].ready /\ route'[dev[d].on].claimed
      BY <3>1, <3>3 DEF Leased, RouteState
    <3> QED BY <3>4, <3>5 DEF ReadyIsClaimed
  <2> QED BY <1>2, <2>1, <2>2 DEF Answered
<1>3. CASE Dial
  <2>1. \A j \in Id : j # wanted => route'[j] = route[j]
    BY <1>3 DEF Dial, Leased
  <2>2. ~route'[wanted].ready /\ ~route'[wanted].claimed
    BY <1>3 DEF Dial, Leased, Helper, NoRoute
  <2> QED BY <2>1, <2>2 DEF ReadyIsClaimed
<1>4. ASSUME NEW i \in Id, Drop(i)
      PROVE  ReadyIsClaimed'
  <2>1. ASSUME NEW j \in Id, route'[j].state = "live"
        PROVE  /\ route[j].state = "live"
               /\ route'[j].ready = route[j].ready
               /\ route'[j].claimed = route[j].claimed
    BY <1>4, <2>1 DEF Drop, EndRoute, Leased, RouteState, NoRoute
  <2> QED BY <2>1 DEF ReadyIsClaimed
<1>5. ASSUME NEW i \in Id, IdleLook(i)
      PROVE  ReadyIsClaimed'
  <2>1. ASSUME NEW j \in Id, route'[j].state = "live"
        PROVE  /\ route[j].state = "live"
               /\ route'[j].ready = route[j].ready
               /\ route'[j].claimed = route[j].claimed
    BY <1>5, <2>1 DEF IdleLook, Leased, RouteState, NoRoute
  <2> QED BY <2>1 DEF ReadyIsClaimed
<1>6. ASSUME NEW i \in Id, IdleExpire(i)
      PROVE  ReadyIsClaimed'
  <2>1. ASSUME NEW j \in Id, route'[j].state = "live"
        PROVE  /\ route[j].state = "live"
               /\ route'[j].ready = route[j].ready
               /\ route'[j].claimed = route[j].claimed
    BY <1>6, <2>1 DEF IdleExpire, Leased, RouteState, NoRoute
  <2> QED BY <2>1 DEF ReadyIsClaimed
<1>7. ASSUME NEW i \in Id, Gone(i)
      PROVE  ReadyIsClaimed'
  <2>1. ASSUME NEW j \in Id, route'[j].state = "live"
        PROVE  /\ route[j].state = "live"
               /\ route'[j].ready = route[j].ready
               /\ route'[j].claimed = route[j].claimed
    BY <1>7, <2>1 DEF Gone, Leased, RouteState, NoRoute
  <2> QED BY <2>1 DEF ReadyIsClaimed
<1> QED
  BY <1>1, <1>2, <1>3, <1>4, <1>5, <1>6, <1>7, Steps

\* The invariant holds before anything is opened.
LEMMA IndInit == Init => IndInv
<1> SUFFICES ASSUME Init PROVE IndInv
  OBVIOUS
<1>1. Devices
  BY AudioLeaseAssumption DEF Init, Devices, NoDevice, DeviceState, No
<1>2. OneWaits /\ OwnRoute /\ IdleTakesNoDevice
  BY DEF Init, OneWaits, OwnRoute, IdleTakesNoDevice, NoRoute
<1>3. Provider
  BY DEF Init, Provider, Reply
<1>4. Helper /\ OneRequest
  BY DEF Init, Helper, OneRequest
<1>5. Leased
  <2>1. NoRoute \in RouteState /\ NoRoute.state = "gone"
    BY AudioLeaseAssumption DEF NoRoute, RouteState, No
  <2>2. \A i \in Id : i # No
    BY DEF Id, No
  <2> QED BY <2>1, <2>2 DEF Init, Leased
<1>6. ReadyIsClaimed
  BY DEF Init, ReadyIsClaimed, NoRoute
<1> QED BY <1>1, <1>2, <1>3, <1>4, <1>5, <1>6 DEF IndInv

(* Whatever is acquired, granted late, cancelled, or lost with the helper or *)
(* its registration: requests go to the Mac one at a time, and what a device *)
(* that was granted the Mac's hardware finds in its pane is the route that   *)
(* was opened for it (Provider::serve, serve_auto and acquire).              *)
THEOREM Inductive == Spec => []IndInv
<1>1. IndInv /\ [Next]_vars => IndInv'
  <2> SUFFICES ASSUME IndInv, [Next]_vars PROVE IndInv'
    OBVIOUS
  <2>1. Devices' /\ OneWaits'
    BY DevicesStep, OneWaitsStep
  <2>2. Provider' /\ Helper'
    BY ProviderStep, HelperKept DEF IndInv
  <2>3. OneRequest' /\ Leased' /\ OwnRoute'
    BY RequestStep, LeasedStep, OwnRouteStep
  <2>4. IdleTakesNoDevice' /\ ReadyIsClaimed'
    BY IdleStep, ReadyStep
  <2> QED BY <2>1, <2>2, <2>3, <2>4 DEF IndInv
<1> QED BY <1>1, IndInit, PTL DEF Spec

(* However expiry, cancellation and late answers interleave with joining, a  *)
(* lease, its route and its request belong together: idle expiry takes no    *)
(* device's audio (Route::expired), the route an acquisition activates is    *)
(* the one its permit opened (acquire), and the provider reads no reply but  *)
(* the one to the request it forwarded (Provider::serve).                    *)
THEOREM LeasesAreAgreed == Spec => []LeaseIsAgreed
<1>1. ASSUME IndInv
      PROVE  LeaseIsAgreed
  <2> USE <1>1 DEF IndInv
  <2>1. lease # No <=> \E i \in Id : route[i].state # "gone"
    BY DEF Leased, Id, No
  <2>2. TypeOK
    BY <2>1 DEF TypeOK, Devices, DeviceState, Provider, Reply, Helper, Leased,
       RouteState
  <2>3. ASSUME prov # "off", fromMac # <<>>
        PROVE  prov = "sent" /\ Head(fromMac).id = cur
    <3>1. Head(fromMac) = fromMac[1]
      BY <2>3, Single DEF OneRequest, Provider
    <3> QED BY <2>3, <3>1 DEF OneRequest
  <2> QED BY <2>2, <2>3 DEF LeaseIsAgreed, RepliesMatch
<1> QED BY <1>1, Inductive, PTL
=============================================================================
