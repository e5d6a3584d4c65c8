----------------------------- MODULE BrokerProofs -----------------------------
(***************************************************************************)
(* The safety properties of module Broker for any panes, keys, streams and *)
(* connections, and any number of outages.                                 *)
(***************************************************************************)
EXTENDS Broker, SequenceTheorems, TLAPS

\* What a relay holds is said by where it is.
Places ==
    \A p \in Pane :
        /\ pc[p] = "pin" => shown[p] # None
        /\ pc[p] \in {"insert", "open"} => mine[p] # None
        /\ stream[p] # None <=> pc[p] \in {"bridge", "stream"}
        /\ media[p] # None <=> pc[p] = "stream" /\ p \in Audio
        /\ pc[p] = "bridge" => p \in Audio

\* The inductive invariant.
IndInv == TypeOK /\ Places /\ OneLink /\ PinHolds

ConnState == [state : {"up", "silent", "closed"}, key : Key \cup {None}]

-----------------------------------------------------------------------------
(* Connections *)

\* Connections get older: none changes its key, and none that is closed opens.
Older ==
    /\ conn' \in [Conn -> ConnState]
    /\ \A c \in Conn : conn'[c].key = conn[c].key
    /\ \A c \in Conn : conn[c].state = "closed" => conn'[c].state = "closed"

\* The relay of p has a new connection, made with the key k, that nobody held.
Fresh(p, c, k) ==
    /\ c \in Conn
    /\ ~Held(c)
    /\ conn' \in [Conn -> ConnState]
    /\ conn'[c].key = k
    /\ \A d \in Conn \ {c} : conn'[d] = conn[d]
    /\ mine' = [mine EXCEPT ![p] = c]
    /\ pc' = [pc EXCEPT ![p] = "insert"]

\* A lost path is noticed by nobody yet.
LEMMA Losing ==
  ASSUME TypeOK, NEW C, conn' = Lose(C)
  PROVE  Older
<1>1. \A c \in Conn : conn[c] \in ConnState
  BY DEF TypeOK, ConnState
<1>2. ASSUME NEW c \in Conn
      PROVE  /\ conn'[c] \in ConnState
             /\ conn'[c].key = conn[c].key
             /\ conn[c].state = "closed" => conn'[c] = conn[c]
  BY <1>1 DEF Lose, ConnState
<1>3. conn' = [c \in Conn |-> conn'[c]]
  BY DEF Lose
<1> QED BY <1>2, <1>3 DEF Older

\* Closing a connection only closes it.
LEMMA Closing ==
  ASSUME TypeOK, NEW c \in Conn, conn' = [conn EXCEPT ![c].state = "closed"]
  PROVE  Older /\ conn'[c].state = "closed"
BY DEF Older, ConnState, TypeOK

\* A dial that goes through makes a connection of its own.
LEMMA Establishing ==
  ASSUME TypeOK, NEW p \in Pane, NEW k \in Key, Established(p, k)
  PROVE  \E c \in Conn : Fresh(p, c, k)
<1>1. PICK c \in Conn :
         /\ ~Held(c)
         /\ conn' = [conn EXCEPT ![c] = [state |-> "up", key |-> k]]
         /\ mine' = [mine EXCEPT ![p] = c]
         /\ Goto(p, "insert")
  BY DEF Established
<1>2. [state |-> "up", key |-> k] \in ConnState
  BY DEF ConnState
<1>3. conn \in [Conn -> ConnState]
  BY DEF TypeOK, ConnState
<1>4. conn'[c].key = k /\ \A d \in Conn \ {c} : conn'[d] = conn[d]
  BY <1>1, <1>3
<1> QED BY <1>1, <1>2, <1>3, <1>4 DEF Fresh, Goto

\* In every step either connections get older, or one relay has a new one.
LEMMA ConnSteps ==
  ASSUME IndInv, [Next]_vars
  PROVE  \/ Older
         \/ \E p \in Pane, c \in Conn, k \in Key :
               /\ Fresh(p, c, k)
               /\ CheckPin(p) \/ AppendPin(p)
<1> USE BrokerAssumption DEF IndInv
<1>1. ASSUME conn' = conn
      PROVE  Older
  BY <1>1 DEF Older, ConnState, TypeOK
<1>2. CASE HostDown \/ \E c \in Conn : PathLost(c)
  BY <1>2, Losing DEF HostDown, PathLost
<1>3. CASE \E c \in Conn : Noticed(c)
  BY <1>3, Closing DEF Noticed
<1>4. ASSUME NEW p \in Pane, CheckPin(p), conn' # conn
      PROVE  \E c \in Conn, k \in Key : Fresh(p, c, k)
  <2>1. key \in Key
    BY DEF TypeOK
  <2>2. Established(p, key)
    BY <1>4 DEF CheckPin
  <2> QED BY <2>1, <2>2, Establishing
<1>5. ASSUME NEW p \in Pane, AppendPin(p), conn' # conn
      PROVE  \E c \in Conn, k \in Key : Fresh(p, c, k)
  <2>1. shown[p] \in Key
    BY <1>5 DEF AppendPin, Places, TypeOK
  <2>2. Established(p, shown[p])
    BY <1>5 DEF AppendPin
  <2> QED BY <2>1, <2>2, Establishing
<1>6. ASSUME NEW p \in Pane, Insert(p)
      PROVE  Older
  <2>1. mine[p] \in Conn
    BY <1>6 DEF Insert, Places, TypeOK
  <2> QED BY <1>1, <1>6, <2>1, Closing DEF Insert
<1>7. ASSUME NEW p \in Pane, Evict(p)
      PROVE  Older
  BY <1>1, <1>7, Closing DEF Evict, TypeOK
<1>8. ASSUME NEW p \in Pane,
             \/ Relay(p) \/ Live(p) \/ DialFails(p) \/ Open(p) \/ OpenFails(p)
             \/ Bridge(p) \/ StreamEnds(p) \/ Hangup(p)
             \/ AppendFails(p) \/ RequestTooLarge(p)
      PROVE  conn' = conn
  BY <1>8
  DEF Relay, Live, DialFails, Open, OpenFails, Bridge, StreamEnds, Hangup, Ends,
      AppendFails, RequestTooLarge
<1>9. CASE HostUp \/ EditHosts \/ UNCHANGED vars
  BY <1>1, <1>9 DEF HostUp, EditHosts, vars
<1> QED
  BY <1>1, <1>2, <1>3, <1>4, <1>5, <1>6, <1>7, <1>8, <1>9 DEF Next, PaneStep

-----------------------------------------------------------------------------
(* The invariant *)

\* The host and hosts.json change by themselves.
LEMMA HostStep ==
  ASSUME TypeOK, [Next]_vars
  PROVE  /\ inHosts' \in BOOLEAN
         /\ host' \in BOOLEAN
         /\ key' \in Key
         /\ faults' \in 0..MaxFaults
<1> USE BrokerAssumption
<1>1. CASE HostDown
  <2>1. faults' \in 0..MaxFaults /\ UNCHANGED <<inHosts, key>>
    BY <1>1 DEF HostDown, Fault, TypeOK
  <2>2. host' \in BOOLEAN
    BY <1>1 DEF HostDown
  <2> QED BY <2>1, <2>2 DEF TypeOK
<1>2. CASE HostUp
  <2>1. host' \in BOOLEAN
    BY <1>2 DEF HostUp
  <2> QED BY <1>2, <2>1 DEF HostUp, TypeOK
<1>3. CASE EditHosts
  <2>1. faults' \in 0..MaxFaults /\ UNCHANGED <<host, key>>
    BY <1>3 DEF EditHosts, Fault, TypeOK
  <2>2. inHosts' \in BOOLEAN
    BY <1>3 DEF EditHosts, TypeOK
  <2> QED BY <2>1, <2>2 DEF TypeOK
<1>4. ASSUME NEW c \in Conn, PathLost(c)
      PROVE  faults' \in 0..MaxFaults /\ UNCHANGED <<inHosts, host, key>>
  BY <1>4 DEF PathLost, Fault, TypeOK
<1>5. ASSUME NEW c \in Conn, Noticed(c)
      PROVE  UNCHANGED hostVars
  BY <1>5 DEF Noticed
<1>6. ASSUME NEW p \in Pane, PaneStep(p) \/ Hangup(p)
      PROVE  UNCHANGED hostVars
  BY <1>6
  DEF PaneStep, Relay, Live, DialFails, CheckPin, AppendPin, Insert, Open,
      OpenFails, Evict, Bridge, StreamEnds, Hangup, Ends
<1>7. CASE UNCHANGED vars
  BY <1>7 DEF vars, TypeOK
<1>8. CASE UNCHANGED hostVars
  BY <1>8 DEF hostVars, TypeOK
<1>9. ASSUME NEW p \in Pane, AppendFails(p) \/ RequestTooLarge(p)
      PROVE  faults' \in 0..MaxFaults /\ UNCHANGED <<inHosts, host, key>>
  BY <1>9 DEF AppendFails, RequestTooLarge, Fault, TypeOK
<1> QED
  BY <1>1, <1>2, <1>3, <1>4, <1>5, <1>6, <1>7, <1>8, <1>9 DEF Next, TypeOK

\* The types of what the relays and the cache have.
RelayTypes ==
    /\ link \in Conn \cup {None}
    /\ pins \in Seq(Key \cup {None})
    /\ pc \in [Pane -> {"idle", "look", "dial", "pin", "insert", "open",
                        "evict", "bridge", "stream"}]
    /\ mine \in [Pane -> Conn \cup {None}]
    /\ shown \in [Pane -> Key \cup {None}]
    /\ stream \in [Pane -> Conn \cup {None}]
    /\ media \in [Pane -> Conn \cup {None}]

\* What a relay holds goes on fitting where it is.
LEMMA RelayStep == IndInv /\ [Next]_vars => (RelayTypes /\ Places)'
<1> SUFFICES ASSUME IndInv, [Next]_vars PROVE (RelayTypes /\ Places)'
  OBVIOUS
<1> USE BrokerAssumption DEF IndInv
<1>a. RelayTypes /\ Places /\ key \in Key
  BY DEF RelayTypes, TypeOK
<1>1. CASE \/ HostUp \/ EditHosts \/ HostDown
           \/ \E c \in Conn : PathLost(c) \/ Noticed(c)
           \/ UNCHANGED vars
  BY <1>1, <1>a
  DEF HostUp, EditHosts, HostDown, PathLost, Noticed, streamVars, Fault,
      hostVars, vars, RelayTypes, Places
<1>2. ASSUME NEW p \in Pane, Relay(p)
      PROVE  (RelayTypes /\ Places)'
  BY <1>2, <1>a
  DEF Relay, hostVars, streamVars, Goto, Fail, RelayTypes, Places
<1>3. ASSUME NEW p \in Pane, Live(p)
      PROVE  (RelayTypes /\ Places)'
  BY <1>3, <1>a
  DEF Live, hostVars, streamVars, Goto, RelayTypes, Places, Closed
<1>4. ASSUME NEW p \in Pane, DialFails(p)
      PROVE  (RelayTypes /\ Places)'
  BY <1>4, <1>a
  DEF DialFails, hostVars, streamVars, Fail, Goto, RelayTypes, Places
<1>5. ASSUME NEW p \in Pane, CheckPin(p)
      PROVE  (RelayTypes /\ Places)'
  <2>1. CASE UNCHANGED conn /\ ~Established(p, key)
    BY <1>5, <1>a, <2>1 DEF CheckPin, Fail, Goto, streamVars, RelayTypes, Places
  <2>2. CASE Established(p, key)
    <3>1. PICK c \in Conn : mine' = [mine EXCEPT ![p] = c]
      BY <2>2 DEF Established
    <3>2. pc' = [pc EXCEPT ![p] = "insert"]
      BY <2>2 DEF Established, Goto
    <3>3. UNCHANGED <<link, pins, stream, media>> /\ UNCHANGED shown
      BY <1>5, <1>a, <3>2 DEF CheckPin, Fail, Goto, streamVars, RelayTypes
    <3> QED BY <1>5, <1>a, <3>1, <3>2, <3>3 DEF CheckPin, RelayTypes, Places
  <2> QED BY <1>5, <2>1, <2>2 DEF CheckPin
<1>6. ASSUME NEW p \in Pane, AppendPin(p)
      PROVE  (RelayTypes /\ Places)'
  <2>1. shown[p] \in Key
    BY <1>6, <1>a DEF AppendPin, RelayTypes, Places
  <2>2. pins' \in Seq(Key \cup {None})
    BY <1>6, <1>a, <2>1 DEF AppendPin, RelayTypes
  <2>3. CASE ~(host /\ key = shown[p])
    <3>1. RelayTypes'
      BY <1>6, <1>a, <2>2, <2>3
      DEF AppendPin, Fail, Goto, streamVars, RelayTypes
    <3>2. Places'
      BY <1>6, <1>a, <2>3
      DEF AppendPin, Fail, Goto, streamVars, RelayTypes, Places
    <3> QED BY <3>1, <3>2
  <2>4. CASE host /\ key = shown[p]
    <3>1. PICK c \in Conn : mine' = [mine EXCEPT ![p] = c]
      BY <1>6, <2>4 DEF AppendPin, Established
    <3>2. pc' = [pc EXCEPT ![p] = "insert"]
      BY <1>6, <2>4 DEF AppendPin, Established, Goto
    <3> QED
      BY <1>6, <1>a, <2>2, <2>4, <3>1, <3>2
      DEF AppendPin, streamVars, RelayTypes, Places
  <2> QED BY <2>3, <2>4
<1>7. ASSUME NEW p \in Pane, Insert(p)
      PROVE  (RelayTypes /\ Places)'
  BY <1>7, <1>a
  DEF Insert, hostVars, streamVars, Goto, RelayTypes, Places, Closed
<1>8. ASSUME NEW p \in Pane, Open(p)
      PROVE  (RelayTypes /\ Places)'
  BY <1>8, <1>a DEF Open, hostVars, Goto, RelayTypes, Places
<1>9. ASSUME NEW p \in Pane, OpenFails(p)
      PROVE  (RelayTypes /\ Places)'
  BY <1>9, <1>a DEF OpenFails, hostVars, streamVars, Goto, RelayTypes, Places
<1>10. ASSUME NEW p \in Pane, Evict(p)
       PROVE  (RelayTypes /\ Places)'
  BY <1>10, <1>a
  DEF Evict, hostVars, streamVars, Fail, Goto, RelayTypes, Places
<1>11. ASSUME NEW p \in Pane, Bridge(p)
       PROVE  (RelayTypes /\ Places)'
  BY <1>11, <1>a DEF Bridge, hostVars, Goto, RelayTypes, Places, Closed
<1>12. ASSUME NEW p \in Pane, StreamEnds(p)
       PROVE  (RelayTypes /\ Places)'
  BY <1>12, <1>a DEF StreamEnds, Ends, hostVars, Goto, RelayTypes, Places
<1>13. ASSUME NEW p \in Pane, Hangup(p)
       PROVE  (RelayTypes /\ Places)'
  BY <1>13, <1>a DEF Hangup, Ends, hostVars, Goto, RelayTypes, Places
<1>14. ASSUME NEW p \in Pane, AppendFails(p)
       PROVE  (RelayTypes /\ Places)'
  <2>1. pins' \in Seq(Key \cup {None})
    BY <1>14, <1>a DEF AppendFails, RelayTypes
  <2> QED
    BY <1>14, <1>a, <2>1
    DEF AppendFails, Fail, Goto, streamVars, RelayTypes, Places
<1>15. ASSUME NEW p \in Pane, RequestTooLarge(p)
       PROVE  (RelayTypes /\ Places)'
  BY <1>15, <1>a
  DEF RequestTooLarge, Fail, Goto, streamVars, RelayTypes, Places
<1> QED
  BY <1>1, <1>2, <1>3, <1>4, <1>5, <1>6, <1>7, <1>8, <1>9, <1>10, <1>11,
     <1>12, <1>13, <1>14, <1>15
  DEF Next, PaneStep

\* Every step keeps the types.
LEMMA TypeStep == IndInv /\ [Next]_vars => TypeOK'
<1> SUFFICES ASSUME IndInv, [Next]_vars PROVE TypeOK'
  OBVIOUS
<1>1. conn' \in [Conn -> ConnState]
  BY ConnSteps DEF Older, Fresh
<1>2. RelayTypes' /\ Places'
  BY RelayStep
<1>3. \A p \in Pane : pc'[p] = "stream" =>
         stream'[p] # None /\ (media'[p] # None <=> p \in Audio)
  BY <1>2 DEF Places
<1> QED BY <1>1, <1>2, <1>3, HostStep DEF IndInv, TypeOK, RelayTypes, ConnState

\* The only line of known_hosts is its first.
LEMMA SeqOfOne ==
  ASSUME NEW S, NEW s \in Seq(S), s # <<>>, Len(s) <= 1
  PROVE  s = <<Head(s)>>
<1>1. Len(s) = 1
  <2>1. Len(s) \in Nat \ {0}
    BY EmptySeq
  <2> QED BY <2>1
<1>2. s = [i \in 1..1 |-> s[i]]
  BY <1>1
<1> QED BY <1>1, <1>2

\* The relay of p has a stream or datagrams on the connection c, or is about to.
Uses(p, c) ==
    c \in {stream[p], media[p], IF pc[p] = "open" THEN mine[p] ELSE None}

\* Streams and datagrams stay on the cached connection, or on closed ones.
LEMMA OneLinkStep == IndInv /\ [Next]_vars => OneLink'
<1> SUFFICES ASSUME IndInv, [Next]_vars PROVE OneLink'
  OBVIOUS
<1> USE BrokerAssumption DEF IndInv
<1> SUFFICES ASSUME NEW q \in Pane, NEW x, Uses(q, x)', x # None
             PROVE  Closed(x)' \/ x = link'
  BY DEF OneLink, Uses, Closed
<1>a. Uses(q, x) => (conn[x].state = "closed" \/ x = link) /\ x \in Conn
  BY DEF OneLink, Uses, Closed, TypeOK
<1>b. \/ Older
      \/ \E p \in Pane, c \in Conn, k \in Key :
            Fresh(p, c, k) /\ (CheckPin(p) \/ AppendPin(p))
  BY ConnSteps
<1>c. Places /\ RelayTypes
  BY DEF TypeOK, RelayTypes
<1>1. CASE HostDown
  <2>1. Older
    BY <1>1, Losing DEF HostDown, TypeOK
  <2> QED
    BY <1>1, <1>a, <1>c, <2>1
    DEF HostDown, streamVars, Uses, Closed, Older, RelayTypes
<1>2. CASE \/ HostUp \/ EditHosts
           \/ UNCHANGED vars
  BY <1>2, <1>a, <1>c
  DEF HostUp, EditHosts, streamVars, Fault, vars, Uses, RelayTypes, Closed
<1>3. ASSUME NEW c \in Conn, PathLost(c)
      PROVE  Closed(x)' \/ x = link'
  <2>1. Older
    BY <1>3, Losing DEF PathLost, TypeOK
  <2> QED
    BY <1>3, <1>a, <1>c, <2>1
    DEF PathLost, streamVars, Uses, Closed, Older, RelayTypes
<1>4. ASSUME NEW c \in Conn, Noticed(c)
      PROVE  Closed(x)' \/ x = link'
  <2>1. Older
    BY <1>4, Closing DEF Noticed, TypeOK
  <2> QED
    BY <1>4, <1>a, <1>c, <2>1
    DEF Noticed, streamVars, Uses, Closed, Older, RelayTypes
<1>5. ASSUME NEW p \in Pane, Relay(p)
      PROVE  Closed(x)' \/ x = link'
  BY <1>5, <1>a, <1>c
  DEF Relay, hostVars, streamVars, Goto, Fail, Uses, RelayTypes, Closed
<1>6. ASSUME NEW p \in Pane, Live(p)
      PROVE  Closed(x)' \/ x = link'
  BY <1>6, <1>a, <1>c
  DEF Live, hostVars, streamVars, Goto, Uses, RelayTypes, Closed
<1>7. ASSUME NEW p \in Pane, DialFails(p)
      PROVE  Closed(x)' \/ x = link'
  BY <1>7, <1>a, <1>c
  DEF DialFails, hostVars, streamVars, Fail, Goto, Uses, RelayTypes, Closed
<1>8. ASSUME NEW p \in Pane, CheckPin(p)
      PROVE  Closed(x)' \/ x = link'
  <2>1. UNCHANGED <<link, stream, media>>
    BY <1>8 DEF CheckPin, streamVars
  <2>2. Uses(q, x)
    BY <1>8, <1>c, <2>1
    DEF CheckPin, Established, Fail, Goto, Uses, RelayTypes
  <2>3. CASE Older
    BY <1>a, <2>1, <2>2, <2>3 DEF Closed, Older
  <2>4. CASE \E r \in Pane, c \in Conn, k \in Key : Fresh(r, c, k)
    <3>1. PICK r \in Pane, c \in Conn, k \in Key : Fresh(r, c, k)
      BY <2>4
    <3>2. x # c \/ x = link
      BY <1>c, <2>1, <2>2, <3>1
      DEF Fresh, Held, Uses, Places, RelayTypes
    <3> QED BY <1>a, <2>1, <2>2, <3>1, <3>2 DEF Closed, Fresh
  <2> QED BY <1>b, <2>3, <2>4
<1>9. ASSUME NEW p \in Pane, AppendPin(p)
      PROVE  Closed(x)' \/ x = link'
  <2>1. UNCHANGED <<link, stream, media>>
    BY <1>9 DEF AppendPin, streamVars
  <2>2. Uses(q, x)
    BY <1>9, <1>c, <2>1
    DEF AppendPin, Established, Fail, Goto, Uses, RelayTypes
  <2>3. CASE Older
    BY <1>a, <2>1, <2>2, <2>3 DEF Closed, Older
  <2>4. CASE \E r \in Pane, c \in Conn, k \in Key : Fresh(r, c, k)
    <3>1. PICK r \in Pane, c \in Conn, k \in Key : Fresh(r, c, k)
      BY <2>4
    <3>2. x # c \/ x = link
      BY <1>c, <2>1, <2>2, <3>1
      DEF Fresh, Held, Uses, Places, RelayTypes
    <3> QED BY <1>a, <2>1, <2>2, <3>1, <3>2 DEF Closed, Fresh
  <2> QED BY <1>b, <2>3, <2>4
<1>10. ASSUME NEW p \in Pane, Insert(p)
       PROVE  Closed(x)' \/ x = link'
  <2>1. mine[p] \in Conn
    BY <1>10, <1>c DEF Insert, Places, RelayTypes
  <2>2. CASE Closed(link)
    BY <1>10, <1>a, <1>c, <2>1, <2>2
    DEF Insert, Goto, streamVars, Uses, Closed, RelayTypes
  <2>3. CASE ~Closed(link)
    <3>1. Older
      BY <1>10, <2>1, <2>3, Closing DEF Insert
    <3> QED
      BY <1>10, <1>a, <1>c, <2>3, <3>1
      DEF Insert, Goto, streamVars, Uses, Closed, Older, RelayTypes
  <2> QED BY <2>2, <2>3
<1>11. ASSUME NEW p \in Pane, Open(p)
       PROVE  Closed(x)' \/ x = link'
  BY <1>11, <1>a, <1>c DEF Open, hostVars, Goto, Uses, RelayTypes, Closed
<1>12. ASSUME NEW p \in Pane, OpenFails(p)
       PROVE  Closed(x)' \/ x = link'
  BY <1>12, <1>a, <1>c
  DEF OpenFails, hostVars, streamVars, Goto, Uses, RelayTypes, Closed
<1>13. ASSUME NEW p \in Pane, Evict(p)
       PROVE  Closed(x)' \/ x = link'
  <2>1. Uses(q, x)
    BY <1>13, <1>c DEF Evict, Fail, Goto, streamVars, Uses, RelayTypes
  <2>2. CASE link = None
    BY <1>13, <1>a, <2>1, <2>2 DEF Evict, Closed
  <2>3. CASE link # None
    <3>1. link \in Conn
      BY <1>c, <2>3 DEF RelayTypes
    <3>2. Older /\ conn'[link].state = "closed"
      BY <1>13, <2>3, <3>1, Closing DEF Evict
    <3> QED BY <1>a, <2>1, <3>2 DEF Older, Closed
  <2> QED BY <2>2, <2>3
<1>14. ASSUME NEW p \in Pane, Bridge(p)
       PROVE  Closed(x)' \/ x = link'
  BY <1>14, <1>a, <1>c DEF Bridge, hostVars, Goto, Uses, RelayTypes, Closed
<1>15. ASSUME NEW p \in Pane, StreamEnds(p)
       PROVE  Closed(x)' \/ x = link'
  BY <1>15, <1>a, <1>c
  DEF StreamEnds, Ends, hostVars, Goto, Uses, RelayTypes, Closed
<1>16. ASSUME NEW p \in Pane, Hangup(p)
       PROVE  Closed(x)' \/ x = link'
  BY <1>16, <1>a, <1>c
  DEF Hangup, Ends, hostVars, Goto, Uses, RelayTypes, Closed
<1>17. ASSUME NEW p \in Pane, AppendFails(p) \/ RequestTooLarge(p)
       PROVE  Closed(x)' \/ x = link'
  BY <1>17, <1>a, <1>c
  DEF AppendFails, RequestTooLarge, streamVars, Fail, Goto, Uses, RelayTypes,
      Closed
<1> QED
  BY <1>1, <1>2, <1>3, <1>4, <1>5, <1>6, <1>7, <1>8, <1>9, <1>10, <1>11,
     <1>12, <1>13, <1>14, <1>15, <1>16, <1>17
  DEF Next, PaneStep

\* A connection is made with the one key that is pinned.
LEMMA PinStep == IndInv /\ [Next]_vars => PinHolds'
<1> SUFFICES ASSUME IndInv, [Next]_vars PROVE PinHolds'
  OBVIOUS
<1> USE BrokerAssumption DEF IndInv
<1> SUFFICES ASSUME Len(pins') <= 1, NEW x \in Conn, Held(x)'
             PROVE  pins' = <<conn'[x].key>>
  BY DEF PinHolds
<1>a. Len(pins) <= 1 /\ Held(x) => pins = <<conn[x].key>>
  BY DEF PinHolds
<1>b. \/ Older
      \/ \E p \in Pane, c \in Conn, k \in Key :
            Fresh(p, c, k) /\ (CheckPin(p) \/ AppendPin(p))
  BY ConnSteps
<1>c. Places /\ RelayTypes
  BY DEF TypeOK, RelayTypes
<1>1. CASE HostDown
  <2>1. Older
    BY <1>1, Losing DEF HostDown
  <2> QED BY <1>1, <1>a, <2>1 DEF HostDown, streamVars, Held, Older
<1>2. CASE \/ HostUp \/ EditHosts
           \/ UNCHANGED vars
  BY <1>2, <1>a, <1>c
  DEF HostUp, EditHosts, streamVars, Fault, vars, Held, RelayTypes
<1>3. ASSUME NEW c \in Conn, PathLost(c)
      PROVE  pins' = <<conn'[x].key>>
  <2>1. Older
    BY <1>3, Losing DEF PathLost
  <2> QED BY <1>3, <1>a, <2>1 DEF PathLost, streamVars, Held, Older
<1>4. ASSUME NEW c \in Conn, Noticed(c)
      PROVE  pins' = <<conn'[x].key>>
  <2>1. Older
    BY <1>4, Closing DEF Noticed
  <2> QED BY <1>4, <1>a, <2>1 DEF Noticed, streamVars, Held, Older
<1>5. ASSUME NEW p \in Pane, Relay(p)
      PROVE  pins' = <<conn'[x].key>>
  BY <1>5, <1>a, <1>c
  DEF Relay, hostVars, streamVars, Goto, Fail, Held, RelayTypes
<1>6. ASSUME NEW p \in Pane, Live(p)
      PROVE  pins' = <<conn'[x].key>>
  BY <1>6, <1>a, <1>c DEF Live, hostVars, streamVars, Goto, Held, RelayTypes
<1>7. ASSUME NEW p \in Pane, DialFails(p)
      PROVE  pins' = <<conn'[x].key>>
  BY <1>7, <1>a, <1>c
  DEF DialFails, hostVars, streamVars, Fail, Goto, Held, RelayTypes
<1>8. ASSUME NEW p \in Pane, CheckPin(p)
      PROVE  pins' = <<conn'[x].key>>
  <2>1. pins' = pins /\ UNCHANGED <<link, stream, media>>
    BY <1>8 DEF CheckPin, streamVars
  <2>2. CASE Established(p, key)
    <3>1. pins # <<>> /\ Head(pins) = key /\ key \in Key
      BY <1>8, <1>c, <2>2
      DEF CheckPin, Established, Fail, Goto, RelayTypes, TypeOK
    <3>2. pins = <<key>>
      BY <1>c, <2>1, <3>1, SeqOfOne DEF RelayTypes
    <3>3. PICK c \in Conn : Fresh(p, c, key)
      BY <2>2, <3>1, Establishing
    <3>4. x = c \/ Held(x)
      BY <1>c, <2>1, <3>3 DEF Fresh, Held, RelayTypes
    <3> QED BY <1>a, <2>1, <3>2, <3>3, <3>4 DEF Fresh
  <2>3. CASE ~Established(p, key)
    <3>1. conn' = conn
      BY <1>8, <2>3 DEF CheckPin
    <3>2. Held(x)
      BY <1>8, <1>c, <2>1, <2>3 DEF CheckPin, Fail, Held, RelayTypes
    <3> QED BY <1>a, <2>1, <3>1, <3>2
  <2> QED BY <2>2, <2>3
<1>9. ASSUME NEW p \in Pane, AppendPin(p)
      PROVE  pins' = <<conn'[x].key>>
  <2>1. shown[p] \in Key /\ pins \in Seq(Key \cup {None})
    BY <1>9, <1>c DEF AppendPin, Places, RelayTypes
  <2>2. pins = <<>>
    <3>1. Len(Append(pins, shown[p])) <= 1
      BY <1>9 DEF AppendPin
    <3> QED BY <2>1, <3>1
  <2>b. pins' = <<shown[p]>>
    BY <1>9, <2>1, <2>2 DEF AppendPin
  <2>3. \A c \in Conn : ~Held(c)
    BY <2>2 DEF PinHolds
  <2>4. CASE host /\ key = shown[p]
    <3>1. PICK c \in Conn : Fresh(p, c, shown[p])
      BY <1>9, <2>1, <2>4, Establishing DEF AppendPin
    <3>2. x = c
      BY <1>9, <1>c, <2>3, <3>1
      DEF AppendPin, streamVars, Fresh, Held, RelayTypes
    <3> QED BY <2>b, <3>1, <3>2 DEF Fresh
  <2>5. CASE ~(host /\ key = shown[p])
    BY <1>9, <1>c, <2>3, <2>5
    DEF AppendPin, Fail, streamVars, Held, RelayTypes
  <2> QED BY <2>4, <2>5
<1>10. ASSUME NEW p \in Pane, Insert(p)
       PROVE  pins' = <<conn'[x].key>>
  <2>1. mine[p] \in Conn
    BY <1>10, <1>c DEF Insert, Places, RelayTypes
  <2>2. conn'[x].key = conn[x].key
    BY <1>10, <2>1, Closing DEF Insert, Older
  <2>3. Held(x)
    BY <1>10, <1>c DEF Insert, streamVars, Held, RelayTypes
  <2> QED BY <1>10, <1>a, <2>2, <2>3 DEF Insert
<1>11. ASSUME NEW p \in Pane, Open(p)
       PROVE  pins' = <<conn'[x].key>>
  BY <1>11, <1>a, <1>c DEF Open, hostVars, Goto, Held, RelayTypes
<1>12. ASSUME NEW p \in Pane, OpenFails(p)
       PROVE  pins' = <<conn'[x].key>>
  BY <1>12, <1>a, <1>c
  DEF OpenFails, hostVars, streamVars, Goto, Held, RelayTypes
<1>13. ASSUME NEW p \in Pane, Evict(p)
       PROVE  pins' = <<conn'[x].key>>
  <2>1. conn'[x].key = conn[x].key
    BY <1>13, <1>c, Closing DEF Evict, Older, RelayTypes
  <2>2. Held(x)
    BY <1>13, <1>c DEF Evict, Fail, streamVars, Held, RelayTypes
  <2> QED BY <1>13, <1>a, <2>1, <2>2 DEF Evict
<1>14. ASSUME NEW p \in Pane, Bridge(p)
       PROVE  pins' = <<conn'[x].key>>
  BY <1>14, <1>a, <1>c DEF Bridge, hostVars, Goto, Held, RelayTypes
<1>15. ASSUME NEW p \in Pane, StreamEnds(p)
       PROVE  pins' = <<conn'[x].key>>
  BY <1>15, <1>a, <1>c DEF StreamEnds, Ends, hostVars, Goto, Held, RelayTypes
<1>16. ASSUME NEW p \in Pane, Hangup(p)
       PROVE  pins' = <<conn'[x].key>>
  BY <1>16, <1>a, <1>c DEF Hangup, Ends, hostVars, Goto, Held, RelayTypes
<1>17. ASSUME NEW p \in Pane, RequestTooLarge(p)
       PROVE  pins' = <<conn'[x].key>>
  BY <1>17, <1>a, <1>c
  DEF RequestTooLarge, streamVars, Fail, Goto, Held, RelayTypes
<1>18. ASSUME NEW p \in Pane, AppendFails(p)
       PROVE  pins' = <<conn'[x].key>>
  <2>1. conn' = conn /\ Held(x) /\ pins \in Seq(Key \cup {None})
    BY <1>18, <1>c DEF AppendFails, Fail, streamVars, Held, RelayTypes
  <2>2. CASE pins' = pins
    BY <1>a, <2>1, <2>2
  <2>3. CASE pins' = Append(pins, None)
    <3>1. pins = <<>>
      BY <2>1, <2>3
    <3> QED BY <1>a, <2>1, <3>1
  <2> QED BY <1>18, <2>2, <2>3 DEF AppendFails
<1> QED
  BY <1>1, <1>2, <1>3, <1>4, <1>5, <1>6, <1>7, <1>8, <1>9, <1>10, <1>11,
     <1>12, <1>13, <1>14, <1>15, <1>16, <1>17, <1>18
  DEF Next, PaneStep

\* A broker that has connected to nobody satisfies all of it.
LEMMA IndInit == Init => IndInv
<1> SUFFICES ASSUME Init PROVE IndInv
  OBVIOUS
<1> USE BrokerAssumption DEF Init
<1>1. conn \in [Conn -> ConnState]
  BY DEF ConnState, Unused
<1>2. pins \in Seq(Key \cup {None})
  <2>1. <<>> \in Seq(Key \cup {None}) /\ <<key>> \in Seq(Key \cup {None})
    OBVIOUS
  <2> QED BY <2>1
<1>3. host \in BOOLEAN /\ inHosts \in BOOLEAN
  OBVIOUS
<1>4. TypeOK
  BY <1>1, <1>2, <1>3 DEF TypeOK, ConnState
<1>5. Places
  BY DEF Places
<1>6. OneLink
  BY DEF OneLink, Closed
<1>7. PinHolds
  BY DEF PinHolds, Held
<1> QED BY <1>4, <1>5, <1>6, <1>7 DEF IndInv

\* Every behaviour of the broker's links to a host satisfies the inductive
\* invariant.
THEOREM Inductive == Spec => []IndInv
<1>1. IndInv /\ [Next]_vars => IndInv'
  BY TypeStep, RelayStep, OneLinkStep, PinStep DEF IndInv
<1> QED BY <1>1, IndInit, PTL DEF Spec

\* However many dials overlap and whatever is lost, closed or evicted meanwhile,
\* a pane is on the alias's one connection or on a closed one.
THEOREM OneConnectionPerHost == Spec => []Consistent
<1>1. IndInv => Consistent
  BY DEF IndInv, Consistent
<1> QED BY <1>1, Inductive, PTL

\* However often the host's key changes, every connection there is was made
\* with the pinned one, if there is one line and not two first contacts'.
THEOREM PinsAreKept == Spec => []PinHolds
<1>1. IndInv => PinHolds
  BY DEF IndInv
<1> QED BY <1>1, Inductive, PTL
=============================================================================
