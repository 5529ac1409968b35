---------------------------- MODULE SampleProofs ----------------------------
(***************************************************************************)
(* Proofs about the sample applications, for any number of packets and any *)
(* bound on the events that wait.                                          *)
(***************************************************************************)
EXTENDS SampleApps, TLAPS

Events == {"connected", "disconnected", "address"}
Sems == {"conn", "disconn", "ready", "mqtt"}

(* An event waits for the event thread.                                    *)
Waits(queue, event) == \E i \in 1..Len(queue) : queue[i] = event

LEMMA WaitsAppend ==
  ASSUME NEW queue \in Seq(Events), NEW e \in Events, NEW event
  PROVE  Waits(Append(queue, e), event) <=> Waits(queue, event) \/ event = e
<1>1. ASSUME Waits(queue, event) \/ event = e PROVE Waits(Append(queue, e), event)
  <2>1. CASE event = e
    <3>1. Len(queue) + 1 \in 1..Len(Append(queue, e)) /\ Append(queue, e)[Len(queue) + 1] = e
      OBVIOUS
    <3> QED BY <2>1, <3>1 DEF Waits
  <2>2. CASE Waits(queue, event)
    BY <2>2 DEF Waits
  <2> QED BY <1>1, <2>1, <2>2
<1>2. ASSUME Waits(Append(queue, e), event) PROVE Waits(queue, event) \/ event = e
  BY <1>2 DEF Waits
<1> QED BY <1>1, <1>2

LEMMA WaitsTail ==
  ASSUME NEW queue \in Seq(Events), queue # <<>>, NEW event
  PROVE  Waits(queue, event) => Waits(Tail(queue), event) \/ event = Head(queue)
<1> SUFFICES ASSUME Waits(queue, event), event # Head(queue) PROVE Waits(Tail(queue), event)
  OBVIOUS
<1>1. PICK i \in 1..Len(queue) : queue[i] = event
  BY DEF Waits
<1>2. i # 1
  BY <1>1
<1>3. i - 1 \in 1..Len(Tail(queue)) /\ Tail(queue)[i - 1] = event
  BY <1>1, <1>2
<1> QED BY <1>3 DEF Waits

LEMMA TailWaits ==
  ASSUME NEW queue \in Seq(Events), queue # <<>>, NEW event
  PROVE  /\ Waits(Tail(queue), event) => Waits(queue, event)
         /\ Waits(queue, Head(queue)) /\ Head(queue) \in Events
<1>1. ASSUME Waits(Tail(queue), event) PROVE Waits(queue, event)
  <2>1. PICK i \in 1..Len(Tail(queue)) : Tail(queue)[i] = event
    BY <1>1 DEF Waits
  <2>2. i + 1 \in 1..Len(queue) /\ queue[i + 1] = event
    BY <2>1
  <2> QED BY <2>2 DEF Waits
<1>2. 1 \in 1..Len(queue) /\ Head(queue) = queue[1] /\ queue[1] \in Events
  OBVIOUS
<1> QED BY <1>1, <1>2 DEF Waits

-----------------------------------------------------------------------------
StationPlaces ==
  {"init", "connect", "takeConn", "listen", "network", "takeReady", "socket", "tcpConnect",
   "send", "mqttConnect", "takeMqtt", "poll", "publish", "disconnect", "takeDisconn", "takeAnyway"}
ApPlaces == {"iface", "staticIp", "bandwidth", "apEnable", "echoSocket", "bind", "echo"}

SampleTypeOK ==
  /\ program \in {"udp", "long", "mqtt", "ap"}
  /\ pc \in StationPlaces \union ApPlaces \union {"ended"}
  /\ sems \in [Sems -> {0, 1}]
  /\ events \in Seq(Events)
  /\ station \in {"off", "trying", "up"}

(* Each main is in its own part of the code until it has a result.         *)
PlacesApart ==
  /\ pc \in ApPlaces => program = "ap"
  /\ pc \in StationPlaces => program # "ap"
  /\ result # "none" => pc = "ended"

(* The callback a wait needs has been registered before it.                *)
ListensFirst ==
  /\ pc \in StationPlaces \ {"init", "connect"} => "wifi" \in listening
  /\ pc \in {"network", "takeReady"} => "ipv4" \in listening

(* A connect result stands for a link that has come up since the request.  *)
ResultIsRecent ==
  /\ pc \in {"init", "connect"} \union ApPlaces => station = "off"
  /\ station = "off" /\ pc \in {"init", "connect"} \union ApPlaces
       => ~Waits(events, "connected") /\ sems["conn"] = 0
  /\ Waits(events, "connected") \/ sems["conn"] = 1 => rose

(* What the last steps rest on.                                            *)
EndsInOrder ==
  /\ pc = "takeDisconn" => station = "off"
  /\ program = "mqtt" /\ pc \in {"disconnect", "takeDisconn"} => done
  /\ pc \in {"bandwidth", "apEnable", "echoSocket", "bind", "echo"} => address
  /\ pc \in {"echoSocket", "bind", "echo"} => ap

Woken ==
  /\ pc = "takeConn" /\ station = "up" => sems["conn"] = 1 \/ Waits(events, "connected")
  /\ pc = "takeReady" /\ address => sems["ready"] = 1 \/ Waits(events, "address")
  /\ pc = "takeDisconn" => sems["disconn"] = 1 \/ Waits(events, "disconnected")

Inv ==
  /\ SampleTypeOK /\ PlacesApart /\ ListensFirst /\ ResultIsRecent /\ EndsInOrder
  /\ Woken /\ TruthfulAnswers

LEMMA InvInit == Init => Inv
<1> SUFFICES ASSUME Init PROVE Inv
  OBVIOUS
<1>1. events = <<>> /\ sems = [s \in Sems |-> 0] /\ station = "off" /\ result = "none"
      /\ pc = (CASE program = "mqtt" -> "connect" [] program = "ap" -> "iface" [] OTHER -> "init")
      /\ program \in {"udp", "long", "mqtt", "ap"}
  BY DEF Init, Sems
<1>2. pc \in {"connect", "iface", "init"} /\ (pc = "iface" <=> program = "ap")
  BY <1>1
<1>3. \A event : ~Waits(events, event)
  BY <1>1 DEF Waits
<1>4. SampleTypeOK
  BY <1>1, <1>2 DEF SampleTypeOK, StationPlaces, ApPlaces, Sems
<1> QED
  BY <1>1, <1>2, <1>3, <1>4
  DEF Inv, PlacesApart, ListensFirst, ResultIsRecent, EndsInOrder, Woken, TruthfulAnswers,
      StationPlaces, ApPlaces, Sems

LEMMA InvStep == Inv /\ [Next]_vars => Inv'
<1> SUFFICES ASSUME Inv, [Next]_vars PROVE Inv'
  OBVIOUS
<1> USE DEF Inv, SampleTypeOK, PlacesApart, ListensFirst, ResultIsRecent, EndsInOrder, Woken,
            TruthfulAnswers, StationPlaces, ApPlaces, Events, Sems,
            wifiVars, appVars, Goto, Return, Try, OnlyMain
<1>1. CASE UNCHANGED vars
  BY <1>1 DEF vars
<1>2. CASE InitNetMgmt /\ UNCHANGED appVars
  BY <1>2 DEF InitNetMgmt
<1>3. CASE ConnectRequest /\ UNCHANGED appVars
  BY <1>3 DEF ConnectRequest
<1>4. CASE TakeConn /\ UNCHANGED appVars
  BY <1>4 DEF TakeConn, Take
<1>5. CASE ListenIpv4 /\ UNCHANGED appVars
  BY <1>5 DEF ListenIpv4
<1>6. CASE CheckNetwork(ThenProgram) /\ UNCHANGED appVars
  BY <1>6 DEF CheckNetwork, ThenProgram
<1>7. CASE TakeReady(ThenProgram) /\ UNCHANGED appVars
  BY <1>7 DEF TakeReady, Take, ThenProgram
<1>8. CASE DisconnectRequest /\ UNCHANGED appVars
  <2>1. CASE /\ IF program = "mqtt" THEN Goto("disconnect", "takeAnyway")
                                   ELSE Return("disconnect", "error")
             /\ UNCHANGED <<station, address, events>>
    <3>1. UNCHANGED <<program, sems, listening, rose, appVars>>
      BY <1>8 DEF DisconnectRequest
    <3> QED BY <2>1, <3>1
  <2>2. CASE /\ Goto("disconnect", "takeDisconn")
             /\ station' = "off" /\ address' = FALSE /\ Raise("disconnected")
    <3>1. events' = Append(events, "disconnected") /\ events' \in Seq(Events)
      BY <2>2 DEF Raise
    <3>2. \A event : Waits(events', event) <=> Waits(events, event) \/ event = "disconnected"
      BY <3>1, WaitsAppend
    <3>3. UNCHANGED <<program, sems, listening, rose, appVars>>
      BY <1>8 DEF DisconnectRequest
    <3> QED BY <2>2, <3>1, <3>2, <3>3
  <2> QED BY <1>8, <2>1, <2>2 DEF DisconnectRequest
<1>9. CASE TakeDisconn /\ UNCHANGED appVars
  BY <1>9 DEF TakeDisconn
<1>10. CASE UdpSocket
  BY <1>10 DEF UdpSocket
<1>11. CASE UdpSend
  BY <1>11 DEF UdpSend
<1>12. CASE LongOpen
  BY <1>12 DEF LongOpen
<1>13. CASE LongSend
  BY <1>13 DEF LongSend
<1>14. CASE MqttConnect
  BY <1>14 DEF MqttConnect
<1>15. CASE TakeMqtt
  BY <1>15 DEF TakeMqtt
<1>16. CASE MqttPoll
  BY <1>16 DEF MqttPoll, MqttInput
<1>17. CASE MqttPollEnds
  BY <1>17 DEF MqttPollEnds
<1>18. CASE MqttPublish
  <2>1. CASE Return("publish", "error") /\ OnlyMain /\ UNCHANGED appVars
    BY <2>1
  <2>2. CASE /\ MqttInput
             /\ UNCHANGED <<program, pc, result, listening, events, station, address, rose,
                            left, broker, ap>>
    <3>1. pc = "publish"
      BY <1>18 DEF MqttPublish
    <3>2. sems' \in {sems, [sems EXCEPT !["mqtt"] = 1]}
      BY <2>2 DEF MqttInput
    <3> QED BY <2>2, <3>1, <3>2
  <2> QED BY <1>18, <2>1, <2>2 DEF MqttPublish
<1>19. CASE MqttDone
  BY <1>19 DEF MqttDone
<1>20. CASE ApStart
  BY <1>20 DEF ApStart
<1>21. CASE UdpEchoRun
  BY <1>21 DEF UdpEchoRun
<1>22. CASE LinkUp /\ UNCHANGED appVars
  <2>1. events' = Append(events, "connected") /\ events' \in Seq(Events)
      BY <1>22 DEF LinkUp, Raise
  <2>2. \A event : Waits(events', event) <=> Waits(events, event) \/ event = "connected"
      BY <2>1, WaitsAppend
  <2> HIDE DEF Events
  <2> QED BY <1>22, <2>1, <2>2 DEF LinkUp
<1>23. CASE LinkLost /\ UNCHANGED appVars
  BY <1>23 DEF LinkLost
<1>24. CASE AttemptFails /\ UNCHANGED appVars
  <2>1. events' = Append(events, "disconnected") /\ events' \in Seq(Events)
      BY <1>24 DEF AttemptFails, Raise
  <2>2. \A event : Waits(events', event) <=> Waits(events, event) \/ event = "disconnected"
      BY <2>1, WaitsAppend
  <2> HIDE DEF Events
  <2> QED BY <1>24, <2>1, <2>2 DEF AttemptFails
<1>25. CASE AddressAdd /\ UNCHANGED appVars
  <2>1. events' = Append(events, "address") /\ events' \in Seq(Events)
      BY <1>25 DEF AddressAdd, Raise
  <2>2. \A event : Waits(events', event) <=> Waits(events, event) \/ event = "address"
      BY <2>1, WaitsAppend
  <2> HIDE DEF Events
  <2> QED BY <1>25, <2>1, <2>2 DEF AddressAdd
<1>26. CASE Deliver /\ UNCHANGED appVars
  <2>1. events # <<>> /\ events' = Tail(events)
        /\ UNCHANGED <<program, pc, result, listening, station, address, rose, appVars>>
    BY <1>26 DEF Deliver
  <2>2. events' \in Seq(Events) /\ Head(events) \in Events
    BY <2>1
  <2>3. /\ \A event : Waits(events, event) => Waits(events', event) \/ event = Head(events)
        /\ \A event : Waits(events', event) => Waits(events, event)
        /\ Waits(events, Head(events))
    BY <2>1, WaitsTail, TailWaits
  <2>4. CASE Head(events) = "connected"
    <3>1. "wifi" \in listening => sems' = [sems EXCEPT !["conn"] = 1]
      BY <1>26, <2>4 DEF Deliver, WifiMgmtEvent, Ipv4EventHandler, Give
    <3>2. "wifi" \notin listening => sems' = sems
      BY <1>26, <2>4 DEF Deliver, WifiMgmtEvent, Ipv4EventHandler, Give
    <3> QED BY <2>1, <2>2, <2>3, <2>4, <3>1, <3>2
  <2>5. CASE Head(events) = "disconnected"
    <3>1. "wifi" \in listening => sems' = [sems EXCEPT !["disconn"] = 1]
      BY <1>26, <2>5 DEF Deliver, WifiMgmtEvent, Ipv4EventHandler, Give
    <3>2. "wifi" \notin listening => sems' = sems
      BY <1>26, <2>5 DEF Deliver, WifiMgmtEvent, Ipv4EventHandler, Give
    <3> QED BY <2>1, <2>2, <2>3, <2>5, <3>1, <3>2
  <2>6. CASE Head(events) = "address"
    <3>1. "ipv4" \in listening => sems' = [sems EXCEPT !["ready"] = 1]
      BY <1>26, <2>6 DEF Deliver, WifiMgmtEvent, Ipv4EventHandler, Give
    <3>2. "ipv4" \notin listening => sems' = sems
      BY <1>26, <2>6 DEF Deliver, WifiMgmtEvent, Ipv4EventHandler, Give
    <3> QED BY <2>1, <2>2, <2>3, <2>6, <3>1, <3>2
  <2> QED BY <2>2, <2>4, <2>5, <2>6
<1>27. CASE BrokerSends
  BY <1>27 DEF BrokerSends
<1> QED
  BY <1>1, <1>2, <1>3, <1>4, <1>5, <1>6, <1>7, <1>8, <1>9, <1>10, <1>11,
     <1>12, <1>13, <1>14, <1>15, <1>16, <1>17, <1>18, <1>19, <1>20, <1>21,
     <1>22, <1>23, <1>24, <1>25, <1>26, <1>27
  DEF Next, Main, World, Connecting, Disconnecting

LEMMA Invariance == Spec => []Inv
BY InvInit, InvStep, PTL DEF Spec

(* Whatever the driver does and however late its events, what the mains of *)
(* the samples take for done has been done.                                *)
THEOREM AnswersAlwaysTruthful == Spec => []TruthfulAnswers
<1>1. Inv => TruthfulAnswers
  BY DEF Inv
<1> QED BY <1>1, Invariance, PTL

(* No wait of wifi_connect_blocking, wait_for_network and                  *)
(* wifi_disconnect_blocking misses the event it waits for.                 *)
THEOREM WakeupNeverLost == Spec => []NoLostWakeup
<1>1. Inv => NoLostWakeup
  BY DEF Inv, Woken, NoLostWakeup, Coming, Waits
<1> QED BY <1>1, Invariance, PTL
=============================================================================
