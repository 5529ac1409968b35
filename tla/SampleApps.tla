----------------------------- MODULE SampleApps -----------------------------
(***************************************************************************)
(* The mains of the sample applications: udp/client, long_running,         *)
(* mqtt_pub_sub and ap_mode.  One of them runs, alone, on a driver that    *)
(* may refuse every request, lose the link at any time and take any time   *)
(* over it.                                                                *)
(***************************************************************************)
EXTENDS SampleWifi

CONSTANT NumPkts        (* the packets that udp/client sends               *)

ASSUME NumPktsAssumption == NumPkts \in Nat

VARIABLES
  left,       (* of them, those still to be sent                           *)
  broker,     (* MQTT: none, asked, serving, gone                          *)
  inbox,      (* what the socket holds for mqtt_input, or "none"           *)
  connected,  (* mqtt_is_connected                                         *)
  done,       (* the message published has come back                       *)
  ap          (* the access point is enabled                               *)

appVars == <<left, broker, inbox, connected, done, ap>>
vars == <<wifiVars, appVars>>

Init ==
  /\ program \in {"udp", "long", "mqtt", "ap"}
  /\ pc = CASE program = "mqtt" -> "connect" [] program = "ap" -> "iface" [] OTHER -> "init"
  /\ result = "none" /\ listening = {} /\ events = <<>>
  /\ sems = [s \in {"conn", "disconn", "ready", "mqtt"} |-> 0]
  /\ station = "off" /\ address = FALSE /\ rose = FALSE
  /\ left = NumPkts
  /\ broker = "none" /\ inbox = "none" /\ connected = FALSE /\ done = FALSE
  /\ ap = FALSE

ThenProgram == IF program = "mqtt" THEN "mqttConnect" ELSE "socket"

OnlyMain == UNCHANGED <<program, sems, listening, events, station, address, rose>>

Connecting ==
  /\ \/ InitNetMgmt \/ ConnectRequest \/ TakeConn \/ ListenIpv4
     \/ CheckNetwork(ThenProgram) \/ TakeReady(ThenProgram)
  /\ UNCHANGED appVars

Disconnecting == (DisconnectRequest \/ TakeDisconn) /\ UNCHANGED appVars

(***************************************************************************)
(* udp/client sends each packet to two servers, looks at no error, and     *)
(* leaves the station connected.                                           *)
(***************************************************************************)
UdpSocket == program = "udp" /\ Try("socket", "send") /\ OnlyMain /\ UNCHANGED appVars

UdpSend ==
  /\ program = "udp"
  /\ \/ left > 0 /\ left' = left - 1 /\ Goto("send", "send")
     \/ left = 0 /\ left' = left /\ Return("send", "ok")
  /\ OnlyMain /\ UNCHANGED <<broker, inbox, connected, done, ap>>

(***************************************************************************)
(* long_running sends to a TCP server until its time is up or a send       *)
(* fails, and disconnects; if it cannot connect to the server it returns   *)
(* at once.                                                                *)
(***************************************************************************)
LongOpen ==
  /\ program = "long"
  /\ Try("socket", "tcpConnect") \/ Try("tcpConnect", "send")
  /\ OnlyMain /\ UNCHANGED appVars

LongSend ==
  /\ program = "long" /\ Goto("send", "disconnect")
  /\ OnlyMain /\ UNCHANGED appVars

(***************************************************************************)
(* mqtt_pub_sub: init_mqtt waits for mqtt_conn_sem, which only its own     *)
(* later calls of mqtt_input can give, so that wait always runs out; then  *)
(* it reads until it is connected or 8 s have passed.  A time-out is       *)
(* returned as rc, which is 0, and main goes on to publish.                *)
(***************************************************************************)
MqttConnect ==
  /\ \/ Goto("mqttConnect", "takeMqtt") /\ broker' = "asked"
     \/ Return("mqttConnect", "error") /\ UNCHANGED broker
  /\ OnlyMain /\ UNCHANGED <<left, inbox, connected, done, ap>>

TakeMqtt ==
  /\ Goto("takeMqtt", "poll") /\ sems' = [sems EXCEPT !["mqtt"] = 0]
  /\ UNCHANGED <<program, listening, events, station, address, rose, appVars>>

(* The broker and the library: what the socket holds, and the session      *)
BrokerSends ==
  /\ inbox = "none"
  /\ \/ broker = "asked" /\ inbox' \in {"connack", "refused"}
     \/ broker = "serving" /\ inbox' \in {"publish", "disconnect"}
  /\ broker' = IF inbox' \in {"refused", "disconnect"} THEN "gone" ELSE "serving"
  /\ UNCHANGED <<wifiVars, left, connected, done, ap>>

(* mqtt_evt_handler and process_resp, run by mqtt_input.  A payload that   *)
(* cannot be read leaves done as it is.                                    *)
MqttInput ==
  /\ inbox # "none" /\ inbox' = "none"
  /\ connected' = CASE inbox = "connack" -> TRUE
                    [] inbox = "disconnect" -> FALSE
                    [] OTHER -> connected
  /\ sems' = IF inbox = "connack" THEN [sems EXCEPT !["mqtt"] = 1] ELSE sems
  /\ done' \in IF inbox = "publish" THEN {done, TRUE} ELSE {done}

MqttPoll ==
  /\ pc = "poll" /\ ~connected /\ MqttInput
  /\ UNCHANGED <<program, pc, result, listening, events, station, address, rose, left, broker, ap>>

MqttPollEnds ==
  /\ Goto("poll", "publish")
  /\ \/ connected /\ UNCHANGED <<broker, inbox>>
     \/ ~connected /\ broker' = "gone" /\ inbox' = "none"     (* mqtt_disconnect *)
  /\ OnlyMain /\ UNCHANGED <<left, connected, done, ap>>

(* mqtt_publish refuses where there is no session.                         *)
MqttPublish ==
  /\ pc = "publish" /\ ~done
  /\ \/ /\ Return("publish", "error") /\ OnlyMain /\ UNCHANGED appVars
     \/ /\ broker = "serving" \/ inbox = "disconnect"
        /\ MqttInput
        /\ UNCHANGED <<program, pc, result, listening, events, station, address, rose,
                       left, broker, ap>>

MqttDone ==
  /\ done /\ Goto("publish", "disconnect")
  /\ OnlyMain /\ UNCHANGED appVars

(***************************************************************************)
(* ap_mode: the static address, the bandwidth, the access point, and then  *)
(* an echo server for ever.  An echo server that cannot start is no error. *)
(***************************************************************************)
ApStart ==
  /\ \/ Try("iface", "staticIp") /\ UNCHANGED <<address, ap>>
     \/ Goto("staticIp", "bandwidth") /\ address' = TRUE /\ UNCHANGED ap
     \/ Return("staticIp", "error") /\ UNCHANGED <<address, ap>>
     \/ Try("bandwidth", "apEnable") /\ UNCHANGED <<address, ap>>
     \/ Goto("apEnable", "echoSocket") /\ ap' = TRUE /\ UNCHANGED address
     \/ Return("apEnable", "error") /\ UNCHANGED <<address, ap>>
  /\ UNCHANGED <<program, sems, listening, events, station, rose,
                 left, broker, inbox, connected, done>>

UdpEchoRun ==
  /\ Goto("echoSocket", "bind") \/ Goto("bind", "echo")
       \/ Return("echoSocket", "ok") \/ Return("bind", "ok")
  /\ OnlyMain /\ UNCHANGED appVars

Main ==
  \/ Connecting \/ Disconnecting
  \/ UdpSocket \/ UdpSend \/ LongOpen \/ LongSend
  \/ MqttConnect \/ TakeMqtt \/ MqttPoll \/ MqttPollEnds \/ MqttPublish \/ MqttDone
  \/ ApStart \/ UdpEchoRun

World ==
  \/ (LinkUp \/ LinkLost \/ AttemptFails \/ AddressAdd \/ Deliver) /\ UNCHANGED appVars
  \/ BrokerSends

Next == Main \/ World

(* main runs, the event thread runs, and the 8 s of init_mqtt pass.        *)
Fairness ==
  /\ WF_vars(Main) /\ WF_vars(MqttPollEnds)
  /\ WF_vars(Deliver /\ UNCHANGED appVars)

Spec == Init /\ [][Next]_vars /\ Fairness

(***************************************************************************)
(* What a main takes for done has been done.  Past wifi_connect_blocking   *)
(* the link has come up since it was asked for; whatever events of earlier *)
(* or failed attempts were pending, a main that returns success after a    *)
(* disconnect has taken the station down; an echo server runs on an        *)
(* enabled access point with an address; and MQTT ends well only with its  *)
(* message back.                                                           *)
(***************************************************************************)
TruthfulAnswers ==
  /\ station # "off" /\ pc \notin {"init", "connect", "takeConn", "ended"} => rose
  /\ result = "ok" /\ program \in {"long", "mqtt"} => station = "off"
  /\ pc = "echo" => ap /\ address
  /\ result = "ok" /\ program = "mqtt" => done

(* Whatever the driver does, and however late its events, main comes to    *)
(* its end, or for MQTT and the access point into the loop it is for.      *)
MainEnds == <>(pc \in {"ended", "publish", "echo"})
=============================================================================
