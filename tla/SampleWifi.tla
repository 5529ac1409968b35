----------------------------- MODULE SampleWifi -----------------------------
(***************************************************************************)
(* The Wi-Fi helpers of the station samples (udp/client, long_running and  *)
(* mqtt_pub_sub): a request to the driver followed by a wait, with a       *)
(* time-out, for a semaphore that a network management callback gives on   *)
(* the network stack's event thread.                                       *)
(***************************************************************************)
EXTENDS Naturals, Sequences

CONSTANT MaxEvents      (* events that wait for the event thread           *)

ASSUME MaxEventsAssumption == MaxEvents \in Nat \ {0}

VARIABLES
  program,    (* the sample: udp, long, mqtt or ap                         *)
  pc,         (* where its main is                                         *)
  result,     (* what main returned: "none", "ok" or "error"               *)
  sems,       (* wifi_conn_sem, wifi_disconn_sem, net_ready, mqtt_conn_sem *)
  listening,  (* callbacks registered: "wifi", "ipv4"                      *)
  events,     (* raised and not yet delivered                              *)
  station,    (* the driver's: off, trying, up                             *)
  address,    (* the interface has an IPv4 address                         *)
  rose        (* history: the link came up since it was asked for          *)

wifiVars == <<program, pc, result, sems, listening, events, station, address, rose>>

Give(sem) == sems' = [sems EXCEPT ![sem] = 1]

Goto(from, to) == pc = from /\ pc' = to /\ UNCHANGED result

Return(from, code) == pc = from /\ pc' = "ended" /\ result' = code

(* A call that may fail, in which case main returns what it returned.      *)
Try(from, to) == Goto(from, to) \/ Return(from, "error")

(***************************************************************************)
(* The driver and the network stack                                        *)
(***************************************************************************)
Raise(event) ==
  /\ Len(events) < MaxEvents
  /\ events' = Append(events, event)

LinkUp ==
  /\ station = "trying" /\ station' = "up" /\ rose' = TRUE
  /\ Raise("connected")
  /\ UNCHANGED <<program, pc, result, sems, listening, address>>

(* A link that is lost raises nothing; an attempt that fails raises the    *)
(* result of a disconnect nobody asked for.                                *)
LinkLost ==
  /\ station = "up" /\ station' = "trying" /\ address' = FALSE
  /\ UNCHANGED <<program, pc, result, sems, listening, events, rose>>

AttemptFails ==
  /\ station = "trying" /\ Raise("disconnected")
  /\ UNCHANGED <<program, pc, result, sems, listening, station, address, rose>>

AddressAdd ==
  /\ station = "up" /\ ~address /\ address' = TRUE
  /\ Raise("address")
  /\ UNCHANGED <<program, pc, result, sems, listening, station, rose>>

(***************************************************************************)
(* The callbacks: an event for which none is registered is lost            *)
(***************************************************************************)
WifiMgmtEvent ==
  \/ Head(events) = "connected" /\ Give("conn")
  \/ Head(events) = "disconnected" /\ Give("disconn")

Ipv4EventHandler == Head(events) = "address" /\ Give("ready")

Deliver ==
  /\ events # <<>> /\ events' = Tail(events)
  /\ \/ "wifi" \in listening /\ WifiMgmtEvent
     \/ "ipv4" \in listening /\ Ipv4EventHandler
     \/ /\ (IF Head(events) = "address" THEN "ipv4" ELSE "wifi") \notin listening
        /\ UNCHANGED sems
  /\ UNCHANGED <<program, pc, result, listening, station, address, rose>>

(***************************************************************************)
(* The helpers                                                             *)
(***************************************************************************)
InitNetMgmt ==
  /\ Goto("init", "connect") /\ listening' = {"wifi", "ipv4"}
  /\ UNCHANGED <<program, sems, events, station, address, rose>>

(* wifi_connect_blocking; the MQTT sample registers its callback here      *)
ConnectRequest ==
  /\ listening' = listening \union {"wifi"}
  /\ \/ Goto("connect", "takeConn") /\ station' = "trying" /\ rose' = FALSE
     \/ Return("connect", "error") /\ UNCHANGED <<station, rose>>
  /\ UNCHANGED <<program, sems, events, address>>

(* k_sem_take with a time-out                                              *)
Take(sem, from, to) ==
  /\ \/ sems[sem] = 1 /\ sems' = [sems EXCEPT ![sem] = 0] /\ Goto(from, to)
     \/ sems[sem] = 0 /\ UNCHANGED sems /\ Return(from, "error")
  /\ UNCHANGED <<program, listening, events, station, address, rose>>

TakeConn == Take("conn", "takeConn", "listen")

(* wait_for_network: the callback is registered (by MQTT; the others have  *)
(* it already) before the address is looked at.                            *)
(* Mutant: it is not registered.                                           *)
ListenIpv4Not ==
  /\ Goto("listen", "network")
  /\ UNCHANGED <<program, sems, listening, events, station, address, rose>>

ListenIpv4 ==
  /\ Goto("listen", "network") /\ listening' = listening \union {"ipv4"}
  /\ UNCHANGED <<program, sems, events, station, address, rose>>

CheckNetwork(then) ==
  /\ IF address THEN Goto("network", then) ELSE Goto("network", "takeReady")
  /\ UNCHANGED <<program, sems, listening, events, station, address, rose>>

(* Mutant: a wait without a time-out.                                      *)
TakeReadyForever(then) ==
  /\ sems["ready"] = 1 /\ sems' = [sems EXCEPT !["ready"] = 0]
  /\ Goto("takeReady", then)
  /\ UNCHANGED <<program, listening, events, station, address, rose>>

TakeReady(then) == Take("ready", "takeReady", then)

(* wifi_disconnect_blocking: the driver raises the result itself.  (What a *)
(* link that was up raises once more, when it is reported down, comes to a *)
(* semaphore that no one takes again: each program disconnects only once,  *)
(* and it is left out.)  Where the request fails, udp/client and           *)
(* long_running return at once, and MQTT waits nevertheless, then returns  *)
(* the error.                                                              *)
(* Mutant: the error of the request is not looked at.                      *)
DisconnectRequestUnchecked ==
  /\ \/ station' = "off" /\ address' = FALSE /\ Raise("disconnected")
     \/ UNCHANGED <<station, address, events>>
  /\ Goto("disconnect", "takeDisconn")
  /\ UNCHANGED <<program, sems, listening, rose>>

DisconnectRequest ==
  /\ \/ /\ Goto("disconnect", "takeDisconn")
        /\ station' = "off" /\ address' = FALSE /\ Raise("disconnected")
     \/ /\ IF program = "mqtt" THEN Goto("disconnect", "takeAnyway")
                               ELSE Return("disconnect", "error")
        /\ UNCHANGED <<station, address, events>>
  /\ UNCHANGED <<program, sems, listening, rose>>

TakeDisconn ==
  /\ \/ /\ sems["disconn"] = 1 /\ sems' = [sems EXCEPT !["disconn"] = 0]
        /\ Return("takeDisconn", "ok") \/ Return("takeAnyway", "error")
     \/ /\ sems["disconn"] = 0 /\ UNCHANGED sems
        /\ Return("takeDisconn", "error") \/ Return("takeAnyway", "error")
  /\ UNCHANGED <<program, listening, events, station, address, rose>>

(***************************************************************************)
(* No wait misses what it waits for: while main waits for something that   *)
(* has happened, its semaphore has been given or the event that gives it   *)
(* is on its way, in whatever order the callback was registered, the       *)
(* request issued and the event raised.                                    *)
(***************************************************************************)
Coming(event, sem) == sems[sem] = 1 \/ \E i \in 1..Len(events) : events[i] = event

NoLostWakeup ==
  /\ pc = "takeConn" /\ station = "up" => Coming("connected", "conn")
  /\ pc = "takeReady" /\ address => Coming("address", "ready")
  /\ pc = "takeDisconn" => Coming("disconnected", "disconn")
=============================================================================
