----------------------------- MODULE PacketPath -----------------------------
(***************************************************************************)
(* Packets between the network stack and the library (net_mgmt.c): the     *)
(* transmit functions of the two interfaces, called on the stack's         *)
(* threads, the receive callback, on the library's, and a region switch    *)
(* that shuts the library down and starts it again at any moment.          *)
(***************************************************************************)
EXTENDS Naturals

Vifs == {"STA", "AP"}

VARIABLES
  mmwlan_state, (* UNINITIALIZED or INITIALIZED                            *)
  running,      (* the library has been booted                             *)
  tx,           (* per interface, where its send function is               *)
  tx_pkt,       (* and whose its mmpkt is: none, driver, library           *)
  rx,           (* where the receive callback is                           *)
  rx_mmpkt,     (* whose the received mmpkt is: library or driver          *)
  rx_pkt        (* whose the net_pkt for it is: none, driver, stack        *)

packetVars == <<mmwlan_state, running, tx, tx_pkt, rx, rx_mmpkt, rx_pkt>>

PacketInit ==
  /\ mmwlan_state = "UNINITIALIZED" /\ running = FALSE
  /\ tx = [v \in Vifs |-> "idle"] /\ tx_pkt = [v \in Vifs |-> "none"]
  /\ rx = "idle" /\ rx_mmpkt = "library" /\ rx_pkt = "none"

(* The region switch: see WifiSta for its steps.                           *)
Switch ==
  /\ \/ running' = ~running /\ UNCHANGED mmwlan_state
     \/ mmwlan_state' = (IF running THEN "INITIALIZED" ELSE "UNINITIALIZED")
        /\ UNCHANGED running
  /\ UNCHANGED <<tx, tx_pkt, rx, rx_mmpkt, rx_pkt>>

(***************************************************************************)
(* mmnetif_tx and mmnetif_tx_ap, then mmnetif_vif_tx.  What the library is *)
(* asked once it has been shut down it refuses.                            *)
(***************************************************************************)
TxStep(v, from, to) == tx[v] = from /\ tx' = [tx EXCEPT ![v] = to]

OnlyTx == UNCHANGED <<mmwlan_state, running, rx, rx_mmpkt, rx_pkt>>

(* A packet that is too long is refused, and one before the start.         *)
NetifTx(v) ==
  /\ TxStep(v, "idle", "wait") /\ mmwlan_state # "UNINITIALIZED"
  /\ tx_pkt' = [tx_pkt EXCEPT ![v] = "none"] /\ OnlyTx

WaitUntilReady(v) ==
  /\ TxStep(v, "wait", "idle") \/ (running /\ TxStep(v, "wait", "alloc"))
  /\ UNCHANGED tx_pkt /\ OnlyTx

AllocForTx(v) ==
  /\ \/ /\ TxStep(v, "alloc", "fill") /\ running
        /\ tx_pkt' = [tx_pkt EXCEPT ![v] = "driver"]
     \/ TxStep(v, "alloc", "idle") /\ UNCHANGED tx_pkt
  /\ OnlyTx

(* Mutant: the error exit forgets the release.                             *)
FillKept(v) ==
  /\ TxStep(v, "fill", "send") \/ TxStep(v, "fill", "idle")
  /\ UNCHANGED tx_pkt /\ OnlyTx

Fill(v) ==
  /\ \/ TxStep(v, "fill", "send") /\ UNCHANGED tx_pkt
     \/ TxStep(v, "fill", "idle") /\ tx_pkt' = [tx_pkt EXCEPT ![v] = "none"]
  /\ OnlyTx

(* mmwlan_tx_pkt takes the packet, also when it fails.                     *)
TxPkt(v) ==
  /\ TxStep(v, "send", "idle")
  /\ tx_pkt' = [tx_pkt EXCEPT ![v] = "library"]
  /\ OnlyTx

(***************************************************************************)
(* mmnetif_rx; with no interface the packet goes back at once.             *)
(***************************************************************************)
RxStep(from, to) == rx = from /\ rx' = to
OnlyRx == UNCHANGED <<mmwlan_state, running, tx, tx_pkt>>

Received ==
  /\ running /\ RxStep("idle", "alloc") /\ rx_mmpkt' = "driver" /\ rx_pkt' = "none"
  /\ OnlyRx

RxAlloc ==
  /\ \/ RxStep("alloc", "write") /\ rx_pkt' = "driver"
     \/ RxStep("alloc", "done") /\ UNCHANGED rx_pkt
  /\ UNCHANGED rx_mmpkt /\ OnlyRx

(* net_pkt_write and net_recv_data: each failure drops the net_pkt.        *)
RxWrite ==
  /\ \/ RxStep("write", "recv") /\ UNCHANGED rx_pkt
     \/ RxStep("write", "done") /\ rx_pkt' = "none"
  /\ UNCHANGED rx_mmpkt /\ OnlyRx

RecvData ==
  /\ RxStep("recv", "done") /\ rx_pkt' \in {"stack", "none"}
  /\ UNCHANGED rx_mmpkt /\ OnlyRx

RxDone ==
  /\ RxStep("done", "idle") /\ rx_mmpkt' = "library"
  /\ UNCHANGED rx_pkt /\ OnlyRx

PacketNext ==
  \/ Switch
  \/ \E v \in Vifs :
       \/ NetifTx(v) \/ WaitUntilReady(v) \/ AllocForTx(v) \/ Fill(v)
       \/ TxPkt(v)
  \/ Received \/ RxAlloc \/ RxWrite \/ RecvData \/ RxDone

PacketSpec == PacketInit /\ [][PacketNext]_packetVars

(***************************************************************************)
(* Every buffer is given back or handed on, once, on every path and        *)
(* whatever a region switch does meanwhile: a function that has returned   *)
(* owns nothing, and while it works it owns what it works on.              *)
(***************************************************************************)
BuffersSettled ==
  /\ \A v \in Vifs :
       /\ tx[v] = "idle" => tx_pkt[v] # "driver"
       /\ tx[v] \in {"fill", "send"} => tx_pkt[v] = "driver"
  /\ rx = "idle" => rx_mmpkt = "library" /\ rx_pkt # "driver"
  /\ rx \in {"write", "recv"} => rx_pkt = "driver"
  /\ rx # "idle" => rx_mmpkt = "driver"
=============================================================================
