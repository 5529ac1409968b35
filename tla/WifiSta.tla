------------------------------- MODULE WifiSta -------------------------------
(***************************************************************************)
(* The station half of the Morse Micro Wi-Fi driver: the wifi_mgmt         *)
(* handlers (scan, connect, disconnect, reg_domain), the start-up sequence *)
(* morsemicro_wlan_start they share with the interface initialisation, and *)
(* the two callbacks that change the interface state, which the mmwlan     *)
(* library runs on its own event-loop thread.                              *)
(*                                                                         *)
(* The driver takes no lock.  A handler runs on the thread that issued the *)
(* request and the event loop runs between any two of its steps.  Requests *)
(* follow one another: nothing in the driver is written for two at a time. *)
(* The mmwlan library is a binary: what the model assumes of it is what    *)
(* the driver relies on, and is kept apart in the section "mmwlan".        *)
(***************************************************************************)
EXTENDS Naturals, FiniteSets

CONSTANTS
  Regions,      (* two-letter country codes other than World               *)
  BcfRegions,   (* regions with radio parameters in the board's BCF        *)
  RegdbRegions, (* regions with a channel list in mmregdb                  *)
  World,        (* the country code "00", which stops the radio            *)
  Ssids,        (* names a station can be asked to join                    *)
  None          (* NULL, or no network                                     *)

ASSUME WifiStaAssumption ==
  /\ BcfRegions \subseteq Regions
  /\ RegdbRegions \subseteq Regions
  /\ World \notin Regions
  /\ None \notin Regions \union Ssids

VARIABLES
  (* struct morsemicro_data *)
  mmwlan_state,    (* "UNINITIALIZED" or "INITIALIZED"                     *)
  channel_list,    (* the region of the active channel list, or None       *)
  status,          (* sta.status                                           *)
  scan_prev_state, (* sta.scan_prev_state                                  *)
  ssid,            (* sta.sta_args.ssid                                    *)
  (* struct net_if *)
  if_up,           (* administratively up                                  *)
  dormant,         (* the dormant flag                                     *)
  (* the thread that runs the handlers *)
  pc,              (* where it is in a handler, or "idle"                  *)
  region,          (* country_code argument of reg_domain and wlan_start   *)
  ret,             (* result of the last, or current, request              *)
  in_init,         (* the interface initialisation has not returned        *)
  (* mmwlan *)
  lib,             (* life cycle of the library                            *)
  lib_list,        (* region of the channel list the radio uses            *)
  vif_cb,          (* mmnetif_vif_state is registered                      *)
  scan,            (* "none", "active" or "aborting"                       *)
  goal,            (* network the enabled station is to join, or None      *)
  link,            (* network the station is linked to, or None            *)
  ev,              (* what the event loop is doing                         *)
  (* what can be observed from outside *)
  notified,        (* last connect or disconnect result event raised       *)
  stale,           (* "scan_callback failed" has been logged               *)
  (* history: what has happened since wlan_start last succeeded *)
  early,           (* a scan ended before its request had returned         *)
  moved            (* the link status was assigned during a scan           *)

ifvars   == <<if_up, dormant>>
callvars == <<pc, region, ret, in_init>>
mmwlan   == <<lib, lib_list, vif_cb, scan, goal, link, ev>>
outvars  == <<notified, stale>>
history  == <<early, moved>>
vars == <<mmwlan_state, channel_list, status, scan_prev_state, ssid,
          ifvars, callvars, mmwlan, outvars, history>>

IfaceStates == {"DISABLED", "INACTIVE", "SCANNING", "COMPLETED"}

(* wlan_start as run by the interface initialisation or by reg_domain.     *)
StartSteps == {"lookup", "boot", "booted", "addr", "register", "version"}
SetSteps   == {"set_shutdown", "set_wait", "set_clear", "set_end"}
ScanSteps  == {"scan_prev", "scan_status"}
Steps      == {"idle"} \union ScanSteps \union SetSteps \union StartSteps

TypeOK ==
  /\ mmwlan_state \in {"UNINITIALIZED", "INITIALIZED"}
  /\ channel_list \in Regions \union {None}
  /\ status \in IfaceStates
  /\ scan_prev_state \in IfaceStates
  /\ ssid \in Ssids \union {None}
  /\ if_up \in BOOLEAN
  /\ dormant \in BOOLEAN
  /\ pc \in Steps
  /\ region \in Regions \union {World}
  /\ ret \in {"ok", "err"}
  /\ in_init \in BOOLEAN
  /\ lib \in {"off", "init", "booted", "stopping", "stopped"}
  /\ lib_list \in Regions \union {None}
  /\ vif_cb \in BOOLEAN
  /\ scan \in {"none", "active", "aborting"}
  /\ goal \in Ssids \union {None}
  /\ link \in Ssids \union {None}
  /\ ev \in {"idle", "down", "up"}
  /\ notified \in {"none", "connected", "disconnected"}
  /\ stale \in BOOLEAN
  /\ early \in BOOLEAN
  /\ moved \in BOOLEAN

(***************************************************************************)
(* morsemicro_iface_init: one thread runs wlan_start with the configured   *)
(* region before any request can be made.                                  *)
(***************************************************************************)
(* Mutant: the value that morsemicro_init left is kept.                    *)
InitialStatusKept == "DISCONNECTED"
InitialStatus     == "DISABLED"

Init ==
  /\ mmwlan_state = "UNINITIALIZED"
  /\ channel_list = None
  /\ status = InitialStatus
  /\ scan_prev_state = "DISABLED"
  /\ ssid = None
  /\ if_up = FALSE
  /\ dormant = FALSE
  /\ pc = "lookup"
  /\ region \in Regions \union {World}
  /\ ret = "ok"
  /\ in_init = TRUE
  /\ lib = "off"
  /\ lib_list = None
  /\ vif_cb = FALSE
  /\ scan = "none"
  /\ goal = None
  /\ link = None
  /\ ev = "idle"
  /\ notified = "none"
  /\ stale = FALSE
  /\ early = FALSE
  /\ moved = FALSE

-----------------------------------------------------------------------------
(* The wifi_mgmt handlers.                                                 *)

At(l) == pc = l
Goto(l) == pc' = l
Return(r) == ret' = r

(* A request may be issued: the initialisation and the previous request    *)
(* have returned.                                                          *)
Ready == ~in_init /\ pc = "idle"

(* -ENODEV: the first test of the scan, connect and disconnect handlers.   *)
Refuse ==
  /\ Ready
  /\ mmwlan_state = "UNINITIALIZED"
  /\ Return("err")
  /\ UNCHANGED <<mmwlan_state, channel_list, status, scan_prev_state, ssid,
                 ifvars, pc, region, in_init, mmwlan, outvars, history>>

(***************************************************************************)
(* morsemicro_mgmt_scan.  The request is handed to the library first; the  *)
(* previous state is saved and SCANNING is set after it has accepted.      *)
(***************************************************************************)
Scan ==
  /\ Ready
  /\ mmwlan_state = "INITIALIZED"
  /\ \/ /\ lib = "booted" /\ scan = "none"
        /\ scan' = "active"
        /\ moved' = (moved \/ ev # "idle")
        /\ Goto("scan_prev")
        /\ UNCHANGED ret
     \/ /\ Return("err")
        /\ UNCHANGED <<pc, scan, moved>>
  /\ UNCHANGED <<mmwlan_state, channel_list, status, scan_prev_state, ssid,
                 ifvars, region, in_init, lib, lib_list, vif_cb, goal, link,
                 ev, outvars, early>>

ScanSavePrev ==
  /\ At("scan_prev")
  /\ scan_prev_state' = status
  /\ Goto("scan_status")
  /\ UNCHANGED <<mmwlan_state, channel_list, status, ssid, ifvars, region,
                 ret, in_init, mmwlan, outvars, history>>

ScanSetStatus ==
  /\ At("scan_status")
  /\ status' = "SCANNING"
  /\ Goto("idle")
  /\ Return("ok")
  /\ UNCHANGED <<mmwlan_state, channel_list, scan_prev_state, ssid, ifvars,
                 region, in_init, mmwlan, outvars, history>>

(***************************************************************************)
(* morsemicro_mgmt_connect.  sta_args is written before the security type  *)
(* is validated and before the library accepts.                            *)
(***************************************************************************)
Connect ==
  /\ Ready
  /\ mmwlan_state = "INITIALIZED"
  /\ \E s \in Ssids :
       /\ ssid' = s
       /\ \/ /\ lib = "booted"
             /\ goal' = s
             /\ Return("ok")
          \/ /\ Return("err")    (* bad security type, or sta_enable failed *)
             /\ UNCHANGED goal
  /\ UNCHANGED <<mmwlan_state, channel_list, status, scan_prev_state, ifvars,
                 pc, region, in_init, lib, lib_list, vif_cb, scan, link, ev,
                 outvars, history>>

(***************************************************************************)
(* morsemicro_mgmt_disconnect.  MMWLAN_SHUTDOWN_BLOCKED counts as success. *)
(***************************************************************************)
Disconnect ==
  /\ Ready
  /\ mmwlan_state = "INITIALIZED"
  /\ \/ /\ goal' = None
        /\ notified' = "disconnected"
        /\ Return("ok")
     \/ /\ Return("err")
        /\ UNCHANGED <<goal, notified>>
  /\ UNCHANGED <<mmwlan_state, channel_list, status, scan_prev_state, ssid,
                 ifvars, pc, region, in_init, lib, lib_list, vif_cb, scan,
                 link, ev, stale, history>>

-----------------------------------------------------------------------------
(* morsemicro_mgmt_reg_domain, WIFI_MGMT_SET.                              *)

SetRegion ==
  /\ Ready
  /\ region' \in Regions \union {World}
  /\ scan' = IF scan = "none" THEN "none" ELSE "aborting"  (* scan_abort *)
  /\ Goto("set_shutdown")
  /\ UNCHANGED <<mmwlan_state, channel_list, status, scan_prev_state, ssid,
                 ifvars, ret, in_init, lib, lib_list, vif_cb, goal, link, ev,
                 outvars, history>>

(* Mutant: the channel list is dropped before the shutdown.                *)
SetShutdownAfterClear ==
  /\ At("set_shutdown")
  /\ channel_list' = None
  /\ \/ /\ Return("err")
        /\ Goto("idle")
        /\ UNCHANGED <<lib, goal>>
     \/ /\ lib' = IF lib = "booted" THEN "stopping" ELSE lib
        /\ goal' = None
        /\ Goto("set_wait")
        /\ UNCHANGED ret
  /\ UNCHANGED <<mmwlan_state, status, scan_prev_state, ssid, ifvars, region,
                 in_init, lib_list, vif_cb, scan, link, ev, outvars, history>>

(* Mutant: the result of the shutdown is not looked at.                    *)
SetShutdownUnchecked ==
  /\ At("set_shutdown")
  /\ \/ /\ Goto("set_clear")
        /\ UNCHANGED <<lib, goal>>
     \/ /\ lib' = IF lib = "booted" THEN "stopping" ELSE lib
        /\ goal' = None
        /\ Goto("set_wait")
  /\ UNCHANGED <<mmwlan_state, channel_list, status, scan_prev_state, ssid,
                 ifvars, region, ret, in_init, lib_list, vif_cb, scan, link,
                 ev, outvars, history>>

(* mmwlan_shutdown is called; an error ends the request here.              *)
SetShutdown ==
  /\ At("set_shutdown")
  /\ \/ /\ Return("err")
        /\ Goto("idle")
        /\ UNCHANGED <<lib, goal>>
     \/ /\ lib' = IF lib = "booted" THEN "stopping" ELSE lib
        /\ goal' = None
        /\ Goto("set_wait")
        /\ UNCHANGED ret
  /\ UNCHANGED <<mmwlan_state, channel_list, status, scan_prev_state, ssid,
                 ifvars, region, in_init, lib_list, vif_cb, scan, link, ev,
                 outvars, history>>

(* mmwlan_shutdown returns: the event loop has nothing left to deliver.    *)
SetStopped ==
  /\ At("set_wait")
  /\ ev = "idle" /\ scan = "none" /\ link = None
  /\ lib' = IF lib = "stopping" THEN "stopped" ELSE lib
  /\ Goto("set_clear")
  /\ UNCHANGED <<mmwlan_state, channel_list, status, scan_prev_state, ssid,
                 ifvars, region, ret, in_init, lib_list, vif_cb, scan, goal,
                 link, ev, outvars, history>>

(* Mutant: "00" releases the library and leaves the status alone.          *)
ReleasedStatusKept == status
ReleasedStatus     == "DISABLED"

(* The channel list is dropped; "00" also releases the library.            *)
SetClear ==
  /\ At("set_clear")
  /\ channel_list' = None
  /\ \/ /\ region = World
        /\ Return("ok")
        /\ Goto("set_end")
        /\ IF mmwlan_state = "INITIALIZED"
             THEN /\ mmwlan_state' = "UNINITIALIZED"
                  /\ status' = ReleasedStatus
                  /\ lib' = "off"
                  /\ vif_cb' = FALSE
             ELSE UNCHANGED <<mmwlan_state, status, lib, vif_cb>>
     \/ /\ region # World
        /\ Goto("lookup")
        /\ UNCHANGED <<mmwlan_state, status, lib, vif_cb, ret>>
  /\ UNCHANGED <<scan_prev_state, ssid, ifvars, region, in_init, lib_list,
                 scan, goal, link, ev, outvars, history>>

(* Mutant: the interface stays as it was.                                  *)
IfaceAfterSetKept == if_up
IfaceAfterSet     == if_up /\ channel_list # None

(* The interface goes down when no channels are left.                      *)
SetEnd ==
  /\ At("set_end")
  /\ if_up' = IfaceAfterSet
  /\ Goto("idle")
  /\ UNCHANGED <<mmwlan_state, channel_list, status, scan_prev_state, ssid,
                 dormant, region, ret, in_init, mmwlan, outvars, history>>

-----------------------------------------------------------------------------
(* morsemicro_wlan_start.                                                  *)

(* Return from wlan_start to reg_domain, or from the interface             *)
(* initialisation, after which the network stack brings the interface up.  *)
StartReturns(r) ==
  /\ Return(r)
  /\ Goto(IF in_init THEN "idle" ELSE "set_end")
  /\ in_init' = FALSE
  /\ if_up' = (if_up \/ in_init)

(* bcf_reg_dne, mmwlan_lookup_regulatory_domain and, when both know the    *)
(* region, mmwlan_init and mmwlan_set_channel_list.                        *)
StartLookup ==
  /\ At("lookup")
  /\ \/ /\ region \notin BcfRegions
        /\ channel_list' = None
        /\ StartReturns("err")
        /\ UNCHANGED <<lib, lib_list, vif_cb>>
     \/ /\ region \in BcfRegions \ RegdbRegions
        /\ StartReturns("err")
        /\ UNCHANGED <<channel_list, lib, lib_list, vif_cb>>
     \/ /\ region \in BcfRegions \intersect RegdbRegions
        /\ lib' = "init"
        /\ vif_cb' = FALSE
        /\ lib_list' = region
        /\ channel_list' = region
        /\ Goto("boot")
        /\ UNCHANGED <<ret, in_init, if_up>>
  /\ UNCHANGED <<mmwlan_state, status, scan_prev_state, ssid, dormant, region,
                 scan, goal, link, ev, outvars, history>>

StartBoot ==
  /\ At("boot")
  /\ \/ /\ StartReturns("err")
        /\ UNCHANGED lib
     \/ /\ lib' = "booted"
        /\ Goto("booted")
        /\ UNCHANGED <<ret, in_init, if_up>>
  /\ UNCHANGED <<mmwlan_state, channel_list, status, scan_prev_state, ssid,
                 dormant, region, lib_list, vif_cb, scan, goal, link, ev,
                 outvars, history>>

(* From here on the driver accepts requests.  Setting the power-save mode  *)
(* or reading the MAC address may fail.                                    *)
StartBooted ==
  /\ At("booted")
  /\ mmwlan_state' = "INITIALIZED"
  /\ \/ StartReturns("err")
     \/ /\ Goto("addr")
        /\ UNCHANGED <<ret, in_init, if_up>>
  /\ UNCHANGED <<channel_list, status, scan_prev_state, ssid, dormant, region,
                 mmwlan, outvars, history>>

(* Mutant: dormant is left as it was.                                      *)
StartSetAddrAwake ==
  /\ At("addr")
  /\ if_up' = TRUE
  /\ Goto("register")
  /\ UNCHANGED <<mmwlan_state, channel_list, status, scan_prev_state, ssid,
                 dormant, region, ret, in_init, mmwlan, outvars, history>>

(* Dormant first, so that the down/up around the address is not seen.      *)
StartSetAddr ==
  /\ At("addr")
  /\ dormant' = TRUE
  /\ if_up' = TRUE
  /\ Goto("register")
  /\ UNCHANGED <<mmwlan_state, channel_list, status, scan_prev_state, ssid,
                 region, ret, in_init, mmwlan, outvars, history>>

(* Mutant: a callback that could not be registered is not an error.        *)
StartRegisterUnchecked ==
  /\ At("register")
  /\ vif_cb' \in BOOLEAN
  /\ Goto("version")
  /\ UNCHANGED <<mmwlan_state, channel_list, status, scan_prev_state, ssid,
                 ifvars, region, ret, in_init, lib, lib_list, scan, goal,
                 link, ev, outvars, history>>

(* Registers the receive callback, then the link-state callback.           *)
StartRegister ==
  /\ At("register")
  /\ \/ /\ StartReturns("err")
        /\ UNCHANGED vif_cb
     \/ /\ vif_cb' = TRUE
        /\ Goto("version")
        /\ UNCHANGED <<ret, in_init, if_up>>
  /\ UNCHANGED <<mmwlan_state, channel_list, status, scan_prev_state, ssid,
                 dormant, region, lib, lib_list, scan, goal, link, ev,
                 outvars, history>>

StartVersion ==
  /\ At("version")
  /\ \/ /\ StartReturns("err")
        /\ UNCHANGED <<status, ssid, history>>
     \/ /\ StartReturns("ok")
        /\ status' = "INACTIVE"
        /\ ssid' = None
        /\ early' = FALSE
        /\ moved' = FALSE
  /\ UNCHANGED <<mmwlan_state, channel_list, scan_prev_state, dormant, region,
                 mmwlan, outvars>>

-----------------------------------------------------------------------------
(* mmwlan: the event-loop thread and the driver's callbacks on it.         *)

ScanRequestOpen == pc \in ScanSteps
ScanUnderWay    == scan # "none" \/ ScanRequestOpen

(* scan_callback: one result of the scan in flight.                        *)
ScanResult ==
  /\ ev = "idle"
  /\ scan # "none"
  /\ stale' = (stale \/ channel_list = None)
  /\ UNCHANGED <<mmwlan_state, channel_list, status, scan_prev_state, ssid,
                 ifvars, callvars, mmwlan, notified, history>>

(* Mutants: the saved state is not restored, or taken to be INACTIVE.      *)
RestoredStatusKept     == status
RestoredStatusInactive == "INACTIVE"
RestoredStatus         == scan_prev_state

(* scan_complete_callback, for a scan that ends or is aborted.             *)
ScanComplete ==
  /\ ev = "idle"
  /\ scan # "none"
  /\ scan' = "none"
  /\ status' = RestoredStatus
  /\ early' = (early \/ ScanRequestOpen)
  /\ UNCHANGED <<mmwlan_state, channel_list, scan_prev_state, ssid, ifvars,
                 callvars, lib, lib_list, vif_cb, goal, link, ev, outvars,
                 moved>>

(* Mutant: the event is raised for a link that was up.                     *)
ReportsLinkDownInverted == status # "INACTIVE"
ReportsLinkDown         == status = "INACTIVE"

(* mmnetif_vif_state, LINK_DOWN, up to the assignment of the status.       *)
LinkDownCallback ==
  IF vif_cb
    THEN /\ ev' = "down"
         /\ dormant' = TRUE
         /\ notified' = IF ReportsLinkDown THEN "disconnected"
                                            ELSE notified
    ELSE UNCHANGED <<ev, dormant, notified>>

(* A link is lost: the AP is gone, or the station is to leave it.          *)
LinkLost ==
  /\ ev = "idle"
  /\ link # None
  /\ link' = None
  /\ LinkDownCallback
  /\ UNCHANGED <<mmwlan_state, channel_list, status, scan_prev_state, ssid,
                 if_up, callvars, lib, lib_list, vif_cb, scan, goal, stale, history>>

(* An attempt to join fails; the library reports the link down again.      *)
AttemptFails ==
  /\ ev = "idle"
  /\ lib = "booted"
  /\ goal # None /\ link = None
  /\ LinkDownCallback
  /\ UNCHANGED <<mmwlan_state, channel_list, status, scan_prev_state, ssid,
                 if_up, callvars, lib, lib_list, vif_cb, scan, goal, link,
                 stale, history>>

LinkDownStatus ==
  /\ ev = "down"
  /\ status' = "INACTIVE"
  /\ ev' = "idle"
  /\ moved' = (moved \/ ScanUnderWay)
  /\ UNCHANGED <<mmwlan_state, channel_list, scan_prev_state, ssid, ifvars,
                 callvars, lib, lib_list, vif_cb, scan, goal, link, outvars,
                 early>>

(* mmnetif_vif_state, LINK_UP: the event is raised before the status is    *)
(* assigned.                                                               *)
LinkUp ==
  /\ ev = "idle"
  /\ lib = "booted"
  /\ goal # None /\ link = None
  /\ link' = goal
  /\ IF vif_cb
       THEN /\ ev' = "up"
            /\ dormant' = FALSE
            /\ notified' = "connected"
       ELSE UNCHANGED <<ev, dormant, notified>>
  /\ UNCHANGED <<mmwlan_state, channel_list, status, scan_prev_state, ssid,
                 if_up, callvars, lib, lib_list, vif_cb, scan, goal, stale, history>>

LinkUpStatus ==
  /\ ev = "up"
  /\ status' = "COMPLETED"
  /\ ev' = "idle"
  /\ moved' = (moved \/ ScanUnderWay)
  /\ UNCHANGED <<mmwlan_state, channel_list, scan_prev_state, ssid, ifvars,
                 callvars, lib, lib_list, vif_cb, scan, goal, link, outvars,
                 early>>

-----------------------------------------------------------------------------
Request == Refuse \/ Scan \/ Connect \/ Disconnect \/ SetRegion

Handler ==
  \/ ScanSavePrev \/ ScanSetStatus
  \/ SetShutdown \/ SetStopped \/ SetClear \/ SetEnd
  \/ StartLookup \/ StartBoot \/ StartBooted \/ StartSetAddr
  \/ StartRegister \/ StartVersion

EventLoop ==
  \/ ScanResult \/ ScanComplete
  \/ LinkLost \/ AttemptFails \/ LinkDownStatus \/ LinkUp \/ LinkUpStatus

Next == Request \/ Handler \/ EventLoop

Spec == Init /\ [][Next]_vars

(***************************************************************************)
(* A handler that has begun runs to its end; a callback that has begun     *)
(* finishes; a scan ends; a link the station was told to leave goes down.  *)
(* Nobody is obliged to issue a request, and no attempt has to succeed.    *)
(***************************************************************************)
Fairness ==
  /\ WF_vars(Handler)
  /\ WF_vars(ScanComplete)
  /\ WF_vars(LinkDownStatus)
  /\ WF_vars(LinkUpStatus)
  /\ WF_vars(link # goal /\ LinkLost)

FairSpec == Spec /\ Fairness

-----------------------------------------------------------------------------
(* What the read-only handlers report.                                     *)

ReportedRegion == IF channel_list = None THEN World ELSE channel_list
VersionKnown   == status # "DISABLED"

(* No handler and no callback is running and no scan is in flight.         *)
Settled == pc = "idle" /\ ev = "idle" /\ scan = "none"
-----------------------------------------------------------------------------
(* Properties.                                                             *)

(* test_reg_domain_switch_during_scan: no scan result reaches              *)
(* scan_callback after the region has been withdrawn, because reg_domain   *)
(* aborts the scan and waits for the shutdown before it clears             *)
(* channel_list.                                                           *)
NoStaleResult == ~stale

(* The radio only ever transmits on the channels of the region that        *)
(* reg_domain GET reports, whichever step of a region switch has failed.   *)
RadioObeysReportedRegion ==
  lib \in {"booted", "stopping"} => /\ channel_list # None
                                    /\ lib_list = ReportedRegion

(* Once the library is released no late callback revives the interface:    *)
(* status stays INTERFACE_DISABLED, which get_version relies on.           *)
ReleasedIsDisabled ==
  mmwlan_state = "UNINITIALIZED" => ~VersionKnown

(* A registered interface is let out of the dormant state only while it    *)
(* has a link, so that IP traffic and DHCP never start without one.        *)
OperationalHasLink == vif_cb /\ ~dormant => link # None

(* test_halow _wait_for_disconnect: with nothing in progress, a station     *)
(* that has been disconnected does not report COMPLETED.                   *)
DisconnectShowsInactive ==
  Settled /\ vif_cb /\ goal = None /\ link = None => status # "COMPLETED"

(* The status follows the link: with nothing in progress, COMPLETED is     *)
(* reported exactly when there is a link.  It takes a link change during   *)
(* a scan, or a scan that outruns its request, to part the two, and the    *)
(* next successful wlan_start mends it.                                    *)
StatusFollowsLink ==
  Settled /\ vif_cb /\ ~early /\ ~moved
    => (status = "COMPLETED" <=> link # None)

(* test_iface_status_fields: the SSID that iface_status reports for an     *)
(* established link is the SSID of that link.                              *)
ReportedSsidIsLinked ==
  Settled /\ status = "COMPLETED" /\ link # None /\ goal = link => ssid = link

(* test_reg_domain_switch: a region switch that returns 0 has taken        *)
(* effect: GET reports the region, and the radio is either released ("00") *)
(* or booted with an interface that can be used.                           *)
SetReturnsOk == pc = "set_end" /\ ret = "ok" /\ pc' = "idle"

SuccessfulSetTakesEffect ==
  [][SetReturnsOk =>
       /\ ReportedRegion' = region
       /\ IF region = World
            THEN mmwlan_state' = "UNINITIALIZED" /\ ~if_up'
            ELSE /\ mmwlan_state' = "INITIALIZED" /\ lib' = "booted"
                 /\ vif_cb' /\ if_up' /\ status' = "INACTIVE"]_vars

(* A failed attempt to join is reported by a disconnect event, which a     *)
(* caller blocked on the connection result waits for, unless a scan is or  *)
(* was in its way.                                                         *)
FailedAttemptReported ==
  [][AttemptFails /\ vif_cb /\ VersionKnown /\ ~ScanUnderWay /\ ~early /\ ~moved
       => notified' = "disconnected"]_vars

(* The steps of reg_domain and wlan_start, whichever fail, with the event  *)
(* loop at work between them, are one switch to the outside: RadioPermit   *)
(* is what comes out, the radio being open from the boot to the return of  *)
(* mmwlan_shutdown.                                                        *)
Radio == INSTANCE RadioPermit WITH
  permit <- channel_list,
  radio <- IF lib \in {"booted", "stopping"} THEN lib_list ELSE None,
  closing <- lib = "stopping",
  onAir <- scan # "none" \/ link # None

ImplementsRadioPermit == Radio!Spec

(* A region switch that stopped the radio always returns, and leaves the   *)
(* interface down when it leaves no valid channels.                        *)
SwitchEnds ==
  pc = "set_clear" ~> pc = "idle" /\ (channel_list = None => ~if_up)

(* The interface does not stay in SCANNING: a scan ends, or is aborted by  *)
(* a region switch, and the saved state comes back.  Only a scan that      *)
(* outruns its own request leaves SCANNING behind.                         *)
ScanningEnds == status = "SCANNING" ~> status # "SCANNING" \/ early
=============================================================================
