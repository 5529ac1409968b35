------------------------------- MODULE ApMode -------------------------------
(***************************************************************************)
(* The access-point half of the Morse Micro Wi-Fi driver: the requests     *)
(* that configure, enable and disable the access point, the link-state     *)
(* callback on its interface, and the region switch of the station half as *)
(* far as it touches the access point.  WifiSta has the switch in detail;  *)
(* here what follows its shutdown is one step, because then no callback is *)
(* left to run and requests follow one another.                            *)
(*                                                                         *)
(* Modelled is the build for an unpatched Zephyr, the default, in which    *)
(* the bandwidth is staged by a request of its own.                        *)
(***************************************************************************)
EXTENDS ApChannel

CONSTANTS
  Regions,        (* country codes other than World                        *)
  World,          (* the country code "00", which stops the radio          *)
  Regdb,          (* the channel list of every region                      *)
  Numbers,        (* channel numbers a request may name                    *)
  Limits,         (* values a request may give to max_num_sta              *)
  DefaultLimit,   (* max_stas of MMWLAN_AP_ARGS_INIT                       *)
  None            (* NULL, no access point, or no limit asked for          *)

ASSUME ApModeAssumption ==
  /\ World \notin Regions /\ None \notin Regions
  /\ None \notin Limits
  /\ Regdb \in [Regions -> Seq(Channels)]
  /\ \A r \in Regions : Regular(Regdb[r])

VARIABLES
  mmwlan_state,  (* "UNINITIALIZED" or "INITIALIZED"                       *)
  channel_list,  (* the region of the active channel list, or None         *)
  ap_status,     (* ap.status                                              *)
  s1g_bw_mhz,    (* ap.s1g_bw_mhz, 0 until it is set                       *)
  ap_args,       (* ap.ap_args: the operating channel and max_stas         *)
  dormant,       (* the dormant flag of the AP interface                   *)
  pc,            (* where the region switch is                             *)
  region,        (* its country_code                                       *)
  ret,           (* outcome of the last request                            *)
  booted,        (* the library has been booted                            *)
  ap_cb,         (* mmnetif_vif_state is registered for the AP             *)
  goal,          (* access point the library is to run, or None            *)
  on_air,        (* access point it does run, or None                      *)
  ev,            (* link-state callback about to run, or "idle"            *)
  limit          (* history: the last max_num_sta asked for, or None       *)

driver == <<mmwlan_state, channel_list, ap_status, s1g_bw_mhz, ap_args, dormant>>
caller == <<pc, region, ret>>
mmwlan == <<booted, ap_cb, goal, on_air, ev>>
vars   == <<driver, caller, mmwlan, limit>>

ApArgs == [op       : [op_class : UInt16, num : Nat, idx : 0..7, pri_bw : 0..2],
           max_stas : Limits \union {DefaultLimit}]
InitArgs == [op |-> NoOperation, max_stas |-> DefaultLimit]

(* An access point is known by its arguments and, for the properties, by   *)
(* the channel number and the bandwidth that were asked for.               *)
AccessPoints == [args : ApArgs, primary : Numbers, bw : Bandwidths]

TypeOK ==
  /\ mmwlan_state \in {"UNINITIALIZED", "INITIALIZED"}
  /\ channel_list \in Regions \union {None}
  /\ ap_status \in {"DISABLED", "INACTIVE", "COMPLETED"}
  /\ s1g_bw_mhz \in Bandwidths \union {0}
  /\ ap_args \in ApArgs
  /\ dormant \in BOOLEAN
  /\ pc \in {"idle", "start", "wait"}
  /\ region \in Regions \union {World}
  /\ ret \in {"ok", "refused", "channel", "failed"}
  /\ booted \in BOOLEAN
  /\ ap_cb \in BOOLEAN
  /\ goal \in AccessPoints \union {None}
  /\ on_air \in AccessPoints \union {None}
  /\ ev \in {"idle", "up", "down"}
  /\ limit \in Limits \union {None}

(* Both interfaces are initialised and wlan_start is about to run.         *)
Init ==
  /\ mmwlan_state = "UNINITIALIZED"
  /\ channel_list = None
  /\ ap_status = "DISABLED"
  /\ s1g_bw_mhz = 0
  /\ ap_args = InitArgs
  /\ dormant = FALSE
  /\ pc = "start"
  /\ region \in Regions
  /\ ret = "ok"
  /\ booted = FALSE
  /\ ap_cb = FALSE
  /\ goal = None
  /\ on_air = None
  /\ ev = "idle"
  /\ limit = None

-----------------------------------------------------------------------------
(* The requests.                                                           *)

Ready == pc = "idle"

(* morsemicro_mgmt_s1g_bandwidth, which keeps no other width.              *)
SetBandwidth ==
  /\ Ready
  /\ \/ s1g_bw_mhz' \in Bandwidths /\ ret' = "ok"
     \/ ret' = "refused" /\ UNCHANGED s1g_bw_mhz
  /\ UNCHANGED <<mmwlan_state, channel_list, ap_status, ap_args, dormant, pc,
                 region, mmwlan, limit>>

(* morsemicro_mgmt_ap_config_params, which ignores all but max_num_sta.    *)
ConfigParams ==
  /\ Ready
  /\ \/ /\ limit' \in Limits
        /\ ap_args' = [ap_args EXCEPT !.max_stas = limit']
     \/ UNCHANGED <<limit, ap_args>>
  /\ ret' = "ok"
  /\ UNCHANGED <<mmwlan_state, channel_list, ap_status, s1g_bw_mhz, dormant,
                 pc, region, mmwlan>>

EnableReturns(r) ==
  /\ Ready
  /\ ret' = r
  /\ UNCHANGED <<mmwlan_state, channel_list, ap_status, s1g_bw_mhz, dormant,
                 pc, region, booted, ap_cb, on_air, ev, limit>>

(* The operating channel for a request, NoOperation when it has none.      *)
Operation(primary) ==
  LET list == Regdb[channel_list]
      o    == Derive(list, primary, s1g_bw_mhz)
  IN  IF channel_list # None
         /\ ChannelIsValid(list, o.op_class, o.num, s1g_bw_mhz, o.idx)
        THEN o
        ELSE NoOperation

(* morsemicro_mgmt_ap_enable, with the exits in the order of the code.     *)
ApEnable(primary) ==
  \/ EnableReturns("refused") /\ UNCHANGED <<ap_args, goal>>  (* security  *)
  \/ /\ s1g_bw_mhz = 0
     /\ EnableReturns("refused") /\ UNCHANGED <<ap_args, goal>>
  \/ /\ s1g_bw_mhz # 0
     /\ Operation(primary) = NoOperation
     /\ EnableReturns("channel") /\ UNCHANGED <<ap_args, goal>>
  \/ /\ s1g_bw_mhz # 0
     /\ Operation(primary) # NoOperation
     /\ ap_args' = [ap_args EXCEPT !.op = Operation(primary)]
     /\ \/ /\ booted
           /\ goal' = [args |-> ap_args', primary |-> primary,
                       bw |-> s1g_bw_mhz]
           /\ EnableReturns("ok")
        \/ EnableReturns("failed") /\ UNCHANGED goal

(* morsemicro_mgmt_ap_disable.  MMWLAN_SHUTDOWN_BLOCKED counts as success. *)
ApDisable ==
  /\ Ready
  /\ \/ /\ mmwlan_state = "UNINITIALIZED"
        /\ ret' = "refused" /\ UNCHANGED goal
     \/ /\ mmwlan_state = "INITIALIZED"
        /\ goal' = None /\ ret' = "ok"
     \/ /\ mmwlan_state = "INITIALIZED"
        /\ ret' = "failed" /\ UNCHANGED goal
  /\ UNCHANGED <<driver, pc, region, booted, ap_cb, on_air, ev, limit>>

-----------------------------------------------------------------------------
(* The region switch.                                                      *)

(* Mutant: a shutdown that fails does not end the request.                 *)
SetRegionUnchecked ==
  /\ Ready
  /\ region' \in Regions \union {World}
  /\ \/ pc' = "start" /\ UNCHANGED <<ret, goal>>
     \/ pc' = "wait" /\ goal' = None /\ UNCHANGED ret
  /\ UNCHANGED <<driver, booted, ap_cb, on_air, ev, limit>>

SetRegion ==
  /\ Ready
  /\ \/ ret' = "failed" /\ UNCHANGED <<pc, region, goal>>
     \/ /\ pc' = "wait" /\ region' \in Regions \union {World}
        /\ goal' = None /\ UNCHANGED ret
  /\ UNCHANGED <<driver, booted, ap_cb, on_air, ev, limit>>

(* mmwlan_shutdown returns: the access point is down, and was reported so. *)
Stopped ==
  /\ pc = "wait"
  /\ on_air = None /\ ev = "idle"
  /\ booted' = FALSE
  /\ channel_list' = None
  /\ pc' = "start"
  /\ UNCHANGED <<mmwlan_state, ap_status, s1g_bw_mhz, ap_args, dormant,
                 region, ret, ap_cb, goal, on_air, ev, limit>>

(* Mutant: releasing the library leaves the status of the AP alone.        *)
ReleasedStatusKept == ap_status
ReleasedStatus     == "DISABLED"

(* "00": the library is released.                                          *)
Release ==
  /\ pc = "start" /\ region = World
  /\ IF mmwlan_state = "INITIALIZED"
       THEN mmwlan_state' = "UNINITIALIZED" /\ ap_status' = ReleasedStatus
                                            /\ ap_cb' = FALSE
       ELSE UNCHANGED <<mmwlan_state, ap_status, ap_cb>>
  /\ pc' = "idle" /\ ret' = "ok"
  /\ UNCHANGED <<channel_list, s1g_bw_mhz, ap_args, dormant, region, booted,
                 goal, on_air, ev, limit>>

StartReturns(r) ==
  /\ pc = "start" /\ region # World
  /\ pc' = "idle" /\ ret' = r
  /\ UNCHANGED <<ap_status, s1g_bw_mhz, dormant, region, goal, on_air, ev, limit>>

(* wlan_start: the BCF or mmregdb does not know the region.                *)
StartUnknown ==
  /\ StartReturns("failed")
  /\ UNCHANGED <<mmwlan_state, channel_list, ap_args, booted, ap_cb>>

(* mmwlan_init forgets callbacks; then mmwlan_boot fails, or one of the    *)
(* steps of the station does.                                              *)
StartFails ==
  /\ StartReturns("failed")
  /\ channel_list' = region
  /\ ap_cb' = FALSE
  /\ booted' \in BOOLEAN
  /\ mmwlan_state' = IF booted' THEN "INITIALIZED" ELSE mmwlan_state
  /\ UNCHANGED ap_args

(* The part of wlan_start for the AP is reached: its arguments are reset   *)
(* and its callbacks registered, unless one of them is refused; reading    *)
(* the version may still fail.                                             *)
StartAp ==
  /\ \/ StartReturns("ok") /\ ap_cb' = TRUE
     \/ StartReturns("failed") /\ ap_cb' \in BOOLEAN
  /\ channel_list' = region
  /\ booted' = TRUE
  /\ mmwlan_state' = "INITIALIZED"
  /\ ap_args' = InitArgs

-----------------------------------------------------------------------------
(* mmwlan: the event-loop thread.                                          *)

ApUp ==
  /\ ev = "idle" /\ booted
  /\ on_air = None /\ goal # None
  /\ on_air' = goal
  /\ ev' = IF ap_cb THEN "up" ELSE "idle"
  /\ UNCHANGED <<driver, caller, booted, ap_cb, goal, limit>>

ApDown ==
  /\ ev = "idle"
  /\ on_air # None /\ on_air # goal
  /\ on_air' = None
  /\ ev' = IF ap_cb THEN "down" ELSE "idle"
  /\ UNCHANGED <<driver, caller, booted, ap_cb, goal, limit>>

(* Mutant: only the station's status is kept when its link goes down.      *)
StatusAfterStaOnly(e) == IF e = "up" THEN "COMPLETED" ELSE ap_status
StatusAfter(e)        == IF e = "up" THEN "COMPLETED" ELSE "INACTIVE"

(* mmnetif_vif_state on the AP interface; no event is raised there.        *)
VifState ==
  /\ ev # "idle"
  /\ dormant' = (ev = "down")
  /\ ap_status' = StatusAfter(ev)
  /\ ev' = "idle"
  /\ UNCHANGED <<mmwlan_state, channel_list, s1g_bw_mhz, ap_args, caller,
                 booted, ap_cb, goal, on_air, limit>>

-----------------------------------------------------------------------------
Request == \/ SetBandwidth \/ ConfigParams \/ ApDisable \/ SetRegion
           \/ \E primary \in Numbers : ApEnable(primary)
Switch  == Stopped \/ Release \/ StartUnknown \/ StartFails \/ StartAp
Library == ApUp \/ ApDown \/ VifState

Next == Request \/ Switch \/ Library

Spec == Init /\ [][Next]_vars

(* A switch that has begun runs on; the library takes down an access point *)
(* that is no longer wanted and delivers its callback.                     *)
FairSpec == /\ Spec
            /\ WF_vars(Switch) /\ WF_vars(ApDown) /\ WF_vars(VifState)

-----------------------------------------------------------------------------
(* Properties.                                                             *)

(* Whatever is on air is what was asked for and lies in the band: the      *)
(* active channel list, never cleared or exchanged under a running access  *)
(* point, has an operating channel of the width asked for that carries the *)
(* primary asked for at the index the library was given.                   *)
CarriesRequest(ap, list) ==
  \E op, pri \in DOMAIN list :
    /\ list[pri].num = ap.primary
    /\ list[op].bw = ap.bw
    /\ Carries(list[op], list[pri], ap.args.op)

OnAirAsRequested ==
  on_air # None => /\ channel_list # None
                   /\ CarriesRequest(on_air, Regdb[channel_list])

(* ap_enable refuses a channel exactly when the band has no operating      *)
(* channel of the staged width around it, derive_operating_channel being   *)
(* two lookups and a rounded division that could each lose one.            *)
EnableFollowsRegdb ==
  [][\A p \in Numbers :
       ApEnable(p) /\ s1g_bw_mhz # 0 /\ channel_list # None
       /\ ret' \in {"ok", "channel"} =>
         (ret' = "ok" <=> HasOperation(Regdb[channel_list], p, s1g_bw_mhz))]_vars

(* Once the library is released the interface of the AP stays disabled.    *)
ReleasedIsDisabled == mmwlan_state = "UNINITIALIZED" => ap_status = "DISABLED"

(* With no callback about to run, the status and the dormant flag of an    *)
(* AP whose callback is registered say whether it is on air, through any   *)
(* history of region switches, which do not themselves assign either.      *)
StatusFollowsAp ==
  ev = "idle" /\ ap_cb /\ ap_status # "DISABLED" =>
    /\ ap_status = "COMPLETED" <=> on_air # None
    /\ dormant <=> on_air = None

(* An access point that has been disabled ceases to be reported, unless it *)
(* is enabled again.                                                       *)
DisableTakesEffect ==
  goal = None ~> (on_air = None /\ ap_status # "COMPLETED") \/ goal # None

(* wifi_mgmt.c, config_params: "Takes effect on the next ap_enable".  The  *)
(* limit last configured is the one that the next ap_enable hands over.    *)
MaxStasTakesEffect == Ready /\ limit # None => ap_args.max_stas = limit
=============================================================================
