--------------------------- MODULE WifiStaProofs ---------------------------
(***************************************************************************)
(* Theorems about WifiSta, for every set of regions and networks.          *)
(*                                                                         *)
(* The safety properties rest on one inductive invariant, Inv: while the   *)
(* library is not running, and from then until wlan_start has returned,    *)
(* nothing is in flight on the event loop; so the steps of reg_domain and  *)
(* wlan_start that change the shared state meet no callback.               *)
(***************************************************************************)
EXTENDS WifiSta, TLAPS

Running == lib \in {"booted", "stopping"}

(* The event loop has nothing to deliver and nothing to work for.          *)
Quiet == ev = "idle" /\ scan = "none" /\ link = None /\ goal = None

(* A stopped library delivers nothing.                                     *)
StoppedIsQuiet == ~Running => Quiet

(* The steps between the shutdown and the boot see a stopped library, the  *)
(* steps after the boot a booted one that is still quiet.                  *)
HandlerSeesLibrary ==
  /\ pc = "set_wait" => lib # "booted" /\ goal = None
  /\ pc \in {"set_clear", "lookup", "boot"} => ~Running
  /\ pc = "boot" => channel_list # None /\ lib_list = channel_list
  /\ pc \in {"booted", "addr", "register", "version"} => Quiet
  /\ pc = "booted" => lib = "booted"

(* Requests that use the library are only under way while it is held.      *)
HeldWhileUsed ==
  /\ pc \in ScanSteps \union {"addr", "register", "version"}
       => mmwlan_state = "INITIALIZED"
  /\ Running => mmwlan_state = "INITIALIZED" \/ pc = "booted"

DormantBeforeCallback ==
  /\ pc \in {"register", "version"} => dormant
  /\ OperationalHasLink

Safe ==
  /\ StoppedIsQuiet
  /\ HandlerSeesLibrary
  /\ HeldWhileUsed
  /\ RadioObeysReportedRegion
  /\ ReleasedIsDisabled
  /\ NoStaleResult
  /\ DormantBeforeCallback

Inv == TypeOK /\ Safe

-----------------------------------------------------------------------------
(* The variables keep their types.                                         *)
LEMMA TypeStep == TypeOK /\ [Next]_vars => TypeOK'
<1> SUFFICES ASSUME TypeOK, [Next]_vars PROVE TypeOK'
  OBVIOUS
<1> USE DEF TypeOK, IfaceStates, Steps, StartSteps, SetSteps, ScanSteps,
        ifvars, callvars, mmwlan, outvars, history,
        At, Goto, Return, Ready, StartReturns
<1>1. CASE Refuse
  BY <1>1 DEF Refuse
<1>2. CASE Scan
  <2>1. moved' \in BOOLEAN
    BY <1>2, Zenon DEF Scan
  <2>2. pc' \in Steps /\ ret' \in {"ok", "err"}
    BY <1>2 DEF Scan
  <2>. QED
    BY <1>2, <2>1, <2>2 DEF Scan
<1>3. CASE ScanSavePrev
  BY <1>3 DEF ScanSavePrev
<1>4. CASE ScanSetStatus
  BY <1>4 DEF ScanSetStatus
<1>5. CASE Connect
  BY <1>5 DEF Connect
<1>6. CASE Disconnect
  BY <1>6 DEF Disconnect
<1>7. CASE SetRegion
  BY <1>7 DEF SetRegion
<1>8. CASE SetShutdown
  BY <1>8 DEF SetShutdown
<1>9. CASE SetStopped
  BY <1>9 DEF SetStopped
<1>10. CASE SetClear
  <2>1. vif_cb' \in BOOLEAN
    BY <1>10 DEF SetClear, ReleasedStatus
  <2>2. lib' \in {"off", "init", "booted", "stopping", "stopped"} /\ status' \in IfaceStates
    BY <1>10 DEF SetClear, ReleasedStatus
  <2>3. mmwlan_state' \in {"UNINITIALIZED", "INITIALIZED"}
    BY <1>10 DEF SetClear, ReleasedStatus
  <2>4. pc' \in Steps /\ ret' \in {"ok", "err"}
    BY <1>10 DEF SetClear, ReleasedStatus
  <2>. QED
    BY <1>10, <2>1, <2>2, <2>3, <2>4 DEF SetClear, ReleasedStatus
<1>11. CASE SetEnd
  BY <1>11 DEF SetEnd, IfaceAfterSet
<1>12. CASE StartLookup
  <2>1. if_up' \in BOOLEAN
    BY <1>12, WifiStaAssumption DEF StartLookup
  <2>2. in_init' \in BOOLEAN
    BY <1>12, WifiStaAssumption DEF StartLookup
  <2>3. pc' \in Steps /\ ret' \in {"ok", "err"}
    BY <1>12, WifiStaAssumption DEF StartLookup
  <2>4. vif_cb' \in BOOLEAN
    BY <1>12, WifiStaAssumption DEF StartLookup
  <2>5. lib' \in {"off", "init", "booted", "stopping", "stopped"}
    BY <1>12, WifiStaAssumption DEF StartLookup
  <2>6. channel_list' \in Regions \union {None} /\ lib_list' \in Regions \union {None}
    BY <1>12, WifiStaAssumption DEF StartLookup
  <2>. QED
    BY <1>12, <2>1, <2>2, <2>3, <2>4, <2>5, <2>6 DEF StartLookup
<1>13. CASE StartBoot
  <2>1. if_up' \in BOOLEAN
    BY <1>13 DEF StartBoot
  <2>2. in_init' \in BOOLEAN
    BY <1>13 DEF StartBoot
  <2>3. pc' \in Steps /\ ret' \in {"ok", "err"}
    BY <1>13 DEF StartBoot
  <2>4. lib' \in {"off", "init", "booted", "stopping", "stopped"}
    BY <1>13 DEF StartBoot
  <2>. QED
    BY <1>13, <2>1, <2>2, <2>3, <2>4 DEF StartBoot
<1>14. CASE StartBooted
  <2>1. if_up' \in BOOLEAN
    BY <1>14 DEF StartBooted
  <2>2. in_init' \in BOOLEAN
    BY <1>14 DEF StartBooted
  <2>3. pc' \in Steps /\ ret' \in {"ok", "err"}
    BY <1>14 DEF StartBooted
  <2>. QED
    BY <1>14, <2>1, <2>2, <2>3 DEF StartBooted
<1>15. CASE StartSetAddr
  BY <1>15 DEF StartSetAddr
<1>16. CASE StartRegister
  <2>1. if_up' \in BOOLEAN
    BY <1>16 DEF StartRegister
  <2>2. in_init' \in BOOLEAN
    BY <1>16 DEF StartRegister
  <2>3. pc' \in Steps /\ ret' \in {"ok", "err"}
    BY <1>16 DEF StartRegister
  <2>4. vif_cb' \in BOOLEAN
    BY <1>16 DEF StartRegister
  <2>. QED
    BY <1>16, <2>1, <2>2, <2>3, <2>4 DEF StartRegister
<1>17. CASE StartVersion
  <2>1. if_up' \in BOOLEAN
    BY <1>17 DEF StartVersion
  <2>2. in_init' \in BOOLEAN
    BY <1>17 DEF StartVersion
  <2>3. pc' \in Steps /\ ret' \in {"ok", "err"}
    BY <1>17 DEF StartVersion
  <2>4. early' \in BOOLEAN /\ moved' \in BOOLEAN
    BY <1>17 DEF StartVersion
  <2>5. status' \in IfaceStates /\ ssid' \in Ssids \union {None}
    BY <1>17 DEF StartVersion
  <2>. QED
    BY <1>17, <2>1, <2>2, <2>3, <2>4, <2>5 DEF StartVersion
<1>18. CASE ScanResult
  BY <1>18 DEF ScanResult
<1>19. CASE ScanComplete
  BY <1>19 DEF ScanComplete, RestoredStatus, ScanRequestOpen
<1>20. CASE LinkLost
  <2>1. CASE vif_cb
    BY <1>20, <2>1 DEF LinkLost, LinkDownCallback, ReportsLinkDown
  <2>2. CASE ~vif_cb
    BY <1>20, <2>2 DEF LinkLost, LinkDownCallback, ReportsLinkDown
  <2>. QED
    BY <2>1, <2>2
<1>21. CASE AttemptFails
  <2>1. CASE vif_cb
    BY <1>21, <2>1 DEF AttemptFails, LinkDownCallback, ReportsLinkDown
  <2>2. CASE ~vif_cb
    BY <1>21, <2>2 DEF AttemptFails, LinkDownCallback, ReportsLinkDown
  <2>. QED
    BY <2>1, <2>2
<1>22. CASE LinkDownStatus
  BY <1>22 DEF LinkDownStatus, ScanUnderWay, ScanRequestOpen
<1>23. CASE LinkUp
  <2>1. CASE vif_cb
    <3>1. link' \in Ssids \union {None}
      BY <1>23 DEF LinkUp
    <3>2. /\ ev' \in {"idle", "down", "up"}
          /\ notified' \in {"none", "connected", "disconnected"}
          /\ dormant' \in BOOLEAN
      BY <1>23, <2>1 DEF LinkUp
    <3>3. UNCHANGED <<mmwlan_state, channel_list, status, scan_prev_state,
                      ssid, if_up, pc, region, ret, in_init, lib, lib_list,
                      vif_cb, scan, goal, stale, early, moved>>
      BY <1>23 DEF LinkUp
    <3>. QED
      BY <3>1, <3>2, <3>3
  <2>2. CASE ~vif_cb
    BY <1>23, <2>2 DEF LinkUp
  <2>. QED
    BY <2>1, <2>2
<1>24. CASE LinkUpStatus
  BY <1>24 DEF LinkUpStatus, ScanUnderWay, ScanRequestOpen
<1>25. CASE UNCHANGED vars
  BY <1>25 DEF vars
<1>. QED
  BY <1>1, <1>2, <1>3, <1>4, <1>5, <1>6, <1>7, <1>8, <1>9, <1>10, <1>11, <1>12, <1>13, <1>14, <1>15, <1>16, <1>17, <1>18, <1>19, <1>20, <1>21, <1>22, <1>23, <1>24, <1>25
  DEF Next, Request, Handler, EventLoop

LEMMA SafeStep == TypeOK /\ Safe /\ [Next]_vars => Safe'
<1> SUFFICES ASSUME TypeOK, Safe, [Next]_vars PROVE Safe'
  OBVIOUS
<1> USE WifiStaAssumption
    DEF TypeOK, Safe, StoppedIsQuiet, Quiet, Running, HandlerSeesLibrary,
        HeldWhileUsed, RadioObeysReportedRegion, ReportedRegion,
        ReleasedIsDisabled, VersionKnown, NoStaleResult,
        DormantBeforeCallback, OperationalHasLink, ScanSteps,
        ifvars, callvars, mmwlan, outvars, history,
        At, Goto, Return, Ready, StartReturns
<1>1. CASE Refuse
  BY <1>1, SMTT(30) DEF Refuse
<1>2. CASE Scan
  BY <1>2, SMTT(30) DEF Scan
<1>3. CASE ScanSavePrev
  BY <1>3, SMTT(30) DEF ScanSavePrev
<1>4. CASE ScanSetStatus
  BY <1>4, SMTT(30) DEF ScanSetStatus
<1>5. CASE Connect
  BY <1>5, SMTT(30) DEF Connect
<1>6. CASE Disconnect
  BY <1>6, SMTT(30) DEF Disconnect
<1>7. CASE SetRegion
  BY <1>7, SMTT(30) DEF SetRegion
<1>8. CASE SetShutdown
  BY <1>8, SMTT(30) DEF SetShutdown
<1>9. CASE SetStopped
  BY <1>9, SMTT(30) DEF SetStopped
<1>10. CASE SetClear
  BY <1>10, SMTT(30) DEF SetClear, ReleasedStatus
<1>11. CASE SetEnd
  BY <1>11, SMTT(30) DEF SetEnd, IfaceAfterSet
<1>12. CASE StartLookup
  BY <1>12, SMTT(30) DEF StartLookup
<1>13. CASE StartBoot
  BY <1>13, SMTT(30) DEF StartBoot
<1>14. CASE StartBooted
  BY <1>14, SMTT(30) DEF StartBooted
<1>15. CASE StartSetAddr
  BY <1>15, SMTT(30) DEF StartSetAddr
<1>16. CASE StartRegister
  BY <1>16, SMTT(30) DEF StartRegister
<1>17. CASE StartVersion
  BY <1>17, SMTT(30) DEF StartVersion
<1>18. CASE ScanResult
  BY <1>18, SMTT(30) DEF ScanResult
<1>19. CASE ScanComplete
  BY <1>19, SMTT(30) DEF ScanComplete, RestoredStatus, ScanRequestOpen
<1>20. CASE LinkLost
  BY <1>20, SMTT(30) DEF LinkLost, LinkDownCallback, ReportsLinkDown
<1>21. CASE AttemptFails
  BY <1>21, SMTT(30) DEF AttemptFails, LinkDownCallback, ReportsLinkDown
<1>22. CASE LinkDownStatus
  BY <1>22, SMTT(30) DEF LinkDownStatus, ScanUnderWay, ScanRequestOpen
<1>23. CASE LinkUp
  BY <1>23, SMTT(30) DEF LinkUp
<1>24. CASE LinkUpStatus
  BY <1>24, SMTT(30) DEF LinkUpStatus, ScanUnderWay, ScanRequestOpen
<1>25. CASE UNCHANGED vars
  BY <1>25 DEF vars
<1>. QED
  BY <1>1, <1>2, <1>3, <1>4, <1>5, <1>6, <1>7, <1>8, <1>9, <1>10, <1>11, <1>12, <1>13, <1>14, <1>15, <1>16, <1>17, <1>18, <1>19, <1>20, <1>21, <1>22, <1>23, <1>24, <1>25
  DEF Next, Request, Handler, EventLoop

-----------------------------------------------------------------------------
LEMMA InvInit == Init => Inv
  BY WifiStaAssumption
  DEF Init, InitialStatus, Inv, TypeOK, IfaceStates, Steps, StartSteps,
      SetSteps, ScanSteps, Safe, StoppedIsQuiet, Quiet, Running,
      HandlerSeesLibrary, HeldWhileUsed, RadioObeysReportedRegion,
      ReportedRegion, ReleasedIsDisabled, VersionKnown, NoStaleResult,
      DormantBeforeCallback, OperationalHasLink

LEMMA Invariance == Spec => []Inv
<1>1. Inv /\ [Next]_vars => Inv'
  BY TypeStep, SafeStep DEF Inv
<1>. QED
  BY InvInit, <1>1, PTL DEF Spec

(* Every variable of the driver keeps its type.                            *)
THEOREM TypeCorrect == Spec => []TypeOK
<1>1. Inv => TypeOK
  BY DEF Inv
<1>. QED
  BY Invariance, <1>1, PTL

(* reg_domain never lets scan_callback meet a channel list it has already  *)
(* cleared.                                                                *)
THEOREM NoStaleResultEver == Spec => []NoStaleResult
<1>1. Inv => NoStaleResult
  BY DEF Inv, Safe
<1>. QED
  BY Invariance, <1>1, PTL

(* Whatever step of a region switch fails, a running radio uses the        *)
(* channels of the region that GET reports.                                *)
THEOREM RadioObeysRegion == Spec => []RadioObeysReportedRegion
<1>1. Inv => RadioObeysReportedRegion
  BY DEF Inv, Safe
<1>. QED
  BY Invariance, <1>1, PTL

(* After mmwlan_deinit no callback that was in flight changes the status.  *)
THEOREM ReleasedStaysDisabled == Spec => []ReleasedIsDisabled
<1>1. Inv => ReleasedIsDisabled
  BY DEF Inv, Safe
<1>. QED
  BY Invariance, <1>1, PTL

(* An interface whose callback is registered leaves the dormant state only *)
(* with a link.                                                            *)
THEOREM DormantUntilLinked == Spec => []OperationalHasLink
<1>1. Inv => OperationalHasLink
  BY DEF Inv, Safe, DormantBeforeCallback
<1>. QED
  BY Invariance, <1>1, PTL

-----------------------------------------------------------------------------
(* The status and the link.                                                *)

(* What the status is to say, and may be told by callbacks only.           *)
Linked == vif_cb /\ link # None

(* The status, or during a scan the saved state, is right between two      *)
(* callbacks; a callback in progress is about to make it right.            *)
StatusKept ==
  /\ ~early /\ ~moved /\ ev = "idle" =>
       /\ scan = "none" \/ ScanRequestOpen => (status = "COMPLETED" <=> Linked)
       /\ scan # "none" /\ pc # "scan_prev" => (scan_prev_state = "COMPLETED" <=> Linked)
  /\ ev = "down" => link = None
  /\ ev = "up" => link # None
  /\ ~vif_cb => ev = "idle"

(* SCANNING is shown during a scan only, and is never the saved state.     *)
ScanningKept ==
  ~early =>
    /\ ScanRequestOpen => scan # "none"
    /\ scan = "none" \/ ScanRequestOpen => status # "SCANNING"
    /\ scan # "none" /\ pc # "scan_prev" => scan_prev_state # "SCANNING"

LEMMA StatusInit == Init => StatusKept /\ ScanningKept
BY DEF Init, InitialStatus, StatusKept, ScanningKept, Linked, ScanRequestOpen, ScanSteps

LEMMA StatusStep ==
  Inv /\ StatusKept /\ ScanningKept /\ [Next]_vars => StatusKept' /\ ScanningKept'
<1> SUFFICES ASSUME Inv, StatusKept, ScanningKept, [Next]_vars
             PROVE  StatusKept' /\ ScanningKept'
  OBVIOUS
<1> USE DEF Inv, TypeOK, Safe, StoppedIsQuiet, Quiet, Running, HandlerSeesLibrary,
        StatusKept, ScanningKept, Linked, ScanUnderWay, ScanRequestOpen, ScanSteps,
        ifvars, callvars, mmwlan, outvars, history,
        At, Goto, Return, Ready, StartReturns
<1>1. CASE Refuse
  BY <1>1, SMTT(30) DEF Refuse
<1>2. CASE Scan
  BY <1>2, SMTT(30) DEF Scan
<1>3. CASE ScanSavePrev
  BY <1>3, SMTT(30) DEF ScanSavePrev
<1>4. CASE ScanSetStatus
  BY <1>4, SMTT(30) DEF ScanSetStatus
<1>5. CASE Connect
  BY <1>5, SMTT(30) DEF Connect
<1>6. CASE Disconnect
  BY <1>6, SMTT(30) DEF Disconnect
<1>7. CASE SetRegion
  BY <1>7, SMTT(30) DEF SetRegion
<1>8. CASE SetShutdown
  BY <1>8, SMTT(30) DEF SetShutdown
<1>9. CASE SetStopped
  BY <1>9, SMTT(30) DEF SetStopped
<1>10. CASE SetClear
  BY <1>10, SMTT(30) DEF SetClear, ReleasedStatus
<1>11. CASE SetEnd
  BY <1>11, SMTT(30) DEF SetEnd, IfaceAfterSet
<1>12. CASE StartLookup
  BY <1>12, SMTT(30) DEF StartLookup
<1>13. CASE StartBoot
  BY <1>13, SMTT(30) DEF StartBoot
<1>14. CASE StartBooted
  BY <1>14, SMTT(30) DEF StartBooted
<1>15. CASE StartSetAddr
  BY <1>15, SMTT(30) DEF StartSetAddr
<1>16. CASE StartRegister
  BY <1>16, SMTT(30) DEF StartRegister
<1>17. CASE StartVersion
  BY <1>17, SMTT(30) DEF StartVersion
<1>18. CASE ScanResult
  BY <1>18, SMTT(30) DEF ScanResult
<1>19. CASE ScanComplete
  <2>1. /\ ev = "idle" /\ scan # "none" /\ scan' = "none" /\ status' = scan_prev_state
        /\ UNCHANGED <<pc, ev, link, vif_cb, moved, scan_prev_state>>
    BY <1>19 DEF ScanComplete, RestoredStatus
  <2>2. CASE ScanRequestOpen
    <3>1. early' = TRUE
      BY <1>19, <2>2 DEF ScanComplete
    <3>. QED
      BY <2>1, <3>1
  <2>3. CASE ~ScanRequestOpen
    <3>1. early' = early
      BY <1>19, <2>3 DEF ScanComplete
    <3>. QED
      BY <2>1, <2>3, <3>1
  <2>. QED
    BY <2>2, <2>3
<1>20. CASE LinkLost
  BY <1>20, SMTT(30) DEF LinkLost, LinkDownCallback
<1>21. CASE AttemptFails
  BY <1>21, SMTT(30) DEF AttemptFails, LinkDownCallback
<1>22. CASE LinkDownStatus
  BY <1>22, SMTT(30) DEF LinkDownStatus
<1>23. CASE LinkUp
  BY <1>23, SMTT(30) DEF LinkUp
<1>24. CASE LinkUpStatus
  BY <1>24, SMTT(30) DEF LinkUpStatus
<1>25. CASE UNCHANGED vars
  BY <1>25 DEF vars
<1>. QED
  BY <1>1, <1>2, <1>3, <1>4, <1>5, <1>6, <1>7, <1>8, <1>9, <1>10, <1>11,
     <1>12, <1>13, <1>14, <1>15, <1>16, <1>17, <1>18, <1>19, <1>20, <1>21,
     <1>22, <1>23, <1>24, <1>25
  DEF Next, Request, Handler, EventLoop

LEMMA StatusInvariance == Spec => [](StatusKept /\ ScanningKept)
<1>1. StatusKept /\ ScanningKept /\ Inv /\ [Next]_vars => (StatusKept /\ ScanningKept)'
  BY StatusStep
<1>. QED
  BY Invariance, StatusInit, <1>1, PTL DEF Spec

(* scan_complete_callback and mmnetif_vif_state leave a status that tells  *)
(* whether there is a link, for any networks, but for the two exceptions.  *)
THEOREM StatusAlwaysFollowsLink == Spec => []StatusFollowsLink
<1>1. StatusKept => StatusFollowsLink
  BY DEF StatusKept, StatusFollowsLink, Settled, Linked
<1>. QED
  BY StatusInvariance, <1>1, PTL

(* mmnetif_vif_state raises the disconnect event for every failed attempt  *)
(* of a station whose status it can trust.                                 *)
THEOREM FailedAttemptAlwaysReported == Spec => FailedAttemptReported
<1>1. Inv /\ StatusKept /\ ScanningKept /\ [Next]_vars =>
        [AttemptFails /\ vif_cb /\ VersionKnown /\ ~ScanUnderWay /\ ~early /\ ~moved
           => notified' = "disconnected"]_vars
  BY DEF Inv, TypeOK, IfaceStates, StatusKept, ScanningKept, Linked, AttemptFails,
         LinkDownCallback, ReportsLinkDown, VersionKnown, ScanUnderWay
<1>. QED
  BY Invariance, StatusInvariance, <1>1, PTL DEF Spec, FailedAttemptReported

-----------------------------------------------------------------------------
(* The region switch.                                                      *)

(* What wlan_start has done so far.                                        *)
StartProgress ==
  /\ pc \in {"boot", "booted", "addr", "register", "version"}
       => channel_list = region /\ region # World
  /\ pc \in {"addr", "register", "version"} => lib = "booted"
  /\ pc \in {"register", "version"} => if_up
  /\ pc = "version" => vif_cb

(* What a switch that is about to return 0 has done, and what nothing has  *)
(* undone since.                                                           *)
SwitchDone ==
  pc = "set_end" /\ ret = "ok" =>
    IF region = World
      THEN channel_list = None /\ mmwlan_state = "UNINITIALIZED"
      ELSE /\ channel_list = region /\ mmwlan_state = "INITIALIZED"
           /\ lib = "booted" /\ vif_cb /\ if_up /\ status = "INACTIVE"
           /\ Quiet

LEMMA SwitchInit == Init => StartProgress /\ SwitchDone
BY DEF Init, StartProgress, SwitchDone

LEMMA SwitchStep ==
  Inv /\ StartProgress /\ SwitchDone /\ [Next]_vars => StartProgress' /\ SwitchDone'
<1> SUFFICES ASSUME Inv, StartProgress, SwitchDone, [Next]_vars
             PROVE  StartProgress' /\ SwitchDone'
  OBVIOUS
<1> USE WifiStaAssumption
    DEF Inv, TypeOK, Safe, StoppedIsQuiet, Quiet, Running, HandlerSeesLibrary,
        HeldWhileUsed, StartProgress, SwitchDone, ScanSteps,
        ifvars, callvars, mmwlan, outvars, history,
        At, Goto, Return, Ready, StartReturns
<1>1. CASE Refuse
  BY <1>1, SMTT(30) DEF Refuse
<1>2. CASE Scan
  BY <1>2, SMTT(30) DEF Scan
<1>3. CASE ScanSavePrev
  BY <1>3, SMTT(30) DEF ScanSavePrev
<1>4. CASE ScanSetStatus
  BY <1>4, SMTT(30) DEF ScanSetStatus
<1>5. CASE Connect
  BY <1>5, SMTT(30) DEF Connect
<1>6. CASE Disconnect
  BY <1>6, SMTT(30) DEF Disconnect
<1>7. CASE SetRegion
  BY <1>7, SMTT(30) DEF SetRegion
<1>8. CASE SetShutdown
  BY <1>8, SMTT(30) DEF SetShutdown
<1>9. CASE SetStopped
  BY <1>9, SMTT(30) DEF SetStopped
<1>10. CASE SetClear
  BY <1>10, SMTT(30) DEF SetClear, ReleasedStatus
<1>11. CASE SetEnd
  BY <1>11, SMTT(30) DEF SetEnd, IfaceAfterSet
<1>12. CASE StartLookup
  BY <1>12, SMTT(30) DEF StartLookup
<1>13. CASE StartBoot
  BY <1>13, SMTT(30) DEF StartBoot
<1>14. CASE StartBooted
  BY <1>14, SMTT(30) DEF StartBooted
<1>15. CASE StartSetAddr
  BY <1>15, SMTT(30) DEF StartSetAddr
<1>16. CASE StartRegister
  <2>1. pc = "register" /\ UNCHANGED <<channel_list, region, lib>>
    BY <1>16 DEF StartRegister
  <2>2. CASE StartReturns("err")
    <3>1. ret' = "err" /\ pc' \in {"idle", "set_end"}
      BY <2>2
    <3>. QED
      BY <3>1
  <2>3. CASE vif_cb' = TRUE /\ pc' = "version" /\ if_up' = if_up
    BY <2>1, <2>3
  <2>. QED
    BY <1>16, <2>2, <2>3 DEF StartRegister
<1>17. CASE StartVersion
  <2>1. pc' \in {"idle", "set_end"}
    BY <1>17 DEF StartVersion
  <2>2. CASE ret' = "err"
    BY <2>1, <2>2
  <2>3. CASE status' = "INACTIVE"
    <3>1. region # World /\ channel_list = region /\ mmwlan_state = "INITIALIZED"
          /\ lib = "booted" /\ Quiet
      BY <1>17 DEF StartVersion
    <3>2. vif_cb' /\ if_up'
      BY <1>17 DEF StartVersion
    <3>3. UNCHANGED <<region, channel_list, mmwlan_state, lib, ev, scan, link, goal>>
      BY <1>17 DEF StartVersion
    <3>. QED
      BY <2>1, <2>3, <3>1, <3>2, <3>3
  <2>. QED
    BY <1>17, <2>2, <2>3 DEF StartVersion
<1>18. CASE ScanResult
  BY <1>18, SMTT(30) DEF ScanResult
<1>19. CASE ScanComplete
  BY <1>19, SMTT(30) DEF ScanComplete, RestoredStatus
<1>20. CASE LinkLost
  BY <1>20, SMTT(30) DEF LinkLost, LinkDownCallback
<1>21. CASE AttemptFails
  BY <1>21, SMTT(30) DEF AttemptFails, LinkDownCallback
<1>22. CASE LinkDownStatus
  BY <1>22, SMTT(30) DEF LinkDownStatus
<1>23. CASE LinkUp
  BY <1>23, SMTT(30) DEF LinkUp
<1>24. CASE LinkUpStatus
  BY <1>24, SMTT(30) DEF LinkUpStatus
<1>25. CASE UNCHANGED vars
  BY <1>25 DEF vars
<1>. QED
  BY <1>1, <1>2, <1>3, <1>4, <1>5, <1>6, <1>7, <1>8, <1>9, <1>10, <1>11,
     <1>12, <1>13, <1>14, <1>15, <1>16, <1>17, <1>18, <1>19, <1>20, <1>21,
     <1>22, <1>23, <1>24, <1>25
  DEF Next, Request, Handler, EventLoop

LEMMA SwitchInvariance == Spec => [](StartProgress /\ SwitchDone)
<1>1. StartProgress /\ SwitchDone /\ Inv /\ [Next]_vars => (StartProgress /\ SwitchDone)'
  BY SwitchStep
<1>. QED
  BY Invariance, SwitchInit, <1>1, PTL DEF Spec

(* For any regions, a reg_domain SET that returns 0 has released the radio *)
(* or started it in the region asked for, with a usable interface.         *)
THEOREM SuccessfulSetAlwaysTakesEffect == Spec => SuccessfulSetTakesEffect
<1>1. Inv /\ StartProgress /\ SwitchDone /\ [Next]_vars =>
        [SetReturnsOk =>
           /\ ReportedRegion' = region
           /\ IF region = World
                THEN mmwlan_state' = "UNINITIALIZED" /\ ~if_up'
                ELSE /\ mmwlan_state' = "INITIALIZED" /\ lib' = "booted"
                     /\ vif_cb' /\ if_up' /\ status' = "INACTIVE"]_vars
  <2> SUFFICES ASSUME Inv, SwitchDone, [Next]_vars, SetReturnsOk
               PROVE  /\ ReportedRegion' = region
                      /\ IF region = World
                           THEN mmwlan_state' = "UNINITIALIZED" /\ ~if_up'
                           ELSE /\ mmwlan_state' = "INITIALIZED" /\ lib' = "booted"
                                /\ vif_cb' /\ if_up' /\ status' = "INACTIVE"
    OBVIOUS
  <2>1. SetEnd
    BY DEF SetReturnsOk, Next, Request, Handler, EventLoop, Refuse, Scan, ScanSavePrev,
           ScanSetStatus, Connect, Disconnect, SetRegion, SetShutdown, SetStopped, SetClear,
           StartLookup, StartBoot, StartBooted, StartSetAddr, StartRegister, StartVersion,
           ScanResult, ScanComplete, LinkLost, AttemptFails, LinkDownStatus, LinkUp,
           LinkUpStatus, vars, callvars, At, Goto, Ready
  <2>2. /\ if_up' = (if_up /\ channel_list # None)
        /\ UNCHANGED <<mmwlan_state, channel_list, status, region, lib, vif_cb>>
    BY <2>1 DEF SetEnd, IfaceAfterSet, mmwlan
  <2>3. pc = "set_end" /\ ret = "ok"
    BY DEF SetReturnsOk
  <2>. QED
    BY <2>2, <2>3, WifiStaAssumption DEF SwitchDone, ReportedRegion, Inv, TypeOK
<1>. QED
  BY Invariance, SwitchInvariance, <1>1, PTL DEF Spec, SuccessfulSetTakesEffect
-----------------------------------------------------------------------------
(* The radio as it is seen from outside.                                   *)
RadioState == <<channel_list, lib, lib_list, scan, link>>

LEMMA PermitStep == Inv /\ [Next]_vars => [Radio!Next]_(Radio!permitVars)
<1> SUFFICES ASSUME Inv, [Next]_vars PROVE Radio!Next \/ UNCHANGED Radio!permitVars
  OBVIOUS
<1>0. TypeOK /\ StoppedIsQuiet /\ HandlerSeesLibrary /\ HeldWhileUsed /\ RadioObeysReportedRegion
  BY DEF Inv, Safe
<1>00. ASSUME UNCHANGED RadioState PROVE UNCHANGED Radio!permitVars
  BY <1>00 DEF RadioState, Radio!permitVars
<1> USE WifiStaAssumption
    DEF At, Goto, Return, Ready, StartReturns, ifvars, callvars, mmwlan, outvars, history
<1>1. CASE Refuse
  BY <1>00, <1>1 DEF Refuse, RadioState
<1>2. CASE Scan
  BY <1>0, <1>2 DEF Scan, TypeOK, RadioObeysReportedRegion, ReportedRegion, Radio!Next, Radio!Begin, Radio!permitVars
<1>3. CASE ScanSavePrev
  BY <1>00, <1>3 DEF ScanSavePrev, RadioState
<1>4. CASE ScanSetStatus
  BY <1>00, <1>4 DEF ScanSetStatus, RadioState
<1>5. CASE Connect
  BY <1>00, <1>5 DEF Connect, RadioState
<1>6. CASE Disconnect
  BY <1>00, <1>6 DEF Disconnect, RadioState
<1>7. CASE SetRegion
  BY <1>7 DEF SetRegion, Radio!permitVars
<1>8. CASE SetShutdown
  BY <1>0, <1>8 DEF SetShutdown, TypeOK, StoppedIsQuiet, Quiet, Running, HandlerSeesLibrary,
     RadioObeysReportedRegion, ReportedRegion, Radio!Next, Radio!Close, Radio!permitVars
<1>9. CASE SetStopped
  BY <1>0, <1>9 DEF SetStopped, TypeOK, StoppedIsQuiet, Quiet, Running, HandlerSeesLibrary,
     RadioObeysReportedRegion, ReportedRegion, Radio!Next, Radio!Closed, Radio!permitVars
<1>10. CASE SetClear
  BY <1>0, <1>10 DEF SetClear, ReleasedStatus, TypeOK, StoppedIsQuiet, Quiet, Running, HandlerSeesLibrary,
     RadioObeysReportedRegion, ReportedRegion, Radio!Next, Radio!Permit, Radio!permitVars
<1>11. CASE SetEnd
  BY <1>00, <1>11 DEF SetEnd, RadioState, IfaceAfterSet
<1>12. CASE StartLookup
  BY <1>0, <1>12 DEF StartLookup, TypeOK, StoppedIsQuiet, Quiet, Running, HandlerSeesLibrary,
     RadioObeysReportedRegion, ReportedRegion, Radio!Next, Radio!Permit, Radio!permitVars
<1>13. CASE StartBoot
  BY <1>0, <1>13 DEF StartBoot, TypeOK, StoppedIsQuiet, Quiet, Running, HandlerSeesLibrary,
     RadioObeysReportedRegion, ReportedRegion, Radio!Next, Radio!Open, Radio!permitVars
<1>14. CASE StartBooted
  BY <1>00, <1>14 DEF StartBooted, RadioState
<1>15. CASE StartSetAddr
  BY <1>00, <1>15 DEF StartSetAddr, RadioState
<1>16. CASE StartRegister
  BY <1>00, <1>16 DEF StartRegister, RadioState
<1>17. CASE StartVersion
  BY <1>00, <1>17 DEF StartVersion, RadioState
<1>18. CASE ScanResult
  BY <1>00, <1>18 DEF ScanResult, RadioState
<1>19. CASE ScanComplete
  BY <1>0, <1>19 DEF ScanComplete, RestoredStatus, ScanRequestOpen, TypeOK, StoppedIsQuiet, Quiet, Running, HandlerSeesLibrary,
     RadioObeysReportedRegion, ReportedRegion, Radio!Next, Radio!End, Radio!permitVars
<1>20. CASE LinkLost
  BY <1>0, <1>20 DEF LinkLost, LinkDownCallback, TypeOK, StoppedIsQuiet, Quiet, Running, HandlerSeesLibrary,
     RadioObeysReportedRegion, ReportedRegion, Radio!Next, Radio!End, Radio!permitVars
<1>21. CASE AttemptFails
  BY <1>00, <1>21 DEF AttemptFails, RadioState, LinkDownCallback
<1>22. CASE LinkDownStatus
  BY <1>00, <1>22 DEF LinkDownStatus, RadioState
<1>23. CASE LinkUp
  BY <1>0, <1>23 DEF LinkUp, TypeOK, StoppedIsQuiet, Quiet, Running, HandlerSeesLibrary,
     RadioObeysReportedRegion, ReportedRegion, Radio!Next, Radio!Begin, Radio!permitVars
<1>24. CASE LinkUpStatus
  BY <1>00, <1>24 DEF LinkUpStatus, RadioState
<1>25. CASE UNCHANGED vars
  BY <1>00, <1>25 DEF vars, RadioState
<1> QED BY <1>1, <1>2, <1>3, <1>4, <1>5, <1>6, <1>7, <1>8, <1>9, <1>10, <1>11, <1>12, <1>13, <1>14, <1>15, <1>16, <1>17, <1>18, <1>19, <1>20, <1>21, <1>22, <1>23, <1>24, <1>25
  DEF Next, Request, Handler, EventLoop

(* morsemicro_mgmt_reg_domain and morsemicro_wlan_start, whichever of      *)
(* their calls fail and whatever the event loop does between them, do      *)
(* nothing that RadioPermit does not allow.                                *)
THEOREM ImplementsRadioPermitSafely == Spec => Radio!Init /\ [][Radio!Next]_(Radio!permitVars)
<1>1. Init => Radio!Init
  BY DEF Init, Radio!Init
<1>2. Spec => []Inv
  BY Invariance
<1> QED BY <1>1, <1>2, PermitStep, PTL DEF Spec
=============================================================================
