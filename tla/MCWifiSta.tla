----------------------------- MODULE MCWifiSta -----------------------------
(***************************************************************************)
(* Instances of WifiSta for TLC.  Four regions cover every outcome of the  *)
(* region lookup: two complete ones, one without a channel list and one    *)
(* without radio parameters.                                               *)
(***************************************************************************)
EXTENDS WifiSta

MCRegions      == {"AU", "JP", "NoList", "NoBcf"}
MCBcfRegions   == {"AU", "JP", "NoList"}
MCRegdbRegions == {"AU", "JP", "NoBcf"}
=============================================================================
