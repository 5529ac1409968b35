---------------------------- MODULE DeepSleepVeto ----------------------------
(***************************************************************************)
(* The deep-sleep vetoes of mmhal_core.c.  Clients of the HAL (morselib's  *)
(* threads, the application) set and clear vetoes in a shared bit mask and *)
(* mirror it into the device's PM busy flag; the kernel's power management *)
(* looks at the flag first and at the mask, through morsemicro_pm_action,  *)
(* second.  The mask is atomic, the mask and the flag together are not.    *)
(***************************************************************************)
EXTENDS Integers

CONSTANT Ids   (* veto identifiers; each belongs to one client *)

(* The mask has 32 bits. *)
ASSUME DeepSleepVetoAssumption == Ids \subseteq 0..31

VARIABLES
  deep_sleep_vetos, (* the identifiers whose bit is set                    *)
  busy,             (* pm_device_busy_set / pm_device_busy_clear           *)
  pc,               (* where the client of each identifier is in a call    *)
  suspended,        (* the device has been suspended                       *)
  stale,            (* history: clients on their way to clear the flag     *)
                    (* that a set has overtaken since they saw the mask    *)
  lost              (* history: one of those has cleared the flag of a     *)
                    (* veto, and nobody has set it since                   *)

vetoVars == <<deep_sleep_vetos, busy, pc, suspended, stale, lost>>

VetoTypeOK ==
  /\ deep_sleep_vetos \subseteq Ids
  /\ busy \in BOOLEAN
  /\ pc \in [Ids -> {"idle", "set_busy", "clear_test", "clear_busy"}]
  /\ suspended \in BOOLEAN
  /\ stale \subseteq Ids /\ lost \in BOOLEAN

VetoInit ==
  /\ deep_sleep_vetos = {}
  /\ busy = FALSE
  /\ pc = [i \in Ids |-> "idle"]
  /\ suspended = FALSE
  /\ stale = {} /\ lost = FALSE

Step(i, from, to) == pc[i] = from /\ pc' = [pc EXCEPT ![i] = to]

Bit(i) == {i}                                        (* 1ul << veto_id *)

(***************************************************************************)
(* mmhal_set_deep_sleep_veto: the bit first, then the flag.  No client     *)
(* runs while the device is suspended: the kernel resumes it first.        *)
(***************************************************************************)
SetVeto(i) ==
  /\ ~suspended
  /\ Step(i, "idle", "set_busy")
  /\ deep_sleep_vetos' = deep_sleep_vetos \union Bit(i)
  /\ stale' = stale \union {j \in Ids : pc[j] = "clear_busy"}
  /\ UNCHANGED <<busy, suspended, lost>>

SetBusy(i) ==
  /\ Step(i, "set_busy", "idle")
  /\ busy' = TRUE /\ lost' = FALSE
  /\ UNCHANGED <<deep_sleep_vetos, suspended, stale>>

(***************************************************************************)
(* mmhal_clear_deep_sleep_veto: clear the bit, read the mask again, and    *)
(* clear the flag when the mask was seen empty.                            *)
(***************************************************************************)
(* Mutant: the mask that atomic_fetch_and returns is the one tested.       *)
ClearVetoOldMask(i) ==
  /\ ~suspended
  /\ Step(i, "idle", IF deep_sleep_vetos = {} THEN "clear_busy" ELSE "idle")
  /\ deep_sleep_vetos' = deep_sleep_vetos \ Bit(i)
  /\ UNCHANGED <<busy, suspended, stale, lost>>

ClearVeto(i) ==
  /\ ~suspended
  /\ Step(i, "idle", "clear_test")
  /\ deep_sleep_vetos' = deep_sleep_vetos \ Bit(i)
  /\ UNCHANGED <<busy, suspended, stale, lost>>

(* Mutant: the flag is cleared whatever other vetoes there are.            *)
ClearTestSkipped(i) ==
  /\ Step(i, "clear_test", "clear_busy")
  /\ UNCHANGED <<deep_sleep_vetos, busy, suspended, stale, lost>>

ClearTest(i) ==
  /\ Step(i, "clear_test",
          IF deep_sleep_vetos = {} THEN "clear_busy" ELSE "idle")
  /\ UNCHANGED <<deep_sleep_vetos, busy, suspended, stale, lost>>

ClearBusy(i) ==
  /\ Step(i, "clear_busy", "idle")
  /\ busy' = FALSE
  /\ stale' = stale \ {i}
  /\ lost' = (lost \/ i \in stale)
  /\ UNCHANGED <<deep_sleep_vetos, suspended>>

(***************************************************************************)
(* System power management, from the idle thread: no client is in a call.  *)
(* A busy device is passed over; any other gets PM_DEVICE_ACTION_SUSPEND,  *)
(* which morsemicro_pm_action refuses with -EBUSY while there is a veto.   *)
(***************************************************************************)
AtRest == \A i \in Ids : pc[i] = "idle"

SuspendAllowed == deep_sleep_vetos = {}

Suspend ==
  /\ AtRest
  /\ ~suspended
  /\ ~busy
  /\ SuspendAllowed
  /\ suspended' = TRUE
  /\ UNCHANGED <<deep_sleep_vetos, busy, pc, stale, lost>>

Resume ==
  /\ suspended
  /\ suspended' = FALSE
  /\ UNCHANGED <<deep_sleep_vetos, busy, pc, stale, lost>>

VetoNext ==
  \/ \E i \in Ids : \/ SetVeto(i) \/ SetBusy(i)
                    \/ ClearVeto(i) \/ ClearTest(i) \/ ClearBusy(i)
  \/ Suspend
  \/ Resume

VetoSpec == VetoInit /\ [][VetoNext]_vetoVars

-----------------------------------------------------------------------------
(* A veto whose mmhal_set_deep_sleep_veto has returned is in the busy flag *)
(* as well as in the mask: however many set and clear at once, the flag is *)
(* lost only to a clear that tested the mask before a set and reached the  *)
(* flag after it.  Then morsemicro_pm_action's look at the mask is all     *)
(* that keeps the device awake.                                            *)
FlagLostOnlyByOvertaking ==
  (\E i \in deep_sleep_vetos : pc[i] = "idle") /\ ~lost => busy

(* The flag does not outlive the vetoes: with the last veto cleared and no *)
(* call under way the device may sleep.                                    *)
BusyNotStuck == AtRest /\ deep_sleep_vetos = {} => ~busy
=============================================================================
