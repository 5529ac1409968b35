---------------------------- MODULE OsalCritical ----------------------------
(***************************************************************************)
(* mmosal_task_enter_critical and _exit_critical of shims/mmosal.c, which  *)
(* are mmosal_disable_interrupts and _enable_interrupts as well.  The      *)
(* state irq_lock returns goes into one global, irq_lock_key, shared by    *)
(* all tasks and by all levels of nesting.                                 *)
(***************************************************************************)
EXTENDS Naturals

CONSTANTS
  CriticalTasks,  (* tasks that use critical sections                      *)
  MaxSections     (* bound: how deep one task nests them                   *)

ASSUME CriticalAssumption == MaxSections \in Nat \ {0}

VARIABLES
  masked,         (* interrupts are disabled                               *)
  irq_lock_key,   (* the state irq_lock returned: "masked" or "open"       *)
  sections,       (* how many sections each task is in                     *)
  nested          (* history: a section has been entered inside another    *)

criticalVars == <<masked, irq_lock_key, sections, nested>>

CriticalInit ==
  /\ masked = FALSE
  /\ irq_lock_key = "masked"                                        (* -1 *)
  /\ sections = [t \in CriticalTasks |-> 0]
  /\ nested = FALSE

(* With interrupts disabled the running task is not preempted: only the    *)
(* one that disabled them runs.                                            *)
MayRun(t) == masked => sections[t] > 0 \/ \A u \in CriticalTasks : sections[u] = 0

(* irq_lock masks before it returns, so its caller is alone when it        *)
(* stores the key.                                                         *)
(* Mutant: the key is stored, the mask is left to the caller.              *)
EnterCriticalUnmasked(t) ==
  /\ MayRun(t) /\ sections[t] < MaxSections
  /\ irq_lock_key' = (IF masked THEN "masked" ELSE "open")
  /\ sections' = [sections EXCEPT ![t] = @ + 1]
  /\ nested' = (nested \/ sections[t] > 0)
  /\ UNCHANGED masked

EnterCritical(t) ==
  /\ MayRun(t) /\ sections[t] < MaxSections
  /\ irq_lock_key' = (IF masked THEN "masked" ELSE "open")
  /\ masked' = TRUE
  /\ sections' = [sections EXCEPT ![t] = @ + 1]
  /\ nested' = (nested \/ sections[t] > 0)

ExitCritical(t) ==
  /\ MayRun(t) /\ sections[t] > 0
  /\ masked' = (irq_lock_key = "masked")
  /\ sections' = [sections EXCEPT ![t] = @ - 1]
  /\ UNCHANGED <<irq_lock_key, nested>>

CriticalNext ==
  \E t \in CriticalTasks : EnterCritical(t) \/ ExitCritical(t)

CriticalSpec == CriticalInit /\ [][CriticalNext]_criticalVars

Inside == {t \in CriticalTasks : sections[t] > 0}

(* One key is enough for any number of tasks as long as none nests its     *)
(* sections: at most one task is inside, with interrupts disabled, and     *)
(* they are enabled again as soon as none is.  (After a nested section the *)
(* key of the outer one is lost and interrupts stay disabled.)             *)
OneKeySuffices ==
  ~nested =>
    /\ \A t, u \in Inside : t = u
    /\ masked <=> Inside # {}
=============================================================================
