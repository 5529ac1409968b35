------------------------------- MODULE MCOsal -------------------------------
(***************************************************************************)
(* The services of the OS abstraction and the deep-sleep vetoes side by    *)
(* side, for TLC.  They share no state, so a behaviour uses one of them,   *)
(* chosen in its first state.                                              *)
(***************************************************************************)
EXTENDS OsalMutex, OsalCritical, OsalSignal, OsalTask, OsalTimer, DeepSleepVeto

VARIABLE service

vars == <<service, mutexVars, criticalVars, signalVars, taskVars, timerVars, vetoVars>>

Init ==
  /\ service \in {"mutex", "critical", "signal", "task", "timer", "veto"}
  /\ MutexInit /\ CriticalInit /\ SignalInit /\ TaskInit /\ VetoInit
  /\ TimerInit /\ period = CHOOSE p \in Periods : TRUE
  /\ service # "signal" => binary

Next ==
  /\ UNCHANGED service
  /\ \/ service = "mutex" /\ MutexNext
        /\ UNCHANGED <<criticalVars, signalVars, taskVars, timerVars, vetoVars>>
     \/ service = "critical" /\ CriticalNext
        /\ UNCHANGED <<mutexVars, signalVars, taskVars, timerVars, vetoVars>>
     \/ service = "signal" /\ SignalNext
        /\ UNCHANGED <<mutexVars, criticalVars, taskVars, timerVars, vetoVars>>
     \/ service = "task" /\ TaskNext
        /\ UNCHANGED <<mutexVars, criticalVars, signalVars, timerVars, vetoVars>>
     \/ service = "timer" /\ TimerNext
        /\ UNCHANGED <<mutexVars, criticalVars, signalVars, taskVars, vetoVars>>
     \/ service = "veto" /\ VetoNext
        /\ UNCHANGED <<mutexVars, criticalVars, signalVars, taskVars, timerVars>>

(* A service that is not used has nothing to be fair about.                *)
Fairness == service = "signal" => SignalFairness

Spec == Init /\ [][Next]_vars /\ Fairness
=============================================================================
