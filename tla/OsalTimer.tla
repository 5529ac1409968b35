------------------------------ MODULE OsalTimer ------------------------------
(***************************************************************************)
(* A timer of shims/mmosal.c.  Tasks start it, stop it, change its period  *)
(* and delete it; the kernel counts and calls mmosal_timer_expiry_fn from  *)
(* the clock interrupt, whose callback may use the same functions.         *)
(***************************************************************************)
EXTENDS Naturals

CONSTANT Periods  (* bound: the periods used, in ticks                     *)

ASSUME TimerAssumption == Periods \subseteq Nat \ {0} /\ Periods # {}

VARIABLES
  timerAlive, (* the block exists                                          *)
  period,     (* mmosal_timer.period                                       *)
  reload,     (* mmosal_timer.reload                                       *)
  remaining,  (* the k_timer: ticks to the next expiry; 0 when inactive    *)
  interval,   (* the k_timer: its period; 0 for K_FOREVER                  *)
  age,        (* history: ticks since the last start, stop or expiry       *)
  due,        (* history: what the user last asked for: the ticks to the   *)
              (* next callback, 0 for none                                 *)
  calls       (* history: callbacks since the last start, two at most      *)

timerVars == <<timerAlive, period, reload, remaining, interval, age, due, calls>>

(* mmosal_timer_create                                                     *)
TimerCreate ==
  /\ ~timerAlive /\ timerAlive' = TRUE
  /\ period' \in Periods
  /\ reload' \in BOOLEAN
  /\ remaining' = 0 /\ interval' = 0 /\ age' = 0 /\ due' = 0 /\ calls' = 0

TimerInit ==
  /\ timerAlive = FALSE
  /\ period \in Periods /\ reload = FALSE
  /\ remaining = 0 /\ interval = 0 /\ age = 0 /\ due = 0 /\ calls = 0

(* k_timer_start as mmosal_timer_start calls it.                           *)
(* Mutant: every timer repeats.                                            *)
KTimerStartRepeats(p) ==
  /\ remaining' = p
  /\ interval' = p

KTimerStart(p) ==
  /\ remaining' = p
  /\ interval' = IF reload THEN p ELSE 0

TimerStart ==
  /\ timerAlive
  /\ KTimerStart(period)
  /\ age' = 0 /\ due' = period /\ calls' = 0
  /\ UNCHANGED <<timerAlive, period, reload>>

TimerStop ==
  /\ timerAlive
  /\ remaining' = 0
  /\ age' = 0 /\ due' = 0
  /\ UNCHANGED <<timerAlive, period, reload, interval, calls>>

(* mmosal_timer_change_period starts the timer again, running or not.      *)
TimerChangePeriod(p) ==
  /\ timerAlive
  /\ period' = p
  /\ KTimerStart(p)
  /\ age' = 0 /\ due' = p /\ calls' = 0
  /\ UNCHANGED <<timerAlive, reload>>

TimerDelete ==
  /\ timerAlive /\ timerAlive' = FALSE
  /\ remaining' = 0
  /\ age' = 0 /\ due' = 0
  /\ UNCHANGED <<period, reload, interval, calls>>

(* The clock: a tick at the end of which the timer does not expire yet.    *)
Tick ==
  /\ remaining > 1
  /\ remaining' = remaining - 1
  /\ age' = age + 1
  /\ UNCHANGED <<timerAlive, period, reload, interval, due, calls>>

(* mmosal_timer_expiry_fn, with the next expiry already set by the kernel. *)
TimerExpiry ==
  /\ remaining = 1
  /\ remaining' = interval
  /\ age' = 0 /\ due' = (IF reload THEN period ELSE 0)
  /\ calls' = IF calls < 2 THEN calls + 1 ELSE 2
  /\ UNCHANGED <<timerAlive, period, reload, interval>>

TimerNext ==
  \/ TimerCreate \/ TimerStart \/ TimerStop \/ TimerDelete
  \/ \E p \in Periods : TimerChangePeriod(p)
  \/ Tick \/ TimerExpiry

TimerSpec == TimerInit /\ [][TimerNext]_timerVars

(* mmosal_is_timer_active                                                  *)
IsTimerActive == remaining # 0

(* The callback comes exactly when the last start, stop, change of period  *)
(* or expiry makes it due: never early or late after a change of period,   *)
(* never after a stop or on a freed block, once only for a one-shot timer. *)
TimerFiresWhenDue ==
  /\ IsTimerActive <=> due # 0
  /\ IsTimerActive => timerAlive /\ remaining + age = due
  /\ calls = 2 => reload
=============================================================================
