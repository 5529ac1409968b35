------------------------------ MODULE OsalMutex ------------------------------
(***************************************************************************)
(* The mutex of shims/mmosal.c: a recursive Zephyr k_mutex and, beside it, *)
(* the owner that mmosal_mutex_is_held_by_active_task compares with the    *)
(* calling task.  The owner is written outside the lock's own atomicity:   *)
(* after the lock is taken and after it is given back.                     *)
(***************************************************************************)
EXTENDS Naturals

CONSTANTS
  MutexTasks,  (* tasks that use the mutex                                 *)
  NoTask,      (* NULL                                                     *)
  MaxNesting   (* bound: how often one task takes the mutex                *)

ASSUME MutexAssumption == NoTask \notin MutexTasks /\ MaxNesting \in Nat \ {0}

VARIABLES
  holder,      (* the k_mutex: who holds it                                *)
  nesting,     (* the k_mutex: how often                                   *)
  owner,       (* mmosal_mutex.owner                                       *)
  mutexPc,     (* where each task is in a call                             *)
  blurred      (* history: the last store to owner was a release's, made   *)
               (* while the mutex was held                                 *)

mutexVars == <<holder, nesting, owner, mutexPc, blurred>>

MutexTypeOK ==
  /\ holder \in MutexTasks \union {NoTask}
  /\ nesting \in Nat
  /\ owner \in MutexTasks \union {NoTask}
  /\ mutexPc \in [MutexTasks -> {"idle", "own", "disown", "delete"}]
  /\ blurred \in BOOLEAN

(* mmosal_mutex_create                                                     *)
Fresh(h, n, o) == h = NoTask /\ n = 0 /\ o = NoTask

MutexInit ==
  /\ Fresh(holder, nesting, owner)
  /\ mutexPc = [t \in MutexTasks |-> "idle"]
  /\ blurred = FALSE

MutexStep(t, from, to) ==
  mutexPc[t] = from /\ mutexPc' = [mutexPc EXCEPT ![t] = to]

(* k_mutex_lock and k_mutex_unlock, which only the holder may call.        *)
KMutexLock(t) ==
  /\ holder \in {NoTask, t} /\ nesting < MaxNesting
  /\ holder' = t
  /\ nesting' = nesting + 1

KMutexUnlock(t) ==
  /\ holder = t
  /\ nesting' = nesting - 1
  /\ holder' = IF nesting = 1 THEN NoTask ELSE t

(***************************************************************************)
(* mmosal_mutex_get: the lock, then the owner.  When the lock is not had   *)
(* in time the call returns false and has changed nothing.                 *)
(***************************************************************************)
(* Mutant: the owner is stored before the lock is taken.                   *)
MutexGetOwnerFirst(t) ==
  /\ MutexStep(t, "idle", "own")
  /\ owner' = t
  /\ UNCHANGED <<holder, nesting, blurred>>

MutexGet(t) ==
  /\ MutexStep(t, "idle", "own")
  /\ KMutexLock(t)
  /\ UNCHANGED <<owner, blurred>>

MutexSetOwner(t) ==
  /\ MutexStep(t, "own", "idle")
  /\ owner' = t
  /\ blurred' = FALSE
  /\ UNCHANGED <<holder, nesting>>

(***************************************************************************)
(* mmosal_mutex_release: the lock, then the owner, also when the release   *)
(* is an inner one or another task has taken the mutex since.              *)
(***************************************************************************)
MutexRelease(t) ==
  /\ MutexStep(t, "idle", "disown")
  /\ KMutexUnlock(t)
  /\ UNCHANGED <<owner, blurred>>

MutexClearOwner(t) ==
  /\ MutexStep(t, "disown", "idle")
  /\ owner' = NoTask
  /\ blurred' = (holder # NoTask)
  /\ UNCHANGED <<holder, nesting>>

(***************************************************************************)
(* mmosal_mutex_delete releases the mutex (in vain if the caller does not  *)
(* hold it), then frees it; the next mutex is made in the same place.  Its *)
(* user has seen to it that no other task is in a call or holds it.        *)
(***************************************************************************)
MutexDelete(t) ==
  /\ \A u \in MutexTasks : mutexPc[u] = "idle"
  /\ MutexStep(t, "idle", "delete")
  /\ \/ KMutexUnlock(t) /\ nesting = 1 /\ owner' = NoTask /\ blurred' = FALSE
     \/ holder = NoTask /\ UNCHANGED <<holder, nesting, owner, blurred>>

MutexCreate(t) ==
  /\ MutexStep(t, "delete", "idle")
  /\ Fresh(holder', nesting', owner')
  /\ blurred' = FALSE

(* No task is in a call on a mutex that has been deleted.                  *)
MutexAlive == \A t \in MutexTasks : mutexPc[t] # "delete"

MutexNext ==
  \E t \in MutexTasks :
    \/ MutexAlive /\ MutexGet(t)
    \/ MutexSetOwner(t)
    \/ MutexAlive /\ MutexRelease(t)
    \/ MutexClearOwner(t)
    \/ MutexDelete(t)
    \/ MutexCreate(t)

MutexSpec == MutexInit /\ [][MutexNext]_mutexVars

(* mmosal_mutex_is_held_by_active_task, called by t between its own calls. *)
IsHeldBy(t) == owner = t

(* However gets and releases of several tasks interleave, a task that asks *)
(* is never told that it holds a mutex which it does not hold; and it is   *)
(* told that it does, unless a release's store of NULL came after its own  *)
(* get, from an inner release or from a task overtaken in its release.     *)
HeldAnswerSound ==
  \A t \in MutexTasks : mutexPc[t] = "idle" =>
    /\ IsHeldBy(t) => holder = t
    /\ holder = t /\ ~IsHeldBy(t) => blurred
=============================================================================
