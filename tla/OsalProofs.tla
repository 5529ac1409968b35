----------------------------- MODULE OsalProofs -----------------------------
(***************************************************************************)
(* Proofs about the services of the OS abstraction, for any set of tasks,  *)
(* any depth of nesting and any periods, and about the HAL's vetoes.       *)
(***************************************************************************)
EXTENDS OsalMutex, OsalCritical, OsalSignal, OsalTask, OsalTimer, DeepSleepVeto, TLAPS

(***************************************************************************)
(* The mutex.  A task that has yet to store its name holds the lock, and a *)
(* mutex that is being deleted has no other user.                          *)
(***************************************************************************)
StorerHolds == \A t \in MutexTasks : mutexPc[t] = "own" => holder = t
DeleterAlone ==
  \A t, u \in MutexTasks : mutexPc[t] = "delete" /\ mutexPc[u] # "idle" => t = u
NestingCounts == (holder = NoTask) <=> (nesting = 0)

MutexInv ==
  MutexTypeOK /\ HeldAnswerSound /\ StorerHolds /\ DeleterAlone /\ NestingCounts

LEMMA MutexInvInit == MutexInit => MutexInv
<1> SUFFICES ASSUME MutexInit PROVE MutexInv
  OBVIOUS
<1> USE MutexAssumption DEF MutexInit, Fresh
<1>1. \A t \in MutexTasks : mutexPc[t] = "idle"
  OBVIOUS
<1>2. MutexTypeOK
  BY DEF MutexTypeOK
<1>3. HeldAnswerSound
  BY DEF HeldAnswerSound, IsHeldBy
<1> QED BY <1>1, <1>2, <1>3 DEF MutexInv, StorerHolds, DeleterAlone, NestingCounts

(* One step per call, or half of a call.                                   *)
LEMMA MutexInvStep == MutexInv /\ [MutexNext]_mutexVars => MutexInv'
<1> SUFFICES ASSUME MutexInv, [MutexNext]_mutexVars PROVE MutexInv'
  OBVIOUS
<1> USE MutexAssumption
    DEF MutexInv, MutexTypeOK, HeldAnswerSound, IsHeldBy, StorerHolds,
        DeleterAlone, NestingCounts, MutexStep
<1>1. ASSUME NEW t \in MutexTasks, MutexAlive, MutexGet(t) PROVE MutexInv'
  BY <1>1 DEF MutexAlive, MutexGet, KMutexLock
<1>2. ASSUME NEW t \in MutexTasks, MutexSetOwner(t) PROVE MutexInv'
  BY <1>2 DEF MutexSetOwner
<1>3. ASSUME NEW t \in MutexTasks, MutexAlive, MutexRelease(t) PROVE MutexInv'
  BY <1>3 DEF MutexAlive, MutexRelease, KMutexUnlock
<1>4. ASSUME NEW t \in MutexTasks, MutexClearOwner(t) PROVE MutexInv'
  BY <1>4 DEF MutexClearOwner
<1>5. ASSUME NEW t \in MutexTasks, MutexDelete(t) PROVE MutexInv'
  <2>1. \A u \in MutexTasks : mutexPc[u] = "idle"
    BY <1>5 DEF MutexDelete
  <2>2. mutexPc' = [mutexPc EXCEPT ![t] = "delete"]
    BY <1>5 DEF MutexDelete
  <2>3. CASE UNCHANGED <<holder, nesting, owner, blurred>>
    BY <2>1, <2>2, <2>3
  <2>4. CASE KMutexUnlock(t) /\ nesting = 1 /\ owner' = NoTask /\ blurred' = FALSE
    <3>1. holder' = NoTask /\ nesting' = 0
      BY <2>4 DEF KMutexUnlock
    <3> QED BY <2>1, <2>2, <2>4, <3>1
  <2> QED BY <1>5, <2>3, <2>4 DEF MutexDelete
<1>6. ASSUME NEW t \in MutexTasks, MutexCreate(t) PROVE MutexInv'
  BY <1>6 DEF MutexCreate, Fresh
<1>7. ASSUME UNCHANGED mutexVars PROVE MutexInv'
  BY <1>7 DEF mutexVars
<1> QED BY <1>1, <1>2, <1>3, <1>4, <1>5, <1>6, <1>7 DEF MutexNext

(* mmosal_mutex_is_held_by_active_task never claims a mutex for a task     *)
(* that does not hold it, and disowns one that does only after another     *)
(* store of a release, for any number of tasks and any nesting.            *)
THEOREM HeldAnswerAlwaysSound == MutexSpec => []HeldAnswerSound
<1>1. MutexInv => HeldAnswerSound
  BY DEF MutexInv
<1> QED BY <1>1, MutexInvInit, MutexInvStep, PTL DEF MutexSpec

(***************************************************************************)
(* Critical sections.  Until sections have been nested a task is in one at *)
(* most, and the key of a masked processor is the open one.                *)
(***************************************************************************)
CriticalTypeOK ==
  /\ masked \in BOOLEAN /\ nested \in BOOLEAN
  /\ sections \in [CriticalTasks -> Nat]

FlatSections ==
  ~nested => /\ \A t \in CriticalTasks : sections[t] \in {0, 1}
             /\ masked => irq_lock_key = "open"

CriticalInv == CriticalTypeOK /\ FlatSections /\ OneKeySuffices

LEMMA CriticalInvInit == CriticalInit => CriticalInv
<1> SUFFICES ASSUME CriticalInit PROVE CriticalInv
  OBVIOUS
<1>1. ~masked /\ ~nested /\ \A t \in CriticalTasks : sections[t] = 0
  BY DEF CriticalInit
<1>2. CriticalTypeOK
  BY DEF CriticalInit, CriticalTypeOK
<1>3. Inside = {}
  BY <1>1 DEF Inside
<1> QED BY <1>1, <1>2, <1>3 DEF CriticalInv, FlatSections, OneKeySuffices

LEMMA CriticalInvStep == CriticalInv /\ [CriticalNext]_criticalVars => CriticalInv'
<1> SUFFICES ASSUME CriticalInv, [CriticalNext]_criticalVars PROVE CriticalInv'
  OBVIOUS
<1> USE DEF CriticalInv, CriticalTypeOK, FlatSections, OneKeySuffices, Inside, MayRun
<1>1. ASSUME NEW t \in CriticalTasks, EnterCritical(t) PROVE CriticalInv'
  BY <1>1 DEF EnterCritical
<1>2. ASSUME NEW t \in CriticalTasks, ExitCritical(t) PROVE CriticalInv'
  BY <1>2 DEF ExitCritical
<1>3. ASSUME UNCHANGED criticalVars PROVE CriticalInv'
  BY <1>3 DEF criticalVars
<1> QED BY <1>1, <1>2, <1>3 DEF CriticalNext

(* The one irq_lock_key of mmosal.c serves any number of tasks that do not *)
(* nest their critical sections.                                           *)
THEOREM OneKeyAlwaysSuffices == CriticalSpec => []OneKeySuffices
<1>1. CriticalInv => OneKeySuffices
  BY DEF CriticalInv
<1> QED BY <1>1, CriticalInvInit, CriticalInvStep, PTL DEF CriticalSpec

(***************************************************************************)
(* Semaphores: the safety half of ItemsAreHandled.                         *)
(***************************************************************************)
SignalInv ==
  /\ count \in Nat
  /\ producerPc \in [Producers -> {"idle", "pushed", "give"}]
  /\ ItemsAreSignalled

LEMMA SignalInvInit == SignalInit => SignalInv
BY DEF SignalInit, SignalInv, ItemsAreSignalled

LEMMA SignalInvStep == SignalInv /\ [SignalNext]_signalVars => SignalInv'
<1> SUFFICES ASSUME SignalInv, [SignalNext]_signalVars PROVE SignalInv'
  OBVIOUS
<1> USE SignalAssumption DEF SignalInv, ItemsAreSignalled, Produce
<1>1. ASSUME NEW p \in Producers, QueuePush(p) PROVE SignalInv'
  BY <1>1 DEF QueuePush
<1>2. ASSUME NEW p \in Producers, SemGive(p) \/ SembGive(p) PROVE SignalInv'
  BY <1>2 DEF SemGive, SembGive
<1>3. ASSUME NEW p \in Producers, KSemGive(p) PROVE SignalInv'
  BY <1>3 DEF KSemGive, Limit
<1>4. ASSUME SemWait \/ SembWait PROVE SignalInv'
  BY <1>4 DEF SemWait, SembWait, SemTake
<1>5. ASSUME QueuePop PROVE SignalInv'
  BY <1>5 DEF QueuePop
<1>6. ASSUME SignalDelete PROVE SignalInv'
  BY <1>6 DEF SignalDelete
<1>7. ASSUME UNCHANGED signalVars PROVE SignalInv'
  BY <1>7 DEF signalVars
<1> QED BY <1>1, <1>2, <1>3, <1>4, <1>5, <1>6, <1>7 DEF SignalNext

(* No refused or saturated give of mmosal_sem_give and mmosal_semb_give    *)
(* leaves an item in the queue that nobody will see to.                    *)
THEOREM ItemsAlwaysSignalled == SignalSpec => []ItemsAreSignalled
<1>1. SignalInv => ItemsAreSignalled
  BY DEF SignalInv
<1> QED BY <1>1, SignalInvInit, SignalInvStep, PTL DEF SignalSpec

(***************************************************************************)
(* Tasks.  What each step of mmosal_task_create has allocated.             *)
(***************************************************************************)
TaskOwns(t) ==
  /\ taskState[t] = "creating" => metadata[t] /\ ~stack[t]
  /\ taskState[t] = "suspended" => metadata[t] /\ stack[t]
  /\ taskState[t] \in {"tagged", "running"} => metadata[t] /\ stack[t] /\ custom_data[t]
  /\ taskState[t] \in {"none", "ended"} => ~metadata[t] /\ ~stack[t]

TaskInv ==
  /\ taskState \in [Tasks -> {"none", "creating", "suspended", "tagged", "running", "ended"}]
  /\ stack \in [Tasks -> BOOLEAN]
  /\ metadata \in [Tasks -> BOOLEAN]
  /\ custom_data \in [Tasks -> BOOLEAN]
  /\ \A t \in Tasks : TaskOwns(t)

LEMMA TaskInvInit == TaskInit => TaskInv
BY DEF TaskInit, TaskInv, TaskOwns

LEMMA TaskInvStep == TaskInv /\ [TaskNext]_taskVars => TaskInv'
<1> SUFFICES ASSUME TaskInv, [TaskNext]_taskVars PROVE TaskInv'
  OBVIOUS
<1> USE DEF TaskInv, TaskOwns, TaskStep
<1>1. ASSUME NEW t \in Tasks, MetadataCreate(t) PROVE TaskInv'
  BY <1>1 DEF MetadataCreate
<1>2. ASSUME NEW t \in Tasks, StackAlloc(t) PROVE TaskInv'
  <2>1. CASE TaskStep(t, "creating", "suspended") /\ stack' = [stack EXCEPT ![t] = TRUE]
                /\ UNCHANGED <<metadata, custom_data>>
    BY <2>1
  <2>2. CASE TaskStep(t, "creating", "none") /\ metadata' = [metadata EXCEPT ![t] = FALSE]
                /\ UNCHANGED <<stack, custom_data>>
    BY <2>2
  <2> QED BY <1>2, <2>1, <2>2 DEF StackAlloc
<1>3. ASSUME NEW t \in Tasks, SetCustomData(t) PROVE TaskInv'
  BY <1>3 DEF SetCustomData
<1>4. ASSUME NEW t \in Tasks, TaskStart(t) PROVE TaskInv'
  BY <1>4 DEF TaskStart
<1>5. ASSUME NEW t \in Tasks, TaskEnds(t) PROVE TaskInv'
  BY <1>5 DEF TaskEnds, AbortHook
<1>6. ASSUME NEW j \in Joiners, NEW t \in Tasks, TaskJoin(j, t) PROVE TaskInv'
  BY <1>6 DEF TaskJoin
<1>7. ASSUME UNCHANGED taskVars PROVE TaskInv'
  BY <1>7 DEF taskVars
<1> QED BY <1>1, <1>2, <1>3, <1>4, <1>5, <1>6, <1>7 DEF TaskNext

(* No task that has ended, or that mmosal_task_create could not create,    *)
(* keeps memory: thread_abort_hook always finds the block.                 *)
THEOREM EndedTaskNeverOwns == TaskSpec => []EndedTaskOwnsNothing
<1>1. TaskInv => EndedTaskOwnsNothing
  BY DEF TaskInv, TaskOwns, EndedTaskOwnsNothing
<1> QED BY <1>1, TaskInvInit, TaskInvStep, PTL DEF TaskSpec

(***************************************************************************)
(* Timers.  What the kernel repeats is what the block says.                *)
(***************************************************************************)
TimerTypeOK ==
  /\ timerAlive \in BOOLEAN /\ reload \in BOOLEAN
  /\ period \in Periods
  /\ remaining \in Nat /\ interval \in Nat /\ age \in Nat /\ due \in Nat
  /\ calls \in {0, 1, 2}

KernelAgrees ==
  remaining # 0 => /\ interval = (IF reload THEN period ELSE 0)
                   /\ reload \/ calls = 0

TimerInv == TimerTypeOK /\ KernelAgrees /\ TimerFiresWhenDue

LEMMA TimerInvInit == TimerInit => TimerInv
<1> SUFFICES ASSUME TimerInit PROVE TimerInv
  OBVIOUS
<1>1. TimerTypeOK
  BY DEF TimerInit, TimerTypeOK
<1>2. remaining = 0 /\ due = 0 /\ calls = 0
  BY DEF TimerInit
<1> QED BY <1>1, <1>2 DEF TimerInv, KernelAgrees, TimerFiresWhenDue, IsTimerActive

LEMMA TimerInvStep == TimerInv /\ [TimerNext]_timerVars => TimerInv'
<1> SUFFICES ASSUME TimerInv, [TimerNext]_timerVars PROVE TimerInv'
  OBVIOUS
<1>a. \A p \in Periods : p \in Nat /\ p # 0
  BY TimerAssumption
<1> USE <1>a
    DEF TimerInv, TimerTypeOK, KernelAgrees, TimerFiresWhenDue, IsTimerActive
<1>1. ASSUME TimerCreate PROVE TimerInv'
  BY <1>1 DEF TimerCreate
<1>2. ASSUME TimerStart PROVE TimerInv'
  BY <1>2 DEF TimerStart, KTimerStart
<1>3. ASSUME TimerStop PROVE TimerInv'
  BY <1>3 DEF TimerStop
<1>4. ASSUME TimerDelete PROVE TimerInv'
  BY <1>4 DEF TimerDelete
<1>5. ASSUME NEW p \in Periods, TimerChangePeriod(p) PROVE TimerInv'
  BY <1>5 DEF TimerChangePeriod, KTimerStart
<1>6. ASSUME Tick PROVE TimerInv'
  BY <1>6 DEF Tick
<1>7. ASSUME TimerExpiry PROVE TimerInv'
  BY <1>7 DEF TimerExpiry
<1>8. ASSUME UNCHANGED timerVars PROVE TimerInv'
  BY <1>8 DEF timerVars
<1> QED BY <1>1, <1>2, <1>3, <1>4, <1>5, <1>6, <1>7, <1>8 DEF TimerNext

(* mmosal_timer_expiry_fn runs exactly when the last start, stop, change   *)
(* of period or expiry makes it due, for any periods.                      *)
THEOREM TimerAlwaysFiresWhenDue == TimerSpec => []TimerFiresWhenDue
<1>1. TimerInv => TimerFiresWhenDue
  BY DEF TimerInv
<1> QED BY <1>1, TimerInvInit, TimerInvStep, PTL DEF TimerSpec

-----------------------------------------------------------------------------
(***************************************************************************)
(* The deep-sleep vetoes of the HAL, for any set of clients.               *)
(***************************************************************************)
(* A client about to set the flag holds its veto, one that clears it does  *)
(* not; and a flag that has outlived the vetoes has a client on its way to *)
(* clear it.                                                               *)
SetterHolds ==
  \A i \in Ids : /\ pc[i] = "set_busy" => i \in deep_sleep_vetos
                 /\ pc[i] \in {"clear_test", "clear_busy"} => i \notin deep_sleep_vetos
ClearPending == busy /\ deep_sleep_vetos = {}
                  => \E i \in Ids : pc[i] \in {"clear_test", "clear_busy"}

(* A client on its way to clear the flag has either been overtaken or seen *)
(* a mask that is still empty.                                             *)
ClearersKnown ==
  \A i \in Ids : pc[i] = "clear_busy" => i \in stale \/ deep_sleep_vetos = {}

VetoInv ==
  VetoTypeOK /\ FlagLostOnlyByOvertaking /\ SetterHolds /\ ClearPending /\ ClearersKnown

LEMMA VetoInvInit == VetoInit => VetoInv
BY DEF VetoInit, VetoInv, VetoTypeOK, FlagLostOnlyByOvertaking, SetterHolds, ClearPending,
       ClearersKnown

(* One step per action; only the clients of the mask disturb it.           *)
LEMMA VetoInvStep == VetoInv /\ [VetoNext]_vetoVars => VetoInv'
<1> SUFFICES ASSUME VetoInv, [VetoNext]_vetoVars PROVE VetoInv'
  OBVIOUS
<1> USE DEF VetoInv, VetoTypeOK, FlagLostOnlyByOvertaking, SetterHolds, ClearPending,
            ClearersKnown, Step, Bit
<1>1. ASSUME NEW i \in Ids, SetVeto(i) PROVE VetoInv'
  BY <1>1 DEF SetVeto
<1>2. ASSUME NEW i \in Ids, SetBusy(i) PROVE VetoInv'
  BY <1>2 DEF SetBusy
<1>3. ASSUME NEW i \in Ids, ClearVeto(i) PROVE VetoInv'
  BY <1>3 DEF ClearVeto
<1>4. ASSUME NEW i \in Ids, ClearTest(i) PROVE VetoInv'
  <2>1. CASE deep_sleep_vetos = {}
    BY <1>4, <2>1 DEF ClearTest
  <2>2. CASE deep_sleep_vetos # {}
    BY <1>4, <2>2 DEF ClearTest
  <2> QED BY <2>1, <2>2
<1>5. ASSUME NEW i \in Ids, ClearBusy(i) PROVE VetoInv'
  BY <1>5 DEF ClearBusy
<1>6. ASSUME Suspend PROVE VetoInv'
  BY <1>6 DEF Suspend, SuspendAllowed
<1>7. ASSUME Resume PROVE VetoInv'
  BY <1>7 DEF Resume
<1>8. ASSUME UNCHANGED vetoVars PROVE VetoInv'
  BY <1>8 DEF vetoVars
<1> QED BY <1>1, <1>2, <1>3, <1>4, <1>5, <1>6, <1>7, <1>8 DEF VetoNext

LEMMA VetoInvariance == VetoSpec => []VetoInv
BY VetoInvInit, VetoInvStep, PTL DEF VetoSpec

(* The busy flag stands for every veto set, for any number of clients,     *)
(* unless a set has overtaken a clear between its test and its clearing.   *)
THEOREM FlagOnlyEverOvertaken == VetoSpec => []FlagLostOnlyByOvertaking
<1>1. VetoInv => FlagLostOnlyByOvertaking
  BY DEF VetoInv
<1> QED BY <1>1, VetoInvariance, PTL

(* However the calls of the clients interleave in mmhal_core.c, the busy   *)
(* flag is down once they have all returned with no veto left.             *)
THEOREM BusyNeverStuck == VetoSpec => []BusyNotStuck
<1>1. VetoInv => BusyNotStuck
  BY DEF VetoInv, ClearPending, BusyNotStuck, AtRest
<1> QED BY <1>1, VetoInvariance, PTL

(* The mask, the flag and the calls of mmhal_core.c in progress stay in    *)
(* their ranges.                                                           *)
THEOREM VetoTypeAlwaysOK == VetoSpec => []VetoTypeOK
<1>1. VetoInv => VetoTypeOK
  BY DEF VetoInv
<1> QED BY <1>1, VetoInvariance, PTL
=============================================================================
