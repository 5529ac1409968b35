------------------------------ MODULE OsalTask ------------------------------
(***************************************************************************)
(* Tasks of shims/mmosal.c.  A task's thread object lives in a block that  *)
(* mmosal_task_create allocates beside the stack, and both are freed by    *)
(* thread_abort_hook, which the kernel runs when the thread ends, by       *)
(* returning or by mmosal_task_delete.  The hook finds the block through   *)
(* the thread's custom data.                                               *)
(***************************************************************************)
EXTENDS Naturals

CONSTANTS
  Tasks,      (* tasks that may be created, once at a time                 *)
  Joiners     (* tasks of the application that join them                   *)

VARIABLES
  taskState,  (* none, creating, suspended, tagged, running, ended         *)
  stack,      (* the stack of each task is allocated                       *)
  metadata,   (* so is its block                                           *)
  custom_data,(* the thread's custom data refers to the block              *)
  joining,    (* what each joiner waits for, or "none"                     *)
  late        (* history: joiners caught waiting on a block already freed  *)

taskVars == <<taskState, stack, metadata, custom_data, joining, late>>

TaskInit ==
  /\ taskState = [t \in Tasks |-> "none"]
  /\ stack = [t \in Tasks |-> FALSE]
  /\ metadata = [t \in Tasks |-> FALSE]
  /\ custom_data = [t \in Tasks |-> FALSE]
  /\ joining = [j \in Joiners |-> "none"]
  /\ late = {}

TaskStep(t, from, to) ==
  taskState[t] = from /\ taskState' = [taskState EXCEPT ![t] = to]

NotJoined(t) == \A j \in Joiners : joining[j] # t

(***************************************************************************)
(* mmosal_task_create: the block, the stack (the block is given back when  *)
(* there is none), the thread, suspended, its custom data, and only then   *)
(* the start.  A task is created again only when no one waits for its      *)
(* predecessor.                                                            *)
(***************************************************************************)
MetadataCreate(t) ==
  /\ taskState[t] \in {"none", "ended"} /\ NotJoined(t)
  /\ taskState' = [taskState EXCEPT ![t] = "creating"]
  /\ metadata' = [metadata EXCEPT ![t] = TRUE]
  /\ custom_data' = [custom_data EXCEPT ![t] = FALSE]
  /\ UNCHANGED <<stack, joining, late>>

(* Mutant: the block is not given back.                                    *)
StackAllocLeaks(t) ==
  \/ /\ TaskStep(t, "creating", "suspended")
     /\ stack' = [stack EXCEPT ![t] = TRUE]
     /\ UNCHANGED <<metadata, custom_data, joining, late>>
  \/ /\ TaskStep(t, "creating", "none")
     /\ UNCHANGED <<stack, metadata, custom_data, joining, late>>

StackAlloc(t) ==
  \/ /\ TaskStep(t, "creating", "suspended")
     /\ stack' = [stack EXCEPT ![t] = TRUE]
     /\ UNCHANGED <<metadata, custom_data, joining, late>>
  \/ /\ TaskStep(t, "creating", "none")
     /\ metadata' = [metadata EXCEPT ![t] = FALSE]
     /\ UNCHANGED <<stack, custom_data, joining, late>>

SetCustomData(t) ==
  /\ TaskStep(t, "suspended", "tagged")
  /\ custom_data' = [custom_data EXCEPT ![t] = TRUE]
  /\ UNCHANGED <<stack, metadata, joining, late>>

TaskStart(t) ==
  /\ TaskStep(t, "tagged", "running")
  /\ UNCHANGED <<stack, metadata, custom_data, joining, late>>

(***************************************************************************)
(* The end of a thread, by mmosal_task_fn returning or by                  *)
(* mmosal_task_delete: the kernel wakes all who join it and runs           *)
(* thread_abort_hook, which does nothing for a thread without the tag.     *)
(***************************************************************************)
AbortHook(t) ==
  /\ stack' = [stack EXCEPT ![t] = @ /\ ~custom_data[t]]
  /\ metadata' = [metadata EXCEPT ![t] = @ /\ ~custom_data[t]]

WakeJoiners(t) ==
  joining' = [j \in Joiners |-> IF joining[j] = t /\ j \notin late
                                  THEN "none" ELSE joining[j]]

TaskEnds(t) ==
  /\ TaskStep(t, "running", "ended")
  /\ AbortHook(t)
  /\ WakeJoiners(t)
  /\ UNCHANGED <<custom_data, late>>

(***************************************************************************)
(* mmosal_task_join waits in the kernel.  When the task has ended, the     *)
(* thread object it looks at has been freed: it may return, which changes  *)
(* nothing, or wait for ever.  No one joins what has not been created.     *)
(***************************************************************************)
TaskJoin(j, t) ==
  /\ joining[j] = "none" /\ joining' = [joining EXCEPT ![j] = t]
  /\ \/ taskState[t] \in {"tagged", "running"} /\ late' = late
     \/ taskState[t] = "ended" /\ late' = late \union {j}
  /\ UNCHANGED <<taskState, stack, metadata, custom_data>>

TaskNext ==
  \/ \E t \in Tasks :
       \/ MetadataCreate(t) \/ StackAlloc(t) \/ SetCustomData(t)
       \/ TaskStart(t) \/ TaskEnds(t)
  \/ \E j \in Joiners, t \in Tasks : TaskJoin(j, t)

TaskSpec == TaskInit /\ [][TaskNext]_taskVars

(* A task that is not there owns no memory: whichever allocation failed,   *)
(* and however short its life, the hook found its block.  A task that may  *)
(* run has a stack and a block.                                            *)
EndedTaskOwnsNothing ==
  \A t \in Tasks :
    /\ taskState[t] \in {"none", "ended"} => ~stack[t] /\ ~metadata[t]
    /\ taskState[t] = "running" => stack[t] /\ metadata[t] /\ custom_data[t]
=============================================================================
