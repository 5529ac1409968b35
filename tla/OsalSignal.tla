----------------------------- MODULE OsalSignal -----------------------------
(***************************************************************************)
(* Semaphores and queues of shims/mmosal.c in the pattern they are made    *)
(* for: producers, tasks or interrupt handlers, push items onto a queue    *)
(* and give a semaphore; a consumer waits for it and empties the queue.    *)
(* A give first looks at the count and is refused when it is full, so two  *)
(* gives, or a give and a wait, may overlap between the look and the give. *)
(***************************************************************************)
EXTENDS Naturals, Sequences

CONSTANTS
  Producers,  (* each pushes items of its own, numbered from 1             *)
  MaxItems,   (* bound: items per producer                                 *)
  MaxCount,   (* max_count of a counting semaphore                         *)
  QueueSize   (* num_items of the queue                                    *)

ASSUME SignalAssumption ==
  /\ MaxItems \in Nat /\ MaxCount \in Nat \ {0} /\ QueueSize \in Nat \ {0}

VARIABLES
  binary,     (* the semaphore is an mmosal_semb                           *)
  count,      (* its k_sem                                                 *)
  queue,      (* the k_msgq                                                *)
  producerPc, (* where each producer is                                    *)
  made,       (* how many items each producer has made                     *)
  consumerPc, (* the consumer: waiting, emptying the queue, or stopped     *)
  popped      (* per producer, the last item the consumer got              *)

signalVars == <<binary, count, queue, producerPc, made, consumerPc, popped>>

(* mmosal_sem_create, mmosal_semb_create and mmosal_queue_create           *)
Limit == IF binary THEN 1 ELSE MaxCount

SignalInit ==
  /\ binary \in BOOLEAN
  /\ count = 0
  /\ queue = <<>>
  /\ producerPc = [p \in Producers |-> "idle"]
  /\ made = [p \in Producers |-> 0]
  /\ consumerPc = "wait"
  /\ popped = [p \in Producers |-> 0]

Produce(p, from, to) ==
  producerPc[p] = from /\ producerPc' = [producerPc EXCEPT ![p] = to]

(* mmosal_queue_push, or _push_from_isr, which does not wait: false when   *)
(* the queue is full, and the producer drops the item.                     *)
QueuePush(p) ==
  /\ made[p] < MaxItems
  /\ made' = [made EXCEPT ![p] = @ + 1]
  /\ \/ /\ Len(queue) < QueueSize
        /\ queue' = Append(queue, <<p, made[p] + 1>>)
        /\ Produce(p, "idle", "pushed")
     \/ /\ Len(queue) = QueueSize
        /\ queue' = queue
        /\ Produce(p, "idle", "idle")
  /\ UNCHANGED <<binary, count, consumerPc, popped>>

(***************************************************************************)
(* mmosal_sem_give and mmosal_semb_give: the look at the count and, if it  *)
(* is not full, k_sem_give, which saturates.                               *)
(***************************************************************************)
(* Mutant: a binary semaphore is taken to be full when it is empty.        *)
SembGiveInverted(p) ==
  /\ binary
  /\ Produce(p, "pushed", IF count = 0 THEN "idle" ELSE "give")
  /\ UNCHANGED <<binary, count, queue, made, consumerPc, popped>>

SemGive(p) ==
  /\ ~binary
  /\ Produce(p, "pushed", IF count = MaxCount THEN "idle" ELSE "give")
  /\ UNCHANGED <<binary, count, queue, made, consumerPc, popped>>

SembGive(p) ==
  /\ binary
  /\ Produce(p, "pushed", IF count = 1 THEN "idle" ELSE "give")
  /\ UNCHANGED <<binary, count, queue, made, consumerPc, popped>>

KSemGive(p) ==
  /\ Produce(p, "give", "idle")
  /\ count' = IF count < Limit THEN count + 1 ELSE count
  /\ UNCHANGED <<binary, queue, made, consumerPc, popped>>

(* mmosal_sem_wait and mmosal_semb_wait.  A wait that times out returns    *)
(* false, and the consumer waits again.                                    *)
SemTake == count > 0 /\ count' = count - 1

SemWait ==
  /\ ~binary /\ consumerPc = "wait" /\ SemTake
  /\ consumerPc' = "drain"
  /\ UNCHANGED <<binary, queue, producerPc, made, popped>>

SembWait ==
  /\ binary /\ consumerPc = "wait" /\ SemTake
  /\ consumerPc' = "drain"
  /\ UNCHANGED <<binary, queue, producerPc, made, popped>>

(* mmosal_queue_pop without a time-out: false once the queue is empty.     *)
QueuePop ==
  /\ consumerPc = "drain"
  /\ \/ /\ queue # <<>>
        /\ popped' = [popped EXCEPT ![Head(queue)[1]] = Head(queue)[2]]
        /\ queue' = Tail(queue)
        /\ UNCHANGED consumerPc
     \/ /\ queue = <<>>
        /\ consumerPc' = "wait"
        /\ UNCHANGED <<queue, popped>>
  /\ UNCHANGED <<binary, count, producerPc, made>>

(***************************************************************************)
(* mmosal_sem_delete and mmosal_semb_delete reset the semaphore first,     *)
(* which makes a wait in progress return false; mmosal_queue_delete frees  *)
(* the queue.  Done when every producer has finished and the queue is      *)
(* empty; the consumer, woken with false, stops.                           *)
(***************************************************************************)
SignalDelete ==
  /\ \A p \in Producers : producerPc[p] = "idle" /\ made[p] = MaxItems
  /\ queue = <<>> /\ consumerPc = "wait"
  /\ consumerPc' = "stopped"
  /\ count' = 0
  /\ UNCHANGED <<binary, queue, producerPc, made, popped>>

SignalNext ==
  \/ \E p \in Producers : QueuePush(p) \/ SemGive(p) \/ SembGive(p) \/ KSemGive(p)
  \/ SemWait \/ SembWait \/ QueuePop
  \/ SignalDelete

(* A call in progress goes on; the consumer's task is scheduled.  Nothing  *)
(* obliges a producer to make an item.                                     *)
SignalFairness ==
  /\ \A p \in Producers :
       WF_signalVars(SemGive(p) \/ SembGive(p) \/ KSemGive(p))
  /\ WF_signalVars(SemWait \/ SembWait \/ QueuePop)

SignalSpec == SignalInit /\ [][SignalNext]_signalVars /\ SignalFairness

(* An item in the queue always has someone who will see to it: a token in  *)
(* the semaphore, a producer that has still to give one, or a consumer     *)
(* that is emptying the queue.  A refused or saturated give loses none.    *)
ItemsAreSignalled ==
  queue # <<>> =>
    \/ count > 0
    \/ \E p \in Producers : producerPc[p] # "idle"
    \/ consumerPc = "drain"

(* Every item pushed is popped, whatever gives were refused or saturated.  *)
ItemsAreHandled ==
  \A p \in Producers : \A i \in 1..MaxItems :
    (\E j \in 1..Len(queue) : queue[j] = <<p, i>>) ~> popped[p] >= i
=============================================================================
