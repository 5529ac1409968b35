------------------------------- MODULE SpiStm32 -------------------------------
(***************************************************************************)
(* The SPI controller driver spi_ll_stm32_optim.c (a copy of Zephyr's      *)
(* spi_ll_stm32.c), its clients and its interrupts.  A transfer holds the  *)
(* lock of the spi_context and a power-management policy lock, kept in one *)
(* flag, so that the system does not suspend and stop the clock meanwhile. *)
(* The interrupt build waits for its interrupt handler to complete it, the *)
(* polled one shifts the frames itself, and with DMA the frames go in      *)
(* segments.                                                               *)
(***************************************************************************)
EXTENDS Naturals, FiniteSets

CONSTANTS
  Modes,     (* the builds: a subset of irq, poll and dma                  *)
  Clients,   (* the clients, each with a spi_config of its own             *)
  LockOn,    (* those whose spi_config has SPI_LOCK_ON                     *)
  None,
  MaxFrames, (* bound: frames, or segments, of a transfer                  *)
  FifoSize   (* frames on their way                                        *)

ASSUME SpiAssumption ==
  /\ Modes \subseteq {"irq", "poll", "dma"}
  /\ LockOn \subseteq Clients /\ None \notin Clients
  /\ MaxFrames \in Nat /\ FifoSize \in Nat \ {0}

VARIABLES
  mode,
  pc,        (* where each client is in its transfer                       *)
  result,    (* what its transfer returns                                  *)
  owner,     (* spi_context: who holds the lock                            *)
  config,    (* spi_context.config: whose configuration is installed       *)
  spi,       (* the controller and the chip select are on                  *)
  ints,      (* its interrupts are enabled                                 *)
  tx, rx,    (* spi_context: what is left to send and to receive           *)
  fifo,      (* frames, or segments, on their way                          *)
  sync,      (* the semaphore that completes a transfer: none, or a status *)
  policy,    (* pm_policy_state_on                                         *)
  clock,     (* the controller has its clock                               *)
  asleep,    (* the system is suspended                                    *)
  dma,       (* the DMA channels: a segment runs, callbacks are pending,   *)
             (* status_flags and status_sem                                *)
  mishaps    (* history: what went wrong that the driver does not undo     *)

transfer == <<tx, rx, fifo>>
power == <<clock, asleep>>
vars == <<mode, pc, result, owner, config, spi, ints, transfer, sync, policy,
          power, dma, mishaps>>

NoDma == [busy |-> FALSE, pending |-> {}, flags |-> {}, sem |-> FALSE]

(* spi_stm32_init                                                          *)
Init ==
  /\ mode \in Modes
  /\ pc = [c \in Clients |-> "idle"] /\ result = [c \in Clients |-> "none"]
  /\ owner = None /\ config = None
  /\ spi = FALSE /\ ints = FALSE
  /\ tx = 0 /\ rx = 0 /\ fifo = 0 /\ sync = "none"
  /\ policy = FALSE /\ clock = TRUE /\ asleep = FALSE
  /\ dma = NoDma /\ mishaps = {}

Go(c, from, to) == pc[c] = from /\ pc' = [pc EXCEPT ![c] = to]

Return(c, r) == result' = [result EXCEPT ![c] = r]

Section == {"configure", "wait", "shift", "segment", "dmawait", "busy", "complete", "release"}

InSection(c) == pc[c] \in Section

(***************************************************************************)
(* spi_context_lock, then the policy lock.  A transfer without buffers, an *)
(* asynchronous one with DMA, and one with buffers in the cache have       *)
(* returned before, and have changed nothing.  Left out: the asynchronous  *)
(* transfers of the interrupt build with CONFIG_SPI_ASYNC, which return    *)
(* before they complete and give the lock back when they do.               *)
(***************************************************************************)
PolicyGet == policy' = TRUE

Lock(c) ==
  /\ owner = None \/ (owner = c /\ c \in LockOn)
  /\ Go(c, "idle", "configure") /\ Return(c, "none")
  /\ owner' = c
  /\ PolicyGet
  /\ dma' = [dma EXCEPT !.sem = FALSE]
  /\ UNCHANGED <<mode, config, spi, ints, transfer, sync, power, mishaps>>

(* spi_stm32_configure, the buffers, the count of frames.  On an error the *)
(* transfer ends without spi_stm32_complete.                               *)
ConfigureFails(c) ==
  /\ Go(c, "configure", "release") /\ Return(c, "error")
  /\ config' \in {config, c}
  /\ mishaps' = IF mode = "dma" THEN mishaps ELSE mishaps \union {"leak"}
  /\ UNCHANGED <<mode, owner, spi, ints, transfer, sync, policy, power, dma>>

(* Mutant: the configuration installed is not recorded.                    *)
BeginUnrecorded(c) ==
  /\ Go(c, "configure", CASE mode = "irq" -> "wait" [] mode = "poll" -> "shift"
                          [] mode = "dma" -> "segment")
  /\ tx' \in 0..MaxFrames /\ rx' \in 0..MaxFrames /\ fifo' = 0
  /\ spi' = TRUE /\ ints' = (mode = "irq")
  /\ UNCHANGED <<mode, result, owner, config, sync, policy, power, dma, mishaps>>

Begin(c) ==
  /\ Go(c, "configure", CASE mode = "irq" -> "wait" [] mode = "poll" -> "shift"
                          [] mode = "dma" -> "segment")
  /\ config' = c
  /\ tx' \in 0..MaxFrames /\ rx' \in 0..MaxFrames /\ fifo' = 0
  /\ spi' = TRUE /\ ints' = (mode = "irq")
  /\ UNCHANGED <<mode, result, owner, sync, policy, power, dma, mishaps>>

(***************************************************************************)
(* spi_stm32_shift_frames: with a FIFO a frame is read if there is one and *)
(* one is sent if there is room (also when there is none left to send),    *)
(* without it one is sent and the answer read.  Either build may have one. *)
(***************************************************************************)
Less(n) == IF n = 0 THEN 0 ELSE n - 1

ReadNextFrame(read) == rx' = IF read THEN Less(rx) ELSE rx

SendNextFrame(send) == tx' = IF send THEN Less(tx) ELSE tx

ShiftFifo ==
  \E read, send \in BOOLEAN :
    /\ read \/ send
    /\ read => fifo > 0
    /\ send => fifo < FifoSize \/ read
    /\ ReadNextFrame(read) /\ SendNextFrame(send)
    /\ fifo' = (fifo + (IF send THEN 1 ELSE 0)) - (IF read THEN 1 ELSE 0)

ShiftOne == fifo = 0 /\ ReadNextFrame(TRUE) /\ SendNextFrame(TRUE) /\ UNCHANGED fifo

ShiftFrames == ShiftFifo \/ ShiftOne

TransferOngoing == tx > 0 \/ rx > 0

(* spi_stm32_complete: whose transfer it completes it does not know, when  *)
(* one has timed out.                                                      *)
(* Mutant: the policy lock is kept.                                        *)
PolicyPutForgotten == UNCHANGED policy

PolicyPut == policy' = FALSE

Complete(status) ==
  /\ ints' = FALSE /\ spi' = FALSE
  /\ sync' = IF mode = "irq" THEN status ELSE sync   (* no one else takes it *)
  /\ PolicyPut
  /\ mishaps' = mishaps \ {"leak"}

(* spi_stm32_isr; get_err reports what the controller flags, before and    *)
(* after a frame.                                                          *)
Isr ==
  /\ ints /\ spi /\ clock
  /\ \/ Complete("error") /\ UNCHANGED transfer
     \/ /\ TransferOngoing /\ ShiftFrames
        /\ \/ TransferOngoing' /\ UNCHANGED <<spi, ints, sync, policy, mishaps>>
           \/ ~TransferOngoing' /\ Complete("ok")
           \/ Complete("error")
     \/ ~TransferOngoing /\ UNCHANGED transfer /\ Complete("ok")
  /\ UNCHANGED <<mode, pc, result, owner, config, power, dma>>

(* spi_context_wait_for_completion: woken by whatever completion there is, *)
(* or timed out, with the controller left as it is.                        *)
Woken(c) ==
  /\ Go(c, "wait", "release") /\ sync # "none" /\ Return(c, sync)
  /\ sync' = "none"
  /\ UNCHANGED <<mode, owner, config, spi, ints, transfer, policy, power, dma, mishaps>>

TimesOut(c) ==
  /\ Go(c, "wait", "release") /\ sync = "none" /\ Return(c, "timeout")
  /\ mishaps' = mishaps \union {"timeout", "leak"}
  /\ UNCHANGED <<mode, owner, config, spi, ints, transfer, sync, policy, power, dma>>

(* The polled build: shift until done or an error, then complete.          *)
PollShift(c) ==
  /\ pc[c] = "shift" /\ clock
  /\ ShiftFrames
  /\ \/ TransferOngoing' /\ UNCHANGED <<pc, result, spi, ints, sync, policy, mishaps>>
     \/ \E r \in {"ok", "error"} :
          /\ r = "ok" => ~TransferOngoing'
          /\ Go(c, "shift", "release") /\ Return(c, r) /\ Complete(r)
  /\ UNCHANGED <<mode, owner, config, power, dma>>

(***************************************************************************)
(* The DMA build: segment by segment, of as many frames as both have left  *)
(* or the one that has any, the receiving channel is loaded and then the   *)
(* sending one, either of whose callbacks ends the wait; then the          *)
(* controller is waited for.  Left out: the bound of that wait in a build  *)
(* with CONFIG_SPI_STM32_ERRATA_BUSY, which lets it go on, as whether the  *)
(* controller is still at work by then is a matter of time.                *)
(***************************************************************************)
Segment(c) ==
  /\ \/ /\ TransferOngoing /\ Go(c, "segment", "dmawait")
        /\ dma' = [dma EXCEPT !.flags = {}, !.busy = TRUE, !.pending = @ \union {"tx"}]
        /\ fifo' = fifo + 1 /\ UNCHANGED result
     \/ /\ TransferOngoing /\ Go(c, "segment", "complete") /\ Return(c, "error")
        /\ dma' = [dma EXCEPT !.flags = {}] /\ UNCHANGED fifo
     \/ /\ ~TransferOngoing /\ Go(c, "segment", "complete") /\ Return(c, "ok")
        /\ UNCHANGED <<dma, fifo>>
  /\ UNCHANGED <<mode, owner, config, spi, ints, tx, rx, sync, policy, power, mishaps>>

(* The controller has clocked the frames of a segment.                     *)
Clocked ==
  /\ dma.busy /\ clock
  /\ dma' = [dma EXCEPT !.busy = FALSE, !.pending = @ \union {"rx"}]
  /\ fifo' = Less(fifo)
  /\ UNCHANGED <<mode, pc, result, owner, config, spi, ints, tx, rx, sync, policy, power, mishaps>>

DmaCallback(channel) ==
  /\ channel \in dma.pending
  /\ \E flag \in {channel, "error"} :
       dma' = [dma EXCEPT !.pending = @ \ {channel}, !.flags = @ \union {flag}, !.sem = TRUE]
  /\ UNCHANGED <<mode, pc, result, owner, config, spi, ints, transfer, sync, policy, power, mishaps>>

(* wait_dma_rx_tx_done                                                     *)
(* Mutant: the wait is without a time-out.                                 *)
DmaWaitForever(c) ==
  /\ dma.sem /\ dma' = [dma EXCEPT !.sem = FALSE]
  /\ \/ dma.flags # {} /\ Go(c, "dmawait", "busy")
     \/ dma.flags = {} /\ Go(c, "dmawait", "dmawait")
  /\ UNCHANGED <<mode, result, owner, config, spi, ints, transfer, sync, policy, power, mishaps>>

DmaWait(c) ==
  /\ \/ /\ dma.sem /\ dma' = [dma EXCEPT !.sem = FALSE]
        /\ CASE "error" \in dma.flags -> Go(c, "dmawait", "complete") /\ Return(c, "error")
             [] dma.flags = {} -> Go(c, "dmawait", "dmawait") /\ UNCHANGED result
             [] OTHER -> Go(c, "dmawait", "busy") /\ UNCHANGED result
     \/ /\ ~dma.sem /\ Go(c, "dmawait", "complete") /\ Return(c, "timeout")
        /\ UNCHANGED dma
  /\ UNCHANGED <<mode, owner, config, spi, ints, transfer, sync, policy, power, mishaps>>

(* Mutant: the controller is not waited for.                               *)
DmaBusyIgnored(c) ==
  /\ Go(c, "busy", "segment")
  /\ tx' = Less(tx) /\ rx' = Less(rx)
  /\ UNCHANGED <<mode, result, owner, config, spi, ints, fifo, sync, policy, power, dma, mishaps>>

DmaBusy(c) ==
  /\ Go(c, "busy", "segment") /\ ~dma.busy
  /\ tx' = Less(tx) /\ rx' = Less(rx)
  /\ UNCHANGED <<mode, result, owner, config, spi, ints, fifo, sync, policy, power, dma, mishaps>>

(* spi_stm32_complete waits for the controller; stopping a channel may     *)
(* fail or come too late for its callback.                                 *)
DmaComplete(c) ==
  /\ Go(c, "complete", "release") /\ ~dma.busy
  /\ Complete(result[c])
  /\ dma' \in {dma, [dma EXCEPT !.pending = {}]}
  /\ UNCHANGED <<mode, result, owner, config, transfer, power>>

(***************************************************************************)
(* spi_context_release, which keeps the lock for SPI_LOCK_ON; the DMA      *)
(* build gives the policy lock back once more, after the lock.             *)
(***************************************************************************)
Release(c) ==
  /\ Go(c, "release", IF mode = "dma" THEN "put" ELSE "idle")
  /\ owner' = IF c \in LockOn THEN owner ELSE None
  /\ Return(c, "none")                                (* to the caller *)
  /\ UNCHANGED <<mode, config, spi, ints, transfer, sync, policy, power, dma, mishaps>>

LatePut(c) ==
  /\ Go(c, "put", "idle")
  /\ PolicyPut
  /\ mishaps' = IF \E d \in Clients : InSection(d) THEN mishaps \union {"late"} ELSE mishaps
  /\ UNCHANGED <<mode, result, owner, config, spi, ints, transfer, sync, power, dma>>

(* spi_stm32_release unlocks unconditionally, whoever holds the lock.  The *)
(* model stops when that lets two clients use the controller at once.      *)
SpiRelease(c) ==
  /\ c \in LockOn /\ pc[c] = "idle"
  /\ owner' = None
  /\ spi' = FALSE
  /\ mishaps' = IF owner \in {None, c} THEN mishaps ELSE mishaps \union {"evicted"}
  /\ UNCHANGED <<mode, pc, result, config, ints, transfer, sync, policy, power, dma>>

(***************************************************************************)
(* The system suspends when every thread waits and no policy lock is held, *)
(* and resumes; spi_stm32_pm_action stops the clock before it changes the  *)
(* pins, an error of which leaves the system awake with the clock stopped. *)
(***************************************************************************)
PmSuspend ==
  /\ ~policy
  /\ \A c \in Clients : pc[c] \in {"idle", "wait", "dmawait"}
  /\ clock' = FALSE
  /\ \/ asleep' = TRUE /\ UNCHANGED mishaps
     \/ asleep' = FALSE /\ mishaps' = mishaps \union {"dark"}
  /\ UNCHANGED <<mode, pc, result, owner, config, spi, ints, transfer, sync, policy, dma>>

(* An error of the pins or of the clock is not seen by the clients.        *)
PmResume ==
  /\ asleep /\ asleep' = FALSE
  /\ \/ clock' = TRUE /\ UNCHANGED mishaps
     \/ clock' = FALSE /\ mishaps' = mishaps \union {"dark"}
  /\ UNCHANGED <<mode, pc, result, owner, config, spi, ints, transfer, sync, policy, dma>>

ClientStep(c) ==
  \/ ConfigureFails(c) \/ Begin(c) \/ Woken(c) \/ TimesOut(c) \/ PollShift(c)
  \/ Segment(c) \/ DmaWait(c) \/ DmaBusy(c) \/ DmaComplete(c)
  \/ Release(c) \/ LatePut(c)

Next ==
  \/ /\ ~asleep /\ "evicted" \notin mishaps
     /\ \/ \E c \in Clients : Lock(c) \/ ClientStep(c) \/ SpiRelease(c)
        \/ Isr \/ Clocked \/ \E channel \in {"tx", "rx"} : DmaCallback(channel)
        \/ PmSuspend
  \/ PmResume

(* A suspended system wakes up and a thread that is ready runs; a segment  *)
(* is clocked while there is a clock.  The system may suspend between two  *)
(* steps again and again, which is why the fairness is strong.             *)
Fairness ==
  /\ WF_vars(PmResume)
  /\ SF_vars(~asleep /\ Clocked)
  /\ \A c \in Clients : SF_vars(~asleep /\ ClientStep(c))

Spec == Init /\ [][Next]_vars /\ Fairness

(***************************************************************************)
(* Until a client gives the lock of another back, one client at a time is  *)
(* in a transfer, it holds the lock, and from its first frame on it is its *)
(* configuration that is installed.                                        *)
(***************************************************************************)
SectionExclusive ==
  "evicted" \notin mishaps =>
    \A c \in Clients : InSection(c) =>
      /\ owner = c
      /\ \A d \in Clients : InSection(d) => d = c
      /\ pc[c] \notin {"configure", "release"} => config = c

(***************************************************************************)
(* A transfer that returns success has sent and received all of its        *)
(* frames, and with DMA none of its segments is on its way any more, but   *)
(* for when an earlier one has timed out: the interrupt handler may then   *)
(* complete that one during, or before, this one.                          *)
(***************************************************************************)
ResultIsOwn ==
  "timeout" \notin mishaps =>
    \A c \in Clients : pc[c] = "release" /\ result[c] = "ok" =>
      tx = 0 /\ rx = 0 /\ (mode = "dma" => fifo = 0)

(***************************************************************************)
(* While frames are shifted the policy lock is held and the clock runs;    *)
(* when no transfer is under way it is not held.  The first does not hold  *)
(* when the DMA build's second put hits the next client's transfer, after  *)
(* a time-out, or after power management has failed; the second not after  *)
(* a time-out or a transfer that has ended without spi_stm32_complete.     *)
(***************************************************************************)
PolicyFollowsTransfer ==
  /\ spi /\ mishaps \intersect {"late", "timeout", "dark"} = {} => policy /\ clock
  /\ (\A c \in Clients : pc[c] = "idle") /\ mishaps \intersect {"leak", "timeout"} = {}
       => ~policy

(* Every transfer that has the lock returns, unless power management has   *)
(* failed and left the controller without its clock, or the lock has been  *)
(* taken away.                                                             *)
TransferEnds ==
  \A c \in Clients :
    InSection(c) ~> (pc[c] = "idle" \/ mishaps \intersect {"dark", "evicted"} # {})
=============================================================================
