------------------------------ MODULE SpiProofs ------------------------------
(***************************************************************************)
(* Proofs about SpiStm32, for each build, any clients, and any numbers of  *)
(* frames.                                                                 *)
(***************************************************************************)
EXTENDS SpiStm32, TLAPS

DmaType ==
  [busy : BOOLEAN, pending : SUBSET {"tx", "rx"},
   flags : SUBSET {"tx", "rx", "error"}, sem : BOOLEAN]

SpiTypeOK ==
  /\ mode \in Modes
  /\ pc \in [Clients -> {"idle", "put"} \union Section]
  /\ result \in [Clients -> {"none", "ok", "error", "timeout"}]
  /\ tx \in Nat /\ rx \in Nat /\ fifo \in Nat
  /\ ints \in BOOLEAN /\ spi \in BOOLEAN
  /\ sync \in {"none", "ok", "error"}
  /\ dma \in DmaType

(* Each build has its own places in the code and only one has interrupts.  *)
BuildsApart ==
  /\ ints => mode = "irq"
  /\ \A c \in Clients :
       /\ pc[c] = "wait" => mode = "irq"
       /\ pc[c] = "shift" => mode = "poll"
       /\ pc[c] \in {"segment", "dmawait", "busy", "complete"} => mode = "dma"

(* Without a time-out, interrupts and completions are for a client that    *)
(* waits.                                                                  *)
IrqProgress ==
  "timeout" \notin mishaps =>
    /\ ints => sync = "none" /\ \E c \in Clients : pc[c] = "wait"
    /\ sync # "none" => \E c \in Clients : pc[c] = "wait"
    /\ sync = "ok" => tx = 0 /\ rx = 0

(* A segment is on its way as long as the controller is busy.              *)
DmaProgress ==
  /\ dma.busy => \E c \in Clients : pc[c] \in {"dmawait", "busy", "complete"}
  /\ \A c \in Clients :
       /\ pc[c] \in {"segment", "dmawait", "busy", "complete"} =>
            fifo = IF dma.busy THEN 1 ELSE 0
       /\ pc[c] = "complete" /\ result[c] = "ok" => tx = 0 /\ rx = 0

Inv ==
  /\ SpiTypeOK /\ BuildsApart
  /\ SectionExclusive
  /\ IrqProgress /\ DmaProgress
  /\ ResultIsOwn

LEMMA InvInit == Init => Inv
<1> SUFFICES ASSUME Init PROVE Inv
  OBVIOUS
<1>1. ~ints /\ sync = "none" /\ ~dma.busy /\ \A c \in Clients : pc[c] = "idle"
  BY DEF Init, NoDma
<1>2. SpiTypeOK
  BY DEF Init, SpiTypeOK, NoDma, DmaType, Section
<1> QED BY <1>1, <1>2
        DEF Inv, BuildsApart, SectionExclusive, InSection, Section, IrqProgress,
            DmaProgress, ResultIsOwn

LEMMA ShiftFramesNat == SpiTypeOK /\ ShiftFrames => tx' \in Nat /\ rx' \in Nat /\ fifo' \in Nat
BY SpiAssumption
DEF SpiTypeOK, ShiftFrames, ShiftFifo, ShiftOne, ReadNextFrame, SendNextFrame, Less

(* One step per action.  Whoever moves in its transfer is alone there.     *)
LEMMA InvStep == Inv /\ [Next]_vars => Inv'
<1> SUFFICES ASSUME Inv, [Next]_vars PROVE Inv'
  OBVIOUS
<1> USE SpiAssumption
    DEF Inv, SpiTypeOK, BuildsApart, SectionExclusive, InSection, Section,
        IrqProgress, DmaProgress, ResultIsOwn, Go, Return, transfer, power
<1>1. CASE UNCHANGED vars
  BY <1>1 DEF vars
<1>2. CASE PmResume
  BY <1>2 DEF PmResume
<1>3. CASE "evicted" \notin mishaps
  <2> USE <1>3
  <2>1. ASSUME NEW c \in Clients, Lock(c) PROVE Inv'
    <3>1. dma' \in DmaType /\ dma'.busy = dma.busy
      BY <2>1 DEF Lock, DmaType
    <3> QED BY <2>1, <3>1 DEF Lock, PolicyGet
  <2>2. ASSUME NEW c \in Clients, ConfigureFails(c) PROVE Inv'
    BY <2>2 DEF ConfigureFails
  <2>3. ASSUME NEW c \in Clients, Begin(c) PROVE Inv'
    BY <2>3 DEF Begin
  <2>4. ASSUME NEW c \in Clients, Woken(c) PROVE Inv'
    BY <2>4 DEF Woken
  <2>5. ASSUME NEW c \in Clients, TimesOut(c) PROVE Inv'
    BY <2>5 DEF TimesOut
  <2>6. ASSUME NEW c \in Clients, PollShift(c) PROVE Inv'
    <3>1. tx' \in Nat /\ rx' \in Nat /\ fifo' \in Nat
      BY <2>6, ShiftFramesNat DEF PollShift
    <3>2. mode = "poll" /\ (sync = "none" \/ "timeout" \in mishaps)
      BY <2>6 DEF PollShift
    <3>3. CASE UNCHANGED <<pc, result, spi, ints, sync, policy, mishaps>>
      BY <2>6, <3>1, <3>3 DEF PollShift
    <3>4. ASSUME NEW r \in {"ok", "error"}, r = "ok" => ~TransferOngoing',
                 Go(c, "shift", "release"), Return(c, r), Complete(r)
          PROVE  Inv'
      <4>1. r = "ok" => tx' = 0 /\ rx' = 0
        BY <3>1, <3>4 DEF TransferOngoing
      <4>2. /\ sync' = sync /\ ~ints' /\ ints' \in BOOLEAN /\ spi' \in BOOLEAN
            /\ \A m \in {"timeout", "evicted"} : m \in mishaps <=> m \in mishaps'
        BY <2>6, <3>4 DEF Complete
      <4>3. UNCHANGED <<mode, owner, config, dma>>
        BY <2>6 DEF PollShift
      <4>4. "timeout" \notin mishaps => sync = "none"
        BY <2>6 DEF PollShift
      <4>5. pc' = [pc EXCEPT ![c] = "release"] /\ result' = [result EXCEPT ![c] = r]
        BY <3>4
      <4>6. pc[c] = "shift" /\ \A d \in Clients : d # c => ~InSection(d)
        BY <2>6 DEF PollShift
      <4>7. SpiTypeOK' /\ BuildsApart'
        BY <3>1, <4>2, <4>3, <4>5
      <4>8. SectionExclusive'
        BY <4>2, <4>3, <4>5, <4>6
      <4>9. IrqProgress' /\ DmaProgress'
        BY <4>2, <4>3, <4>4, <4>5, <4>6
      <4>10. ResultIsOwn'
        BY <3>2, <4>1, <4>3, <4>5, <4>6
      <4> QED BY <4>7, <4>8, <4>9, <4>10
    <3> QED BY <2>6, <3>3, <3>4 DEF PollShift
  <2>7. ASSUME NEW c \in Clients, Segment(c) PROVE Inv'
    <3>1. dma' \in DmaType
      <4>1. dma' \in {dma, [dma EXCEPT !.flags = {}],
                       [dma EXCEPT !.flags = {}, !.busy = TRUE, !.pending = @ \union {"tx"}]}
        BY <2>7 DEF Segment
      <4>2. CASE dma' = [dma EXCEPT !.flags = {}]
        BY <4>2 DEF DmaType
      <4>3. CASE dma' = [dma EXCEPT !.flags = {}, !.busy = TRUE, !.pending = @ \union {"tx"}]
        <5>1. dma.pending \union {"tx"} \in SUBSET {"tx", "rx"}
          BY DEF DmaType
        <5> QED BY <4>3, <5>1 DEF DmaType
      <4> QED BY <4>1, <4>2, <4>3
    <3>2. \/ /\ Go(c, "segment", "dmawait") /\ UNCHANGED result
             /\ dma'.busy = TRUE /\ fifo' = fifo + 1
          \/ /\ Go(c, "segment", "complete") /\ Return(c, "error")
             /\ dma'.busy = dma.busy /\ fifo' = fifo
          \/ /\ Go(c, "segment", "complete") /\ Return(c, "ok") /\ tx = 0 /\ rx = 0
             /\ dma'.busy = dma.busy /\ fifo' = fifo
      <4>1. CASE /\ Go(c, "segment", "dmawait") /\ UNCHANGED result /\ fifo' = fifo + 1
                 /\ dma' = [dma EXCEPT !.flags = {}, !.busy = TRUE, !.pending = @ \union {"tx"}]
        BY <4>1 DEF DmaType
      <4>2. CASE /\ Go(c, "segment", "complete") /\ Return(c, "error") /\ UNCHANGED fifo
                 /\ dma' = [dma EXCEPT !.flags = {}]
        BY <4>2 DEF DmaType
      <4>3. CASE /\ ~TransferOngoing /\ Go(c, "segment", "complete") /\ Return(c, "ok")
                 /\ UNCHANGED <<dma, fifo>>
        BY <4>3 DEF TransferOngoing
      <4> QED BY <2>7, <4>1, <4>2, <4>3 DEF Segment
    <3>3. UNCHANGED <<mode, owner, config, spi, ints, tx, rx, sync, mishaps>>
      BY <2>7 DEF Segment
    <3>6. ~dma.busy /\ fifo = 0 /\ fifo' \in Nat
      BY <3>2
    <3>4. CASE Go(c, "segment", "dmawait")
      BY <3>1, <3>2, <3>3, <3>4, <3>6
    <3>5. CASE Go(c, "segment", "complete")
      BY <3>1, <3>2, <3>3, <3>5, <3>6
    <3> QED BY <3>2, <3>4, <3>5
  <2>8. ASSUME NEW c \in Clients, DmaWait(c) PROVE Inv'
    <3>1. dma' \in DmaType /\ dma'.busy = dma.busy
      <4>1. dma' \in {dma, [dma EXCEPT !.sem = FALSE]}
        BY <2>8 DEF DmaWait
      <4>2. CASE dma' = [dma EXCEPT !.sem = FALSE]
        BY <4>2 DEF DmaType
      <4> QED BY <4>1, <4>2
    <3>2. \/ Go(c, "dmawait", "complete") /\ \E r \in {"error", "timeout"} : Return(c, r)
          \/ Go(c, "dmawait", "dmawait") /\ UNCHANGED result
          \/ Go(c, "dmawait", "busy") /\ UNCHANGED result
      BY <2>8 DEF DmaWait
    <3>3. UNCHANGED <<mode, owner, config, spi, ints, tx, rx, fifo, sync, mishaps>>
      BY <2>8 DEF DmaWait
    <3> QED BY <3>1, <3>2, <3>3
  <2>9. ASSUME NEW c \in Clients, DmaBusy(c) PROVE Inv'
    BY <2>9 DEF DmaBusy, Less
  <2>10. ASSUME NEW c \in Clients, DmaComplete(c) PROVE Inv'
    <3>1. dma' \in DmaType /\ ~dma'.busy
      BY <2>10 DEF DmaComplete, DmaType
    <3>2. pc[c] = "complete" /\ pc' = [pc EXCEPT ![c] = "release"] /\ mode = "dma"
      BY <2>10 DEF DmaComplete
    <3>3. /\ ~ints' /\ ints' \in BOOLEAN /\ spi' \in BOOLEAN /\ sync' = sync
          /\ \A m \in {"timeout", "evicted"} : m \in mishaps <=> m \in mishaps'
      BY <2>10, <3>2 DEF DmaComplete, Complete
    <3>4. UNCHANGED <<mode, result, owner, config, tx, rx, fifo>>
      BY <2>10 DEF DmaComplete
    <3>5. \A d \in Clients : d # c => ~InSection(d) /\ pc'[d] = pc[d]
      BY <3>2
    <3>6. SpiTypeOK' /\ BuildsApart' /\ SectionExclusive'
      BY <3>1, <3>2, <3>3, <3>4, <3>5
    <3>7. ~dma.busy /\ fifo = 0
      BY <2>10, <3>2 DEF DmaComplete
    <3>8. IrqProgress' /\ DmaProgress'
      BY <3>1, <3>2, <3>3, <3>4, <3>5
    <3>9. ResultIsOwn'
      BY <3>2, <3>3, <3>4, <3>5, <3>7
    <3> QED BY <3>6, <3>8, <3>9
  <2>11. ASSUME NEW c \in Clients, Release(c) PROVE Inv'
    BY <2>11 DEF Release
  <2>12. ASSUME NEW c \in Clients, LatePut(c) PROVE Inv'
    BY <2>12 DEF LatePut, PolicyPut
  <2>13. ASSUME NEW c \in Clients, SpiRelease(c) PROVE Inv'
    BY <2>13 DEF SpiRelease
  <2>14. CASE Isr
    <3>1. ints /\ mode = "irq" /\ UNCHANGED <<mode, pc, result, owner, config, dma>>
      BY <2>14 DEF Isr
    <3>2. tx' \in Nat /\ rx' \in Nat /\ fifo' \in Nat
      BY <2>14, ShiftFramesNat DEF Isr
    <3>3. \/ UNCHANGED <<spi, ints, sync, mishaps>>
          \/ Complete("error")
          \/ Complete("ok") /\ tx' = 0 /\ rx' = 0
      <4>1. CASE TransferOngoing' /\ UNCHANGED <<spi, ints, sync, policy, mishaps>>
        BY <4>1
      <4>2. CASE ~TransferOngoing' /\ Complete("ok")
        BY <3>2, <4>2 DEF TransferOngoing
      <4>3. CASE ~TransferOngoing /\ UNCHANGED transfer /\ Complete("ok")
        BY <4>3 DEF TransferOngoing
      <4> QED BY <2>14, <4>1, <4>2, <4>3 DEF Isr
    <3>4. CASE UNCHANGED <<spi, ints, sync, mishaps>>
      BY <3>1, <3>2, <3>4
    <3>5. CASE Complete("error")
      BY <3>1, <3>2, <3>5 DEF Complete
    <3>6. CASE Complete("ok") /\ tx' = 0 /\ rx' = 0
      BY <3>1, <3>2, <3>6 DEF Complete
    <3> QED BY <3>3, <3>4, <3>5, <3>6
  <2>15. CASE Clocked
    <3>1. dma' \in DmaType /\ dma.busy /\ ~dma'.busy
      BY <2>15 DEF Clocked, DmaType
    <3>2. fifo' = (IF fifo = 0 THEN 0 ELSE fifo - 1)
          /\ UNCHANGED <<mode, pc, result, owner, config, spi, ints, tx, rx, sync, mishaps>>
      BY <2>15 DEF Clocked, Less
    <3>3. mode = "dma"
      BY <3>1
    <3> QED BY <3>1, <3>2, <3>3
  <2>16. ASSUME NEW channel \in {"tx", "rx"}, DmaCallback(channel) PROVE Inv'
    <3>1. dma' \in DmaType /\ dma'.busy = dma.busy
      <4>1. PICK flag \in {channel, "error"} :
              dma' = [dma EXCEPT !.pending = @ \ {channel}, !.flags = @ \union {flag}, !.sem = TRUE]
        BY <2>16 DEF DmaCallback
      <4>2. dma.pending \ {channel} \in SUBSET {"tx", "rx"}
        BY DEF DmaType
      <4>3. dma.flags \union {flag} \in SUBSET {"tx", "rx", "error"}
        BY <2>16, <4>1 DEF DmaType
      <4> QED BY <4>1, <4>2, <4>3 DEF DmaType
    <3> QED BY <2>16, <3>1 DEF DmaCallback
  <2>17. CASE PmSuspend
    BY <2>17 DEF PmSuspend
  <2>18. ASSUME NEW c \in Clients, ClientStep(c) PROVE Inv'
    BY <2>18, <2>2, <2>3, <2>4, <2>5, <2>6, <2>7, <2>8, <2>9, <2>10, <2>11, <2>12
    DEF ClientStep
  <2> HIDE DEF Inv
  <2> QED BY <1>1, <1>2, <2>1, <2>13, <2>14, <2>15, <2>16, <2>17, <2>18 DEF Next
<1> QED BY <1>1, <1>2, <1>3 DEF Next

LEMMA Invariance == Spec => []Inv
BY InvInit, InvStep, PTL DEF Spec

(* Transfers of spi_ll_stm32_optim.c do not overlap, and each is made with *)
(* its own configuration, as long as no one gives the lock of another back.*)
THEOREM SectionAlwaysExclusive == Spec => []SectionExclusive
<1>1. Inv => SectionExclusive
  BY DEF Inv
<1> QED BY <1>1, Invariance, PTL

(* transceive and transceive_dma report success only for transfers that    *)
(* are complete, as long as none has timed out.                            *)
THEOREM ResultAlwaysOwn == Spec => []ResultIsOwn
<1>1. Inv => ResultIsOwn
  BY DEF Inv
<1> QED BY <1>1, Invariance, PTL

-----------------------------------------------------------------------------
(* From the lock to spi_stm32_complete a transfer needs the policy lock.   *)
Needs(c) ==
  InSection(c) /\ pc[c] # "release" /\ ~(pc[c] = "wait" /\ sync # "none")

(* Only LatePut of another transfer takes it away, which is recorded.      *)
PolicyHeld ==
  mishaps \intersect {"late", "timeout"} = {} => \A c \in Clients : Needs(c) => policy

(* The controller is on for a transfer that has begun and not completed.   *)
OnForTransfer ==
  spi => /\ "evicted" \notin mishaps
         /\ "timeout" \notin mishaps =>
              \E c \in Clients : Needs(c) /\ pc[c] # "configure"

(* A policy lock that is held will be given back, by a client at work.     *)
PolicyOwned ==
  policy /\ mishaps \intersect {"leak", "timeout"} = {} =>
    \E c \in Clients : Needs(c) \/ pc[c] = "put" \/ (pc[c] = "release" /\ mode = "dma")

(* The system is suspended without the policy lock only, and wakes with    *)
(* its clock unless power management has failed.                           *)
SuspendedUnlocked ==
  /\ policy \in BOOLEAN /\ asleep \in BOOLEAN
  /\ asleep => ~policy
  /\ ~asleep /\ "dark" \notin mishaps => clock

PolicyInv == PolicyHeld /\ OnForTransfer /\ PolicyOwned /\ SuspendedUnlocked

LEMMA PolicyInit == Init => PolicyInv
BY DEF Init, PolicyInv, PolicyHeld, OnForTransfer, PolicyOwned, SuspendedUnlocked,
       Needs, InSection, Section

LEMMA PolicyStep == Inv /\ PolicyInv /\ [Next]_vars => PolicyInv'
<1> SUFFICES ASSUME Inv, PolicyInv, [Next]_vars PROVE PolicyInv'
  OBVIOUS
<1>0. pc \in [Clients -> {"idle", "put"} \union Section]
  BY DEF Inv, SpiTypeOK
<1>b. BuildsApart
  BY DEF Inv
<1> USE <1>0, <1>b DEF PolicyInv, PolicyHeld, OnForTransfer, PolicyOwned, SuspendedUnlocked,
        Needs, InSection, Section, Go, Return, power, BuildsApart
<1>1. CASE UNCHANGED vars
  BY <1>1 DEF vars
<1>2. CASE PmResume
  BY <1>2 DEF PmResume
<1>3. CASE "evicted" \notin mishaps /\ ~asleep
  <2>e. \A c, d \in Clients : InSection(c) /\ InSection(d) => c = d
    BY <1>3 DEF Inv, SectionExclusive
  <2> USE <1>3, <2>e
  <2>1. ASSUME NEW c \in Clients, Lock(c) PROVE PolicyInv'
    BY <2>1 DEF Lock, PolicyGet
  <2>2. ASSUME NEW c \in Clients, ConfigureFails(c) PROVE PolicyInv'
    BY <2>2 DEF ConfigureFails
  <2>3. ASSUME NEW c \in Clients, Begin(c) PROVE PolicyInv'
    <3>1. mode \in {"irq", "poll", "dma"}
      BY SpiAssumption DEF Inv, SpiTypeOK
    <3>2. PICK to \in {"wait", "shift", "segment"} : Go(c, "configure", to)
      BY <2>3, <3>1 DEF Begin
    <3>3. UNCHANGED <<mode, sync, policy, clock, asleep, mishaps>>
      BY <2>3 DEF Begin
    <3>4. sync = "none" \/ "timeout" \in mishaps
      BY <3>2 DEF Inv, IrqProgress
    <3> QED BY <3>2, <3>3, <3>4
  <2>4. ASSUME NEW c \in Clients, Woken(c) PROVE PolicyInv'
    BY <2>4 DEF Woken
  <2>5. ASSUME NEW c \in Clients, TimesOut(c) PROVE PolicyInv'
    BY <2>5 DEF TimesOut
  <2>6. ASSUME NEW c \in Clients, PollShift(c) PROVE PolicyInv'
    <3>1. UNCHANGED <<mode, clock, asleep>>
      BY <2>6 DEF PollShift
    <3>2. CASE UNCHANGED <<pc, result, spi, ints, sync, policy, mishaps>>
      BY <3>1, <3>2
    <3>3. CASE \E r \in {"ok", "error"} : Go(c, "shift", "release") /\ Complete(r)
      BY <3>1, <3>3 DEF Complete, PolicyPut
    <3> QED BY <2>6, <3>2, <3>3 DEF PollShift
  <2>7. ASSUME NEW c \in Clients, Segment(c) PROVE PolicyInv'
    BY <2>7 DEF Segment
  <2>8. ASSUME NEW c \in Clients, DmaWait(c) PROVE PolicyInv'
    BY <2>8 DEF DmaWait
  <2>9. ASSUME NEW c \in Clients, DmaBusy(c) PROVE PolicyInv'
    BY <2>9 DEF DmaBusy
  <2>10. ASSUME NEW c \in Clients, DmaComplete(c) PROVE PolicyInv'
    BY <2>10 DEF DmaComplete, Complete, PolicyPut
  <2>11. ASSUME NEW c \in Clients, Release(c) PROVE PolicyInv'
    BY <2>11 DEF Release
  <2>12. ASSUME NEW c \in Clients, LatePut(c) PROVE PolicyInv'
    BY <2>12 DEF LatePut, PolicyPut
  <2>13. ASSUME NEW c \in Clients, SpiRelease(c) PROVE PolicyInv'
    BY <2>13 DEF SpiRelease
  <2>14. CASE Isr
    <3>1. spi /\ mode = "irq" /\ UNCHANGED <<mode, pc, clock, asleep>>
      BY <2>14 DEF Isr
    <3>2. CASE UNCHANGED <<spi, ints, sync, policy, mishaps>>
      BY <3>1, <3>2
    <3>3. CASE \E r \in {"ok", "error"} : Complete(r)
      <4>1. spi' = FALSE /\ policy' = FALSE /\ sync' # "none" /\ mishaps' = mishaps \ {"leak"}
        BY <3>1, <3>3 DEF Complete, PolicyPut
      <4>2. "timeout" \notin mishaps => \E c \in Clients : pc[c] = "wait"
        BY <3>1
      <4>3. "timeout" \notin mishaps => \A c \in Clients : ~Needs(c)'
        BY <3>1, <4>1, <4>2
      <4> QED BY <3>1, <4>1, <4>3
    <3> QED BY <2>14, <3>2, <3>3 DEF Isr
  <2>15. CASE Clocked
    BY <2>15 DEF Clocked
  <2>16. CASE PmSuspend
    BY <2>16 DEF PmSuspend
  <2>17. ASSUME NEW channel \in {"tx", "rx"}, DmaCallback(channel) PROVE PolicyInv'
    BY <2>17 DEF DmaCallback
  <2> QED BY <1>1, <1>2, <2>1, <2>2, <2>3, <2>4, <2>5, <2>6, <2>7, <2>8, <2>9, <2>10, <2>11, <2>12, <2>13, <2>14, <2>15, <2>16, <2>17 DEF Next, ClientStep
<1> QED BY <1>1, <1>2, <1>3 DEF Next

(* spi_ll_stm32_optim.c holds the policy lock while it shifts frames and   *)
(* gives it back, for any clients, with the exceptions the property names. *)
THEOREM PolicyAlwaysFollows == Spec => []PolicyFollowsTransfer
<1>1. Inv /\ PolicyInv => PolicyFollowsTransfer
  BY DEF Inv, SpiTypeOK, PolicyInv, PolicyHeld, OnForTransfer, PolicyOwned,
         SuspendedUnlocked, PolicyFollowsTransfer, Needs, InSection, Section
<1>2. Spec => []PolicyInv
  BY Invariance, PolicyInit, PolicyStep, PTL DEF Spec
<1> QED BY <1>1, <1>2, Invariance, PTL
=============================================================================
