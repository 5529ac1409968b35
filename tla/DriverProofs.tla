---------------------------- MODULE DriverProofs ----------------------------
(***************************************************************************)
(* Proofs about the driver below its management interface: the chip's      *)
(* interrupt line, its bus and the packets, for every bus and whichever    *)
(* calls fail, and the policies of the mesh, for every width of the tick   *)
(* counter and any number of callers, peers and slots.                     *)
(***************************************************************************)
EXTENDS ChipIrq, ChipBus, PacketPath, EdgezPolicies, ArithmeticLemmas, TLAPS

(***************************************************************************)
(* The interrupt line.  What the SPI shim saw before it arms is still      *)
(* known when it does.                                                     *)
(***************************************************************************)
SeenBeforeArmed ==
  bus = "spi" /\ library = "arm" /\ line /\ missed = "no" => told \/ irq

IrqInv == IrqTypeOK /\ OnlyKnownMisses /\ SeenBeforeArmed

LEMMA IrqInvInit == IrqInit => IrqInv
BY DEF IrqInit, IrqInv, IrqTypeOK, OnlyKnownMisses, SeenBeforeArmed

LEMMA IrqInvStep == IrqInv /\ [IrqNext]_irqVars => IrqInv'
<1> SUFFICES ASSUME IrqInv, [IrqNext]_irqVars PROVE IrqInv'
  OBVIOUS
<1> USE LinesAssumption
    DEF IrqInv, IrqTypeOK, OnlyKnownMisses, SeenBeforeArmed, Library
<1>1. ASSUME RegisterHandler PROVE IrqInv'
  BY <1>1 DEF RegisterHandler
<1>2. ASSUME ChipAsserts PROVE IrqInv'
  BY <1>2 DEF ChipAsserts
<1>3. ASSUME IrqCallback PROVE IrqInv'
  BY <1>3 DEF IrqCallback, CallHandler
<1>4. ASSUME Serve PROVE IrqInv'
  BY <1>4 DEF Serve
<1>5. ASSUME Poll PROVE IrqInv'
  BY <1>5 DEF Poll
<1>6. ASSUME Enable \/ StopServing PROVE IrqInv'
  BY <1>6 DEF Enable, StopServing
<1>7. ASSUME NEW r \in BOOLEAN, SpiLook(r) PROVE IrqInv'
  BY <1>7 DEF SpiLook, Look, CallHandler
<1>8. ASSUME NEW r \in BOOLEAN, SdioLook(r) PROVE IrqInv'
  BY <1>8 DEF SdioLook, Look, CallHandler
<1>9. ASSUME NEW r \in BOOLEAN, BusyLook(r) PROVE IrqInv'
  BY <1>9 DEF BusyLook, Look, CallHandler
<1>10. ASSUME SpiArm PROVE IrqInv'
  BY <1>10 DEF SpiArm, ArmEdge
<1>11. ASSUME BusyArm PROVE IrqInv'
  BY <1>11 DEF BusyArm, ArmEdge
<1>12. ASSUME NEW r, SdioArm(r) PROVE IrqInv'
  BY <1>12 DEF SdioArm
<1>13. ASSUME StartServing PROVE IrqInv'
  BY <1>13 DEF StartServing, Disable
<1>14. ASSUME UNCHANGED irqVars PROVE IrqInv'
  BY <1>14 DEF irqVars
<1> QED BY <1>1, <1>2, <1>3, <1>4, <1>5, <1>6, <1>7, <1>8, <1>9, <1>10, <1>11,
           <1>12, <1>13, <1>14 DEF IrqNext, LibraryStep

(* The shims' look and edge between them miss nothing but what the poll is *)
(* there for.                                                              *)
THEOREM OnlyKnownMissesEver == IrqSpec => []OnlyKnownMisses
<1>1. IrqInv => OnlyKnownMisses
  BY DEF IrqInv
<1> QED BY <1>1, IrqInvInit, IrqInvStep, PTL DEF IrqSpec

(* The safety half of ImplementsLevelIrq: every step of the shims, the     *)
(* chip and the library is a step of a level interrupt or none.            *)
LEMMA LevelStep ==
  IrqInv /\ [IrqNext]_irqVars => [Level!Next]_(Level!levelVars)
<1> SUFFICES ASSUME IrqInv, [IrqNext]_irqVars PROVE [Level!Next]_(Level!levelVars)
  OBVIOUS
<1> USE DEF IrqInv, IrqTypeOK, Library, Level!Next, Level!levelVars, Level!Assert,
            Level!Tell, Level!Retrieve, Level!Done
<1>a. line' \in BOOLEAN /\ told' \in BOOLEAN
  BY IrqInvStep DEF IrqInv, IrqTypeOK
<1>1. CASE RegisterHandler
  BY <1>1 DEF RegisterHandler
<1>2. CASE ChipAsserts
  BY <1>2 DEF ChipAsserts
<1>3. CASE IrqCallback
  BY <1>3, <1>a DEF IrqCallback, CallHandler
<1>4. CASE Serve
  BY <1>4 DEF Serve
<1>5. CASE Poll
  BY <1>5 DEF Poll
<1>6. CASE Enable \/ StopServing
  BY <1>6 DEF Enable, StopServing
<1>7. ASSUME NEW r \in BOOLEAN, SpiLook(r) \/ SdioLook(r) \/ BusyLook(r)
      PROVE  [Level!Next]_(Level!levelVars)
  BY <1>7, <1>a DEF SpiLook, SdioLook, BusyLook
<1>8. ASSUME NEW r, SpiArm \/ BusyArm \/ SdioArm(r)
      PROVE  [Level!Next]_(Level!levelVars)
  BY <1>8 DEF SpiArm, BusyArm, SdioArm
<1>9. CASE StartServing
  BY <1>9 DEF StartServing
<1>10. CASE UNCHANGED irqVars
  BY <1>10 DEF irqVars
<1> QED BY <1>1, <1>2, <1>3, <1>4, <1>5, <1>6, <1>7, <1>8, <1>9, <1>10
        DEF IrqNext, LibraryStep

(* Whatever a level interrupt may never do, morsemicro_spi.c,              *)
(* morsemicro_sdio.c and the busy line of mmhal_wlan.c never do.           *)
THEOREM ImplementsLevelSafely == IrqSpec => Level!Init /\ [][Level!Next]_(Level!levelVars)
<1>1. IrqInit => Level!Init
  BY DEF IrqInit, Level!Init
<1> QED BY <1>1, IrqInvInit, IrqInvStep, LevelStep, PTL DEF IrqSpec

(***************************************************************************)
(* The bus.  How far a training has come says what it has touched, unless  *)
(* one has failed.                                                         *)
(***************************************************************************)
BusTypeOK ==
  /\ chipSelect \in {"low", "high"}
  /\ lock \in {"none", "driver", "copy", "other"}
  /\ boot \in {"down", "held", "reset", "up", "configure", "train", "release", "restore"}
  /\ other \in {"idle", "transfer"}
  /\ upset \in BOOLEAN /\ evicted \in BOOLEAN

TrainingProgress ==
  /\ boot = "configure" /\ ~upset => chipSelect = "low" /\ lock # "copy"
  /\ boot = "train" /\ ~upset => lock # "copy"
  /\ boot = "restore" => lock # "copy"

BusInv == BusTypeOK /\ TrainingProgress /\ BusUsable

LEMMA BusInvInit == BusInit => BusInv
BY DEF BusInit, BusInv, BusTypeOK, TrainingProgress, BusUsable, Training

LEMMA BusInvStep == BusInv /\ [BusNext]_busVars => BusInv'
<1> SUFFICES ASSUME BusInv, [BusNext]_busVars PROVE BusInv'
  OBVIOUS
<1> USE DEF BusInv, BusTypeOK, TrainingProgress, BusUsable, Training, Boot, Take, SpiRelease
<1>1. CASE WlanInit
  BY <1>1 DEF WlanInit
<1>2. CASE HardReset
  BY <1>2 DEF HardReset
<1>3. CASE Wake
  BY <1>3 DEF Wake
<1>4. CASE WlanDeinit
  BY <1>4 DEF WlanDeinit
<1>5. CASE TrainingConfig
  BY <1>5 DEF TrainingConfig
<1>6. CASE TrainingSelectHigh
  BY <1>6 DEF TrainingSelectHigh
<1>7. CASE TrainingTransfer
  BY <1>7 DEF TrainingTransfer
<1>8. CASE TrainingRelease
  BY <1>8 DEF TrainingRelease
<1>9. CASE TrainingSelectLow
  BY <1>9 DEF TrainingSelectLow
<1>10. CASE Transfer
  BY <1>10 DEF Transfer
<1>11. CASE OtherStarts
  BY <1>11 DEF OtherStarts
<1>12. CASE OtherEnds
  BY <1>12 DEF OtherEnds
<1>13. CASE UNCHANGED busVars
  BY <1>13 DEF busVars
<1> QED BY <1>1, <1>2, <1>3, <1>4, <1>5, <1>6, <1>7, <1>8, <1>9, <1>10, <1>11,
           <1>12, <1>13 DEF BusNext

(* mmhal_wlan_send_training_seq and mmhal_wlan_deinit leave the chip and   *)
(* the shared bus usable, but for a training that fails half-way and a     *)
(* release while the other device's transfer runs.                         *)
THEOREM BusAlwaysUsable == BusSpec => []BusUsable
<1>1. BusInv => BusUsable
  BY DEF BusInv
<1> QED BY <1>1, BusInvInit, BusInvStep, PTL DEF BusSpec

(***************************************************************************)
(* The packets                                                             *)
(***************************************************************************)
PacketInv ==
  /\ tx \in [Vifs -> {"idle", "wait", "alloc", "fill", "send"}]
  /\ tx_pkt \in [Vifs -> {"none", "driver", "library"}]
  /\ rx \in {"idle", "alloc", "write", "recv", "done"}
  /\ \A v \in Vifs : tx[v] \in {"wait", "alloc"} => tx_pkt[v] # "driver"
  /\ rx \in {"alloc", "done"} => rx_pkt # "driver"
  /\ BuffersSettled

LEMMA PacketInvInit == PacketInit => PacketInv
BY DEF PacketInit, PacketInv, BuffersSettled, Vifs

LEMMA PacketInvStep == PacketInv /\ [PacketNext]_packetVars => PacketInv'
<1> SUFFICES ASSUME PacketInv, [PacketNext]_packetVars PROVE PacketInv'
  OBVIOUS
<1> USE DEF PacketInv, BuffersSettled, TxStep, RxStep, OnlyTx, OnlyRx
<1>1. CASE Switch
  BY <1>1 DEF Switch
<1>2. ASSUME NEW v \in Vifs, NetifTx(v) PROVE PacketInv'
  BY <1>2 DEF NetifTx
<1>3. ASSUME NEW v \in Vifs, WaitUntilReady(v) PROVE PacketInv'
  BY <1>3 DEF WaitUntilReady
<1>4. ASSUME NEW v \in Vifs, AllocForTx(v) PROVE PacketInv'
  BY <1>4 DEF AllocForTx
<1>5. ASSUME NEW v \in Vifs, Fill(v) PROVE PacketInv'
  BY <1>5 DEF Fill
<1>6. ASSUME NEW v \in Vifs, TxPkt(v) PROVE PacketInv'
  BY <1>6 DEF TxPkt
<1>7. CASE Received
  BY <1>7 DEF Received
<1>8. CASE RxAlloc
  BY <1>8 DEF RxAlloc
<1>9. CASE RxWrite
  BY <1>9 DEF RxWrite
<1>10. CASE RecvData
  BY <1>10 DEF RecvData
<1>11. CASE RxDone
  BY <1>11 DEF RxDone
<1>12. CASE UNCHANGED packetVars
  BY <1>12 DEF packetVars
<1> QED BY <1>1, <1>2, <1>3, <1>4, <1>5, <1>6, <1>7, <1>8, <1>9, <1>10, <1>11,
           <1>12 DEF PacketNext

(* mmnetif_vif_tx and mmnetif_rx settle every buffer on every path, with   *)
(* both interfaces at work and a region switch at any moment.              *)
THEOREM BuffersAlwaysSettled == PacketSpec => []BuffersSettled
<1>1. PacketInv => BuffersSettled
  BY DEF PacketInv
<1> QED BY <1>1, PacketInvInit, PacketInvStep, PTL DEF PacketSpec

-----------------------------------------------------------------------------
(***************************************************************************)
(* The policies of the mesh, for any width of the tick counter.  Ticks are *)
(* told by how far ahead of now they lie (To), from half the range back to *)
(* just under half the range ahead, which one step of the counter lowers   *)
(* by one unless they come round.                                          *)
(***************************************************************************)
Ticks == 0..(Wrap - 1)

LEMMA Sizes ==
  /\ Wrap \in Nat \ {0} /\ Half \in Nat /\ Wrap = 2 * Half /\ Half >= 2
  /\ Durations \subseteq 0..(Half - 2) /\ Cooldown \in 1..(Half - 1)
<1>1. Wrap \in Nat /\ Wrap > 2 /\ Wrap % 2 = 0
  BY WrapAssumption
<1>2. Half \in Nat /\ Wrap = 2 * Half
  BY <1>1 DEF Half
<1>3. Durations \subseteq 0..(Half - 2) /\ Cooldown \in 1..(Half - 1)
  BY WrapAssumption DEF Half
<1>4. Half >= 2
  BY <1>1, <1>2
<1> QED BY <1>1, <1>2, <1>3, <1>4

(* What a difference stands for, up to whole turns of the counter.         *)
LEMMA SignedMeans ==
  ASSUME NEW d \in Int
  PROVE  /\ Signed(d) \in Int /\ -Half <= Signed(d) /\ Signed(d) < Half
         /\ \E k \in Int : d = Signed(d) + k * Wrap
<1>1. PICK q \in Int, m \in Nat : m = d % Wrap /\ m < Wrap /\ d = q * Wrap + m
  BY Sizes, DivModInt
<1>2. Signed(d) = IF m >= Half THEN m - Wrap ELSE m
  BY <1>1 DEF Signed
<1>3. CASE m >= Half
  <2>1. PICK k \in Int : k = q + 1
    OBVIOUS
  <2>2. d = (m - Wrap) + k * Wrap
    BY <1>1, <2>1, Sizes
  <2>3. m - Wrap \in Int /\ -Half <= m - Wrap /\ m - Wrap < Half
    BY <1>1, <1>3, Sizes
  <2>4. Signed(d) = m - Wrap
    BY <1>2, <1>3
  <2> QED BY <2>2, <2>3, <2>4
<1>4. CASE m < Half
  BY <1>1, <1>2, <1>4, Sizes
<1> QED BY <1>1, <1>3, <1>4, Sizes

LEMMA SignedIs ==
  ASSUME NEW d \in Int, NEW s \in Int, NEW k \in Int, d = s + k * Wrap, -Half <= s, s < Half
  PROVE  Signed(d) = s
<1>1. PICK t \in Int : t = Signed(d) /\ -Half <= t /\ t < Half
  BY SignedMeans
<1>2. PICK n \in Int : d = t + n * Wrap
  BY <1>1, SignedMeans
<1>3. k * Wrap \in Int /\ n * Wrap \in Int /\ s + k * Wrap = t + n * Wrap
  BY <1>2, Sizes
<1>4. ASSUME k < n PROVE FALSE
  BY <1>1, <1>3, <1>4, Multiples, Sizes
<1>5. ASSUME n < k PROVE FALSE
  BY <1>1, <1>3, <1>5, Multiples, Sizes
<1>6. k = n
  BY <1>4, <1>5
<1>7. k * Wrap = n * Wrap
  BY <1>6
<1>8. s = t
  BY <1>3, <1>7
<1> QED BY <1>1, <1>8

(* Two ticks are as far apart as their distances from now say.             *)
LEMMA Apart ==
  ASSUME now \in Int, NEW x \in Int, NEW y \in Int,
         -Half <= To(x) - To(y), To(x) - To(y) < Half
  PROVE  Signed(x - y) = To(x) - To(y)
<1>1. PICK a \in Int, j \in Int : a = To(x) /\ x - now = a + j * Wrap
  BY SignedMeans DEF To
<1>2. PICK b \in Int, k \in Int : b = To(y) /\ y - now = b + k * Wrap
  BY SignedMeans DEF To
<1>3. j * Wrap \in Int /\ k * Wrap \in Int /\ (j - k) * Wrap = j * Wrap - k * Wrap
  BY Sizes
<1>4. x - y = (a - b) + (j - k) * Wrap
  BY <1>1, <1>2, <1>3
<1> QED BY <1>1, <1>2, <1>4, SignedIs

(* Half the range or more ahead compares as behind.                        *)
LEMMA ApartRound ==
  ASSUME now \in Int, NEW x \in Int, NEW y \in Int, To(x) - To(y) >= Half
  PROVE  Signed(x - y) < 0
<1>1. PICK a \in Int, j \in Int : a = To(x) /\ a < Half /\ x - now = a + j * Wrap
  BY SignedMeans DEF To
<1>2. PICK b \in Int, k \in Int : b = To(y) /\ -Half <= b /\ y - now = b + k * Wrap
  BY SignedMeans DEF To
<1>3. /\ j * Wrap \in Int /\ k * Wrap \in Int /\ (j - k) * Wrap = j * Wrap - k * Wrap
      /\ (j - k + 1) * Wrap = (j - k) * Wrap + Wrap
  BY Sizes
<1>4. x - y = (a - b - Wrap) + (j - k + 1) * Wrap
  BY <1>1, <1>2, <1>3, Sizes
<1>5. -Half <= a - b - Wrap /\ a - b - Wrap < 0
  BY <1>1, <1>2, Sizes
<1>6. j - k + 1 \in Int /\ a - b - Wrap \in Int /\ x - y \in Int /\ a - b - Wrap < Half
  BY <1>5, Sizes
<1>7. Signed(x - y) = a - b - Wrap
  BY <1>4, <1>5, <1>6, SignedIs
<1> QED BY <1>5, <1>7

LEMMA ToRange ==
  ASSUME now \in Int, NEW x \in Int
  PROVE  To(x) \in Int /\ -Half <= To(x) /\ To(x) < Half
BY SignedMeans DEF To

LEMMA ToNow == ASSUME now \in Int PROVE To(now) = 0
<1>1. PICK z \in Int : z = now - now /\ z = 0
  OBVIOUS
<1>2. z = 0 + 0 * Wrap
  BY <1>1, Sizes
<1>3. -Half <= 0 /\ 0 < Half
  BY Sizes
<1>4. Signed(z) = 0
  BY <1>2, <1>3, SignedIs
<1> QED BY <1>1, <1>4 DEF To

(* The comparisons of the code.                                            *)
LEMMA SinceIs ==
  ASSUME now \in Int, NEW x \in Int, To(x) > -Half
  PROVE  Signed(now - x) = -To(x)
<1>1. To(now) = 0 /\ To(x) \in Int /\ To(x) < Half
  BY ToNow, ToRange
<1>2. To(now) - To(x) = -To(x) /\ -Half <= -To(x) /\ -To(x) < Half
  BY <1>1, Sizes
<1> QED BY <1>2, Apart

(* A tick comes nearer.                                                    *)
LEMMA Nearer ==
  ASSUME now \in Int, NEW x \in Int, now' = (now + 1) % Wrap, To(x) > -Half
  PROVE  To(x)' = To(x) - 1
<1>1. PICK a \in Int, j \in Int : a = To(x) /\ x - now = a + j * Wrap
  BY SignedMeans DEF To
<1>2. PICK q \in Int, m \in Nat : m = (now + 1) % Wrap /\ now + 1 = q * Wrap + m
  <2>1. Wrap \in Nat \ {0} /\ now + 1 \in Int
    BY Sizes
  <2> QED BY <2>1, DivModInt
<1>3. j * Wrap \in Int /\ q * Wrap \in Int /\ (j + q) * Wrap = j * Wrap + q * Wrap
  BY Sizes
<1>4. x - m = (a - 1) + (j + q) * Wrap
  BY <1>1, <1>2, <1>3
<1>5. -Half <= a - 1 /\ a - 1 < Half
  BY <1>1, ToRange, Sizes
<1>6. Signed(x - m) = a - 1
  BY <1>4, <1>5, SignedIs
<1> QED BY <1>1, <1>2, <1>6 DEF To

(* A tick ahead of now, as the code computes it.                           *)
LEMMA Ahead ==
  ASSUME now \in Int, NEW n \in 0..(Half - 1)
  PROVE  (now + n) % Wrap \in Ticks /\ To((now + n) % Wrap) = n
<1>1. PICK q \in Int, m \in Nat : m = (now + n) % Wrap /\ m < Wrap /\ now + n = q * Wrap + m
  <2>1. Wrap \in Nat \ {0} /\ now + n \in Int
    BY Sizes
  <2> QED BY <2>1, DivModInt
<1>2. q * Wrap \in Int /\ (-q) * Wrap = -(q * Wrap)
  BY Sizes
<1>3. m - now = n + (-q) * Wrap
  BY <1>1, <1>2
<1>4. -Half <= n /\ n < Half
  BY Sizes
<1>5. Signed(m - now) = n
  BY <1>3, <1>4, SignedIs
<1> QED BY <1>1, <1>5, Sizes DEF To, Ticks

LEMMA TickTicks == ASSUME now \in Ticks, now' = (now + 1) % Wrap PROVE now' \in Ticks
<1>1. Wrap \in Nat \ {0} /\ now + 1 \in Int
  BY Sizes DEF Ticks
<1>2. PICK q \in Int, r \in Nat : r = (now + 1) % Wrap /\ r < Wrap
  BY <1>1, DivModInt
<1>3. r \in Ticks
  BY <1>1, <1>2 DEF Ticks
<1> QED BY <1>2, <1>3

-----------------------------------------------------------------------------
(* A frame: the attempts counted are the attempts made.                    *)
ForwardInv ==
  /\ fwd \in [attempt : 0..3, status : {"none", "running", "OK", "FAILED", "RETRY", "UNAUTHORIZED"},
              attempts : 0..3, retries : 0..2, delivered : 0..1]
  /\ fwd.attempts = fwd.attempt /\ (fwd.status = "running" => fwd.attempt <= 2)
  /\ fwd.retries <= fwd.attempt
  /\ ForwardedOnce

LEMMA ForwardInvInit == PolicyInit => ForwardInv
BY DEF PolicyInit, ForwardInv, ForwardedOnce

LEMMA ForwardInvStep == ForwardInv /\ [ForwardNext]_fwd => ForwardInv'
<1> SUFFICES ASSUME ForwardInv, [ForwardNext]_fwd PROVE ForwardInv'
  OBVIOUS
<1> USE DEF ForwardInv, ForwardedOnce
<1>1. CASE UNCHANGED fwd
  BY <1>1
<1>2. CASE ForwardStart
  BY <1>2 DEF ForwardStart
<1>3. CASE Attempt
  <2>1. fwd.status = "running"
    BY <1>3 DEF Attempt
  <2>2. PICK a \in 0..2, r \in 0..2 : a = fwd.attempt /\ a = fwd.attempts /\ r = fwd.retries /\ r <= a
    BY <2>1
  <2>3. fwd = [attempt |-> a, status |-> "running", attempts |-> a, retries |-> r, delivered |-> 0]
    BY <2>1, <2>2
  <2>4. CASE fwd' = [fwd EXCEPT !.status = "UNAUTHORIZED"]
    BY <2>1, <2>4
  <2>5. ASSUME NEW status \in {"OK", "FAILED", "RETRY"},
               fwd' = [attempt |-> a + 1, status |-> IF status = "RETRY" /\ a # 2 THEN "running" ELSE status,
                       attempts |-> a + 1, retries |-> IF status = "RETRY" /\ a # 2 THEN r + 1 ELSE r,
                       delivered |-> IF status = "OK" THEN 1 ELSE 0]
        PROVE  ForwardInv'
    <3>1. a \in 0..2 /\ r \in 0..2 /\ r <= a
      BY <2>2
    <3>2. CASE status = "RETRY" /\ a # 2
      <4>1. PICK b \in 0..2, q \in 0..2 : b = a + 1 /\ q = r + 1 /\ q <= b
        BY <3>1, <3>2
      <4>2. fwd' = [attempt |-> b, status |-> "running", attempts |-> b, retries |-> q, delivered |-> 0]
        BY <2>5, <3>2, <4>1
      <4> QED BY <4>1, <4>2
    <3>3. CASE ~ (status = "RETRY" /\ a # 2)
      <4>1. PICK b \in 0..3 : b = a + 1 /\ r <= b
        BY <3>1
      <4>2. fwd' = [attempt |-> b, status |-> status, attempts |-> b, retries |-> r,
                    delivered |-> IF status = "OK" THEN 1 ELSE 0]
        BY <2>5, <3>3, <4>1
      <4>3. status = "RETRY" => b = 3
        BY <3>1, <3>3, <4>1
      <4> QED BY <3>1, <4>1, <4>2, <4>3
    <3> QED BY <3>2, <3>3
  <2>6. ASSUME NEW status \in {"OK", "FAILED", "RETRY"},
               fwd' = [fwd EXCEPT
                         !.attempts = @ + 1, !.attempt = @ + 1,
                         !.delivered = IF status = "OK" THEN @ + 1 ELSE @,
                         !.retries = IF status = "RETRY" /\ fwd.attempt # 2 THEN @ + 1 ELSE @,
                         !.status = IF status = "RETRY" /\ fwd.attempt # 2 THEN "running" ELSE status]
        PROVE  ForwardInv'
    <3>1. fwd.attempt = a /\ fwd.attempts = a /\ fwd.retries = r /\ fwd.delivered = 0
      BY <2>3
    <3>2. fwd' = [attempt |-> a + 1, status |-> IF status = "RETRY" /\ a # 2 THEN "running" ELSE status,
                  attempts |-> a + 1, retries |-> IF status = "RETRY" /\ a # 2 THEN r + 1 ELSE r,
                  delivered |-> IF status = "OK" THEN 1 ELSE 0]
      <4>1. CASE status = "RETRY" /\ a # 2
        BY <2>3, <2>6, <3>1, <4>1
      <4>2. CASE status = "RETRY" /\ a = 2
        BY <2>3, <2>6, <3>1, <4>2
      <4>3. CASE status = "OK"
        <5>1. fwd.delivered + 1 = 1
          BY <3>1
        <5> QED BY <2>3, <2>6, <3>1, <4>3, <5>1
      <4>4. CASE status = "FAILED"
        BY <2>3, <2>6, <3>1, <4>4
      <4> QED BY <4>1, <4>2, <4>3, <4>4
    <3> QED BY <2>5, <3>2
  <2> QED BY <1>3, <2>4, <2>6 DEF Attempt
<1> QED BY <1>1, <1>2, <1>3 DEF ForwardNext

(* The one scan: the callers that busy stands for are one or none.  Who is *)
(* about to clear busy has no scan queued.                                 *)
RequestInv ==
  /\ busy \in BOOLEAN /\ queued \subseteq Callers /\ uncovered \subseteq Active
  /\ submit \in [Callers -> {"idle", "enqueue", "taken", "refused", "late"}]
  /\ \A c \in Callers : submit[c] \in {"enqueue", "refused", "late"} => c \notin queued
  /\ OneScan

LEMMA RequestInvInit == PolicyInit => RequestInv
BY DEF PolicyInit, RequestInv, OneScan, Active

(* Clearing busy, by a caller whose scan is over or was not its own.       *)
LEMMA RequestClear ==
  ASSUME RequestInv, NEW c \in Callers, Clear(c), Active' = Active \ {c}
  PROVE  OneScan' /\ uncovered' \subseteq Active' /\ busy' \in BOOLEAN
<1> USE DEF RequestInv, OneScan, Clear
<1> HIDE DEF Active
<1>1. CASE c \in Active \ uncovered
  <2>1. uncovered' = uncovered /\ busy' = FALSE
    BY <1>1
  <2>2. Active \ uncovered = {c}
    BY <1>1
  <2> QED BY <2>1, <2>2
<1>2. CASE c \notin Active \ uncovered
  <2>1. uncovered' = (uncovered \union Active) \ {c} /\ busy' = FALSE
    BY <1>2
  <2>2. uncovered' = Active'
    BY <2>1
  <2> QED BY <2>1, <2>2
<1> QED BY <1>1, <1>2

LEMMA RequestInvStep == RequestInv /\ [RequestNext]_requestVars => RequestInv'
<1> SUFFICES ASSUME RequestInv, [RequestNext]_requestVars PROVE RequestInv'
  OBVIOUS
<1>1. CASE UNCHANGED requestVars
  BY <1>1 DEF requestVars, RequestInv, OneScan, Active
<1>2. ASSUME NEW c \in Callers, Submit(c) PROVE RequestInv'
  <2>1. Active' = Active \union {c} /\ c \notin Active
    BY <1>2 DEF Submit, SubmitStep, Active, RequestInv
  <2>2. busy' /\ uncovered' = uncovered /\ Active = uncovered /\ queued' = queued
    BY <1>2 DEF Submit, RequestInv, OneScan
  <2>3. OneScan' /\ uncovered' \subseteq Active'
    <3>1. Active' \ uncovered' = {c}
      BY <2>1, <2>2
    <3> QED BY <2>1, <2>2, <3>1 DEF OneScan
  <2> QED BY <1>2, <2>2, <2>3 DEF Submit, SubmitStep, RequestInv
<1>3. ASSUME NEW c \in Callers, Enqueue(c) PROVE RequestInv'
  <2>1. Active' = Active /\ UNCHANGED <<busy, uncovered>>
    BY <1>3 DEF Enqueue, SubmitStep, Active, RequestInv
  <2>2. OneScan' /\ uncovered' \subseteq Active'
    BY <2>1 DEF RequestInv, OneScan
  <2> QED BY <1>3, <2>1, <2>2 DEF Enqueue, SubmitStep, RequestInv
<1>4. ASSUME NEW c \in Callers, EnqueueReturns(c) PROVE RequestInv'
  <2>1. Active' = Active /\ UNCHANGED <<busy, uncovered>>
    BY <1>4 DEF EnqueueReturns, SubmitStep, Active, RequestInv
  <2>2. OneScan' /\ uncovered' \subseteq Active'
    BY <2>1 DEF RequestInv, OneScan
  <2> QED BY <1>4, <2>1, <2>2 DEF EnqueueReturns, SubmitStep, RequestInv
<1>5. ASSUME NEW c \in Callers, Refused(c) PROVE RequestInv'
  <2>1. Active' = Active \ {c} /\ Clear(c)
    BY <1>5 DEF Refused, SubmitStep, Active, RequestInv
  <2>2. OneScan' /\ uncovered' \subseteq Active' /\ busy' \in BOOLEAN
    BY <2>1, RequestClear
  <2> QED BY <1>5, <2>2 DEF Refused, SubmitStep, RequestInv
<1>6. ASSUME NEW c \in Callers, Completion(c) PROVE RequestInv'
  <2>1. Active' = Active \ {c} /\ Clear(c)
    BY <1>6 DEF Completion, Active, RequestInv
  <2>2. OneScan' /\ uncovered' \subseteq Active' /\ busy' \in BOOLEAN
    BY <2>1, RequestClear
  <2> QED BY <1>6, <2>2 DEF Completion, RequestInv
<1> QED BY <1>1, <1>2, <1>3, <1>4, <1>5, <1>6 DEF RequestNext

-----------------------------------------------------------------------------
(* Recovery: the ticks a peer cools down for are those from now to the     *)
(* tick kept in its slot, until that has aged.                             *)
Slot == [addr : Peers \union {"none"}, retry_after : Ticks, valid : BOOLEAN]

SlotSettled(i) ==
  IF peers[i].valid
    THEN /\ peers[i].addr \in Peers
         /\ i \in aged => cooling[peers[i].addr] = 0
         /\ i \notin aged =>
              /\ To(peers[i].retry_after) > -Half
              /\ cooling[peers[i].addr] = Larger(To(peers[i].retry_after), 0)
    ELSE peers[i].addr = "none"

OneSlotEach ==
  \A i, j \in Slots :
    peers[i].valid /\ peers[j].valid /\ peers[i].addr = peers[j].addr => i = j

RecoveryInv ==
  /\ now \in Ticks
  /\ peers \in [Slots -> Slot] /\ cooling \in [Peers -> Nat]
  /\ \A i \in Slots : SlotSettled(i)
  /\ OneSlotEach
  /\ \A p \in Peers : Known(p) = {} => cooling[p] = 0

LEMMA RecoveryInvInit == PolicyInit => RecoveryInv
<1> SUFFICES ASSUME PolicyInit PROVE RecoveryInv
  OBVIOUS
<1>1. Wrap \in Nat \ {0} /\ Capacity \in Nat
  BY Sizes, WrapAssumption
<1>2. now \in Ticks /\ 0 \in Ticks
  BY <1>1 DEF PolicyInit, Ticks
<1>3. peers \in [Slots -> Slot] /\ cooling \in [Peers -> Nat]
  BY <1>2 DEF PolicyInit, Slot
<1>4. \A i \in Slots : ~ peers[i].valid /\ peers[i].addr = "none"
  BY DEF PolicyInit
<1>5. \A p \in Peers : cooling[p] = 0
  BY DEF PolicyInit
<1> QED BY <1>2, <1>3, <1>4, <1>5 DEF RecoveryInv, SlotSettled, OneSlotEach

LEMMA RecoveryTick == RecoveryInv /\ Tick => RecoveryInv'
<1> SUFFICES ASSUME RecoveryInv, Tick PROVE RecoveryInv'
  OBVIOUS
<1>1. now \in Ticks /\ now' = (now + 1) % Wrap /\ peers' = peers /\ cooling' = Decrement(cooling)
  BY DEF RecoveryInv, Tick
<1>2. now' \in Ticks /\ now \in Int
  BY <1>1, TickTicks, Sizes DEF Ticks
<1>3. cooling \in [Peers -> Nat] /\ DOMAIN cooling = Peers
  BY DEF RecoveryInv
<1>4. \A p \in Peers : cooling'[p] = IF cooling[p] > 0 THEN cooling[p] - 1 ELSE 0
  BY <1>1, <1>3 DEF Decrement
<1>5. cooling' \in [Peers -> Nat]
  BY <1>1, <1>3 DEF Decrement
<1>6. ASSUME NEW i \in Slots PROVE SlotSettled(i)'
  <2>1. SlotSettled(i) /\ peers[i] \in Slot
    BY DEF RecoveryInv
  <2>2. CASE peers[i].valid
    <3>1. PICK r \in Ticks, p \in Peers : r = peers[i].retry_after /\ p = peers[i].addr
      BY <2>1, <2>2 DEF Slot, SlotSettled
    <3>2. PICK n \in Nat, s \in Int :
            n = cooling[p] /\ cooling'[p] = (IF n > 0 THEN n - 1 ELSE 0) /\ s = To(r)
      BY <1>2, <1>3, <1>4, <3>1, ToRange, Sizes DEF Ticks
    <3>3. peers'[i].retry_after = r /\ peers'[i].addr = p /\ peers'[i].valid
      BY <1>1, <2>2, <3>1
    <3>4. i \in aged' <=> i \in aged \/ s = 1 - Half
      BY <2>2, <3>1, <3>2 DEF Tick
    <3>5. CASE i \in aged
      <4>1. n = 0
        BY <2>1, <2>2, <3>1, <3>2, <3>5 DEF SlotSettled
      <4> QED BY <3>2, <3>3, <3>4, <3>5, <4>1 DEF SlotSettled
    <3>6. CASE i \notin aged
      <4>1. s > -Half /\ n = Larger(s, 0)
        BY <2>1, <2>2, <3>1, <3>2, <3>6 DEF SlotSettled
      <4>2. CASE s = 1 - Half
        <5>1. n = 0
          BY <4>1, <4>2, Sizes DEF Larger
        <5> QED BY <3>2, <3>3, <3>4, <4>2, <5>1 DEF SlotSettled
      <4>3. CASE s # 1 - Half
        <5>1. r \in Int
          BY Sizes DEF Ticks
        <5>2. PICK t \in Int : t = s - 1 /\ To(r)' = t
          BY <1>1, <1>2, <3>2, <4>1, <5>1, Nearer
        <5>3. n \in Nat /\ s \in Int /\ t \in Int /\ t = s - 1
          BY <3>2, <5>2
        <5>4. t > -Half
          BY <4>1, <4>3, <5>3, Sizes
        <5>5. (IF n > 0 THEN n - 1 ELSE 0) = Larger(t, 0)
          BY <4>1, <5>3 DEF Larger
        <5>6. i \notin aged'
          BY <3>4, <3>6, <4>3
        <5> QED BY <3>2, <3>3, <5>2, <5>4, <5>5, <5>6 DEF SlotSettled
      <4> QED BY <4>2, <4>3
    <3> QED BY <3>5, <3>6
  <2>3. CASE ~ peers[i].valid
    BY <1>1, <2>1, <2>3 DEF SlotSettled
  <2> QED BY <2>2, <2>3
<1>7. OneSlotEach'
  BY <1>1 DEF RecoveryInv, OneSlotEach
<1>8. ASSUME NEW p \in Peers, Known(p)' = {} PROVE cooling'[p] = 0
  <2>1. Known(p) = {}
    BY <1>1, <1>8 DEF Known
  <2>2. cooling[p] = 0
    BY <2>1 DEF RecoveryInv
  <2> QED BY <1>4, <2>2
<1>9. peers' \in [Slots -> Slot]
  BY <1>1 DEF RecoveryInv
<1> QED BY <1>2, <1>5, <1>6, <1>7, <1>8, <1>9 DEF RecoveryInv

LEMMA MinIs ==
  ASSUME NEW S \in SUBSET Nat, S # {}
  PROVE  Min(S) \in S
<1>1. \E x \in S : \A y \in S : x <= y
  BY Smallest
<1> QED BY <1>1 DEF Min

(* The loop that looks for a slot, and its choice after each of them.      *)
Choice(i, before) ==
  IF i > 1 /\ Signed(peers[i].retry_after - peers[before].retry_after) >= 0 THEN before ELSE i

ChosenUpTo(n, f) == f = [i \in 1..n |-> Choice(i, f[i - 1])]

LEMMA ChoicesExist == \E f : ChosenUpTo(Capacity, f)
<1> DEFINE Bad == {n \in 1..Capacity : ~ \E f : ChosenUpTo(n, f)}
<1>1. Capacity \in Nat \ {0}
  BY WrapAssumption
<1>2. SUFFICES ASSUME Bad # {} PROVE FALSE
  BY <1>1
<1>3. PICK x \in Bad : \A y \in Bad : x <= y
  <2>1. Bad \in SUBSET Nat
    OBVIOUS
  <2> HIDE DEF Bad
  <2> QED BY <1>2, <2>1, Smallest
<1>4. x \in Nat /\ x \in 1..Capacity
  BY <1>1
<1>5. CASE x = 1
  <2> DEFINE g == [i \in 1..1 |-> 1]
  <2>1. \A i \in 1..1 : Choice(i, g[i - 1]) = 1
    BY DEF Choice
  <2>2. ChosenUpTo(1, g)
    BY <2>1 DEF ChosenUpTo
  <2> QED BY <1>3, <1>5, <2>2
<1>6. CASE x > 1
  <2>1. x - 1 \in 1..Capacity /\ x - 1 \notin Bad
    BY <1>1, <1>3, <1>4, <1>6
  <2>2. PICK f : ChosenUpTo(x - 1, f)
    BY <2>1
  <2> DEFINE g == [i \in 1..x |-> IF i = x THEN Choice(x, f[x - 1]) ELSE f[i]]
  <2>3. \A i \in 1..(x - 1) : f[i] = Choice(i, f[i - 1])
    BY <2>2 DEF ChosenUpTo
  <2>4. \A i \in 1..x : g[i] = Choice(i, g[i - 1])
    <3>1. TAKE i \in 1..x
    <3>2. CASE i = x
      <4>1. g[i] = Choice(x, f[x - 1]) /\ x - 1 \in 1..x /\ x - 1 # x
        BY <1>4, <1>6, <3>2
      <4>2. g[x - 1] = f[x - 1]
        BY <4>1
      <4> QED BY <3>2, <4>1, <4>2
    <3>3. CASE i = 1
      <4>1. g[i] = f[1] /\ 1 \in 1..(x - 1)
        BY <1>4, <1>6, <3>3
      <4>2. f[1] = 1
        BY <2>3, <4>1 DEF Choice
      <4>3. Choice(1, g[0]) = 1
        BY DEF Choice
      <4> QED BY <3>3, <4>1, <4>2, <4>3
    <3>4. CASE i \in 2..(x - 1)
      <4>1. i - 1 \in 1..x /\ i - 1 # x /\ i # x
        BY <1>4, <3>4
      <4>2. g[i - 1] = f[i - 1] /\ g[i] = f[i]
        BY <4>1
      <4>3. i \in 1..(x - 1)
        BY <1>4, <3>4
      <4> QED BY <2>3, <4>2, <4>3
    <3> QED BY <1>4, <3>2, <3>3, <3>4
  <2>5. ChosenUpTo(x, g)
    BY <2>4 DEF ChosenUpTo
  <2> QED BY <1>3, <2>5
<1> QED BY <1>4, <1>5, <1>6

LEMMA OldestIs == Oldest \in Slots
<1> DEFINE slot == CHOOSE f : ChosenUpTo(Capacity, f)
<1>1. Capacity \in Nat \ {0}
  BY WrapAssumption
<1>2. ChosenUpTo(Capacity, slot)
  BY ChoicesExist
<1>3. Oldest = slot[Capacity]
  BY DEF Oldest, ChosenUpTo, Choice, Slots
<1> HIDE DEF slot
<1>4. \A i \in 1..Capacity : slot[i] = Choice(i, slot[i - 1])
  BY <1>2 DEF ChosenUpTo
<1> DEFINE Bad == {n \in 1..Capacity : slot[n] \notin 1..Capacity}
<1>5. Bad = {}
  <2>1. SUFFICES ASSUME Bad # {} PROVE FALSE
    OBVIOUS
  <2>2. PICK x \in Bad : \A y \in Bad : x <= y
    <3>1. Bad \in SUBSET Nat
      OBVIOUS
    <3> HIDE DEF Bad
    <3> QED BY <2>1, <3>1, Smallest
  <2>3. x \in 1..Capacity /\ slot[x] \notin 1..Capacity
    BY <1>1
  <2>4. slot[x] = slot[x - 1] /\ x > 1
    BY <1>1, <1>4, <2>3 DEF Choice
  <2>5. x - 1 \in 1..Capacity /\ x - 1 \notin Bad
    BY <1>1, <2>2, <2>3, <2>4
  <2> QED BY <2>3, <2>4, <2>5
<1>6. Capacity \in 1..Capacity
  BY <1>1
<1> QED BY <1>3, <1>5, <1>6 DEF Slots

LEMMA SlotForIs ==
  ASSUME NEW p \in Peers
  PROVE  /\ SlotFor(p) \in Slots
         /\ Known(p) # {} => SlotFor(p) \in Known(p)
<1>1. Known(p) \in SUBSET Nat /\ Free \in SUBSET Nat /\ Known(p) \subseteq Slots /\ Free \subseteq Slots
  BY DEF Known, Free, Slots
<1>2. CASE Known(p) # {}
  BY <1>1, <1>2, MinIs DEF SlotFor
<1>3. CASE Known(p) = {} /\ Free # {}
  BY <1>1, <1>3, MinIs DEF SlotFor
<1>4. CASE Known(p) = {} /\ Free = {}
  BY <1>4, OldestIs DEF SlotFor
<1> QED BY <1>2, <1>3, <1>4

LEMMA RecoveryStep ==
  ASSUME RecoveryInv, NEW p \in Peers, Recover(p)
  PROVE  RecoveryInv'
<1>1. PICK s \in Slots : s = SlotFor(p) /\ (Known(p) # {} => s \in Known(p))
  BY SlotForIs
<1>2. PICK r \in Ticks : r = (now + Cooldown) % Wrap /\ To(r) = Cooldown
  <2>1. now \in Int /\ Cooldown \in 0..(Half - 1)
    BY Sizes DEF RecoveryInv, Ticks
  <2> QED BY <2>1, Ahead
<1>3. now' = now /\ peers' = [peers EXCEPT ![s] = [addr |-> p, retry_after |-> r, valid |-> TRUE]]
  BY <1>1, <1>2 DEF Recover, OnlyRecovery
<1>4. /\ cooling' = [q \in Peers |-> IF q = p THEN Cooldown ELSE IF q = peers[s].addr THEN 0 ELSE cooling[q]]
      /\ aged' = aged \ {s}
  BY <1>1 DEF Recover
<1>5. now \in Ticks /\ peers \in [Slots -> Slot] /\ cooling \in [Peers -> Nat] /\ OneSlotEach
  BY DEF RecoveryInv
<1>6. Cooldown \in Nat /\ Cooldown > -Half /\ Cooldown = Larger(Cooldown, 0)
  BY Sizes DEF Larger
<1>7. cooling' \in [Peers -> Nat]
  BY <1>4, <1>5, <1>6
<1>8. peers' \in [Slots -> Slot] /\ peers'[s] = [addr |-> p, retry_after |-> r, valid |-> TRUE]
  BY <1>1, <1>3, <1>5 DEF Slot
<1>9. \A i \in Slots : i # s => peers'[i] = peers[i]
  BY <1>3, <1>5
<1>10. ASSUME NEW i \in Slots, i # s, peers[i].valid
       PROVE  peers[i].addr # p /\ peers[i].addr # peers[s].addr /\ peers[i].addr \in Peers
  <2>1. SlotSettled(i) /\ SlotSettled(s)
    BY DEF RecoveryInv
  <2>2. peers[i].addr \in Peers
    BY <1>10, <2>1 DEF SlotSettled
  <2>3. peers[i].addr # peers[s].addr
    <3>1. CASE peers[s].valid
      BY <1>1, <1>5, <1>10, <3>1 DEF OneSlotEach
    <3>2. CASE ~ peers[s].valid
      BY <2>1, <2>2, <3>2, WrapAssumption DEF SlotSettled
    <3> QED BY <3>1, <3>2
  <2>4. ASSUME peers[i].addr = p PROVE FALSE
    <3>1. i \in Known(p)
      BY <1>10, <2>4 DEF Known
    <3>2. peers[s].addr = p
      BY <1>1, <3>1 DEF Known
    <3> QED BY <2>3, <2>4, <3>2
  <2> QED BY <2>2, <2>3, <2>4
<1>11. ASSUME NEW i \in Slots PROVE SlotSettled(i)'
  <2>1. CASE i = s
    <3>1. peers'[i].valid /\ peers'[i].addr = p /\ peers'[i].retry_after = r /\ i \notin aged'
      BY <1>4, <1>8, <2>1
    <3>2. cooling'[p] = Cooldown
      BY <1>4
    <3>3. To(r)' = Cooldown
      BY <1>2, <1>3 DEF To
    <3> QED BY <1>6, <3>1, <3>2, <3>3 DEF SlotSettled
  <2>2. CASE i # s /\ peers[i].valid
    <3>1. PICK q \in Peers, u \in Ticks : q = peers[i].addr /\ u = peers[i].retry_after /\ q # p /\ q # peers[s].addr
      BY <1>5, <1>10, <2>2 DEF Slot
    <3>2. cooling'[q] = cooling[q] /\ (i \in aged' <=> i \in aged)
      BY <1>4, <2>2, <3>1
    <3>3. peers'[i].valid /\ peers'[i].addr = q /\ peers'[i].retry_after = u
      BY <1>9, <2>2, <3>1
    <3>4. To(u)' = To(u)
      BY <1>3 DEF To
    <3>5. /\ i \in aged => cooling[q] = 0
          /\ i \notin aged => To(u) > -Half /\ cooling[q] = Larger(To(u), 0)
      BY <2>2, <3>1 DEF RecoveryInv, SlotSettled
    <3> QED BY <3>1, <3>2, <3>3, <3>4, <3>5 DEF SlotSettled
  <2>3. CASE i # s /\ ~ peers[i].valid
    BY <1>9, <2>3 DEF RecoveryInv, SlotSettled
  <2> QED BY <2>1, <2>2, <2>3
<1>12. OneSlotEach'
  <2> SUFFICES ASSUME NEW i \in Slots, NEW j \in Slots,
                      peers'[i].valid, peers'[j].valid, peers'[i].addr = peers'[j].addr
               PROVE  i = j
    BY DEF OneSlotEach
  <2>1. CASE i = s /\ j # s
    BY <1>8, <1>9, <1>10, <2>1
  <2>2. CASE i # s /\ j = s
    BY <1>8, <1>9, <1>10, <2>2
  <2>3. CASE i # s /\ j # s
    BY <1>5, <1>9, <2>3 DEF OneSlotEach
  <2> QED BY <2>1, <2>2, <2>3
<1>13. ASSUME NEW q \in Peers, Known(q)' = {} PROVE cooling'[q] = 0
  <2>1. q # p
    <3>1. s \in Known(p)'
      BY <1>8 DEF Known
    <3> QED BY <1>13, <3>1
  <2>2. CASE q = peers[s].addr
    BY <1>4, <2>1, <2>2
  <2>3. CASE q # peers[s].addr
    <3>1. ASSUME NEW i \in Known(q) PROVE FALSE
      <4>1. i \in Slots /\ i # s /\ peers[i].valid /\ peers[i].addr = q
        BY <2>3, <3>1 DEF Known
      <4>2. i \in Known(q)'
        BY <1>9, <4>1 DEF Known
      <4> QED BY <1>13, <4>2
    <3>2. cooling[q] = 0
      BY <3>1 DEF RecoveryInv
    <3> QED BY <1>4, <2>1, <2>3, <3>2
  <2> QED BY <2>2, <2>3
<1>14. now' \in Ticks
  BY <1>3, <1>5
<1> QED BY <1>7, <1>8, <1>11, <1>12, <1>13, <1>14 DEF RecoveryInv

LEMMA RecoveryInvStep == RecoveryInv /\ [RecoveryNext]_<<now, recoveryVars>> => RecoveryInv'
<1> SUFFICES ASSUME RecoveryInv, [RecoveryNext]_<<now, recoveryVars>> PROVE RecoveryInv'
  OBVIOUS
<1>1. CASE UNCHANGED <<now, recoveryVars>>
  BY <1>1 DEF recoveryVars, RecoveryInv, SlotSettled, OneSlotEach, Known, To
<1> QED BY <1>1, RecoveryTick, RecoveryStep DEF RecoveryNext

(* The slots tell whether a peer cools down.                               *)
LEMMA RecoveryHolds == RecoveryInv => CooldownKept
<1> SUFFICES ASSUME RecoveryInv PROVE CooldownKept
  OBVIOUS
<1>1. OneSlotEach
  BY DEF RecoveryInv
<1>2. ASSUME NEW p \in Peers, NEW i \in Known(p), i \notin aged
      PROVE  cooling[p] > 0 <=> Refuses(i)
  <2>1. i \in Slots /\ peers[i].valid /\ peers[i].addr = p /\ SlotSettled(i)
    BY <1>2 DEF Known, RecoveryInv
  <2>2. PICK r \in Ticks : r = peers[i].retry_after
    BY <2>1 DEF RecoveryInv, Slot
  <2>3. now \in Int /\ r \in Int
    BY Sizes DEF RecoveryInv, Ticks
  <2>4. PICK a \in Int : a = To(r)
    BY <2>3, ToRange
  <2>5. a > -Half /\ cooling[p] = Larger(a, 0)
    BY <1>2, <2>1, <2>2, <2>4 DEF SlotSettled
  <2>6. Signed(now - r) = -a
    BY <2>3, <2>4, <2>5, SinceIs
  <2>7. cooling[p] > 0 <=> a > 0
    BY <2>4, <2>5 DEF Larger
  <2>8. -a < 0 <=> a > 0
    BY <2>4
  <2> QED BY <2>2, <2>6, <2>7, <2>8 DEF Refuses
<1>3. ASSUME NEW p \in Peers, cooling[p] > 0 PROVE \E i \in Known(p) : Refuses(i)
  <2>1. PICK i \in Known(p) : TRUE
    BY <1>3 DEF RecoveryInv
  <2>2. i \in Slots /\ peers[i].valid /\ peers[i].addr = p /\ SlotSettled(i)
    BY <2>1 DEF Known, RecoveryInv
  <2>3. i \notin aged
    BY <1>3, <2>2 DEF SlotSettled
  <2> QED BY <1>2, <1>3, <2>1, <2>3
<1> QED BY <1>1, <1>2, <1>3 DEF CooldownKept, OneSlotEach


-----------------------------------------------------------------------------
(* Holds: a deferral in progress asks for a hold from its clock, not after *)
(* now and less than half the range ago, for less than half the range; it  *)
(* tries to swap only when what it has seen of the deadline allows it.     *)
Deferral == [at : {"idle", "load", "try"}, now : Ticks, current : Ticks, proposed : Ticks]

Asks(n, p) == n \in (1 - Half)..0 /\ p - n \in 0..(Half - 2)

Asked(c) ==
  defer[c].at # "idle" =>
    /\ Asks(To(defer[c].now), To(defer[c].proposed))
    /\ defer[c].at = "try" => Later(defer[c])

Covered == To(deadline) > 0 /\ ~lapsed => \E c \in Callers : ends[c] >= To(deadline)

HoldType ==
  /\ now \in Ticks /\ deadline \in Ticks /\ lapsed \in BOOLEAN
  /\ defer \in [Callers -> Deferral] /\ ends \in [Callers -> Nat]

HoldInv ==
  /\ HoldType
  /\ \A c \in Callers : Asked(c)
  /\ \A c \in Callers : ends[c] > 0 => ends[c] <= To(deadline)
  /\ Covered

LEMMA HoldInvInit == PolicyInit => HoldInv
<1> SUFFICES ASSUME PolicyInit PROVE HoldInv
  OBVIOUS
<1>1. now \in Ticks /\ 0 \in Ticks /\ deadline = now /\ now \in Int
  BY Sizes DEF PolicyInit, Ticks
<1>2. \A c \in Callers : defer[c].at = "idle" /\ ends[c] = 0
  BY DEF PolicyInit, Idle
<1>3. HoldType
  BY <1>1 DEF PolicyInit, HoldType, Deferral, Idle
<1>4. To(deadline) = 0
  BY <1>1, ToNow
<1> QED BY <1>2, <1>3, <1>4 DEF HoldInv, Asked, Covered

(* The ticks of a deferral in progress, and the deadline's.                *)
LEMMA HoldTicks ==
  ASSUME HoldInv, NEW c \in Callers, defer[c].at # "idle"
  PROVE  \E x, y, z \in Ticks, n, p \in Int :
           /\ x = defer[c].now /\ y = defer[c].proposed /\ z = defer[c].current
           /\ x \in Int /\ y \in Int /\ z \in Int
           /\ n = To(x) /\ p = To(y) /\ Asks(n, p)
<1>1. PICK x \in Ticks, y \in Ticks, z \in Ticks :
        x = defer[c].now /\ y = defer[c].proposed /\ z = defer[c].current
  BY DEF HoldInv, HoldType, Deferral
<1>2. now \in Int /\ x \in Int /\ y \in Int /\ z \in Int
  BY <1>1, Sizes DEF HoldInv, HoldType, Ticks
<1>3. PICK n \in Int, p \in Int : n = To(x) /\ p = To(y)
  BY <1>2, ToRange
<1>4. Asks(n, p)
  BY <1>1, <1>3 DEF HoldInv, Asked
<1> QED BY <1>1, <1>2, <1>3, <1>4

LEMMA HoldDeadline ==
  ASSUME HoldInv
  PROVE  /\ now \in Ticks /\ now \in Int /\ deadline \in Ticks /\ deadline \in Int
         /\ To(deadline) \in Int /\ -Half <= To(deadline) /\ To(deadline) < Half
<1>1. now \in Ticks /\ now \in Int /\ deadline \in Ticks /\ deadline \in Int
  BY Sizes DEF HoldInv, HoldType, Ticks
<1> QED BY <1>1, ToRange

(* The two comparisons of edgez_scan_defer, for a clock at n, a hold until *)
(* p and a deadline at l.                                                  *)
LEMMA Compared ==
  ASSUME HoldInv, NEW c \in Callers, defer[c].at # "idle",
         NEW d, d.now = defer[c].now, d.proposed = defer[c].proposed, d.current = deadline,
         NEW n \in Int, n = To(defer[c].now), NEW p \in Int, p = To(defer[c].proposed),
         NEW l \in Int, l = To(deadline)
  PROVE  /\ Later(d) /\ l - n < Half => l <= 0 \/ p > l
         /\ ~Later(d) => l - n < Half /\ p <= l
<1>1. PICK x \in Ticks, y \in Ticks :
        x = defer[c].now /\ y = defer[c].proposed /\ x \in Int /\ y \in Int /\ Asks(n, p)
  BY HoldTicks
<1>2. n = To(x) /\ p = To(y)
  BY <1>1
<1>3. now \in Int /\ deadline \in Int /\ -Half <= l /\ l < Half
  BY HoldDeadline
<1>4. d.now = x /\ d.proposed = y /\ d.current = deadline
  BY <1>1
<1>5. n \in Int /\ p \in Int /\ l \in Int /\ Half \in Nat /\ 1 - Half <= n /\ n <= 0
  /\ 0 <= p - n /\ p - n <= Half - 2
  BY <1>1, Sizes DEF Asks
<1>6. ASSUME l - n >= Half PROVE Signed(deadline - x) < 0
  BY <1>1, <1>2, <1>3, <1>6, ApartRound
<1>7. ASSUME l - n < Half PROVE Signed(deadline - x) = l - n
  <2>1. -Half <= l - n
    BY <1>3, <1>5
  <2> QED BY <1>1, <1>2, <1>3, <1>7, <2>1, Apart
<1>8. ASSUME l - n < Half, l - n > 0 PROVE Signed(y - deadline) = p - l
  <2>1. -Half <= p - l /\ p - l < Half
    BY <1>5, <1>8
  <2> QED BY <1>1, <1>2, <1>3, <2>1, Apart
<1>9. Later(d) <=> Signed(deadline - x) <= 0 \/ Signed(y - deadline) > 0
  BY <1>4 DEF Later
<1>10. ASSUME Later(d), l - n < Half PROVE l <= 0 \/ p > l
  <2>1. CASE l - n > 0
    <3>1. Signed(deadline - x) = l - n /\ Signed(y - deadline) = p - l
      BY <1>7, <1>8, <1>10, <2>1
    <3>2. l - n <= 0 \/ p - l > 0
      BY <1>9, <1>10, <3>1
    <3> QED BY <1>5, <2>1, <3>2
  <2>2. CASE ~(l - n > 0)
    BY <1>5, <2>2
  <2> QED BY <2>1, <2>2
<1>11. ASSUME ~Later(d) PROVE l - n < Half /\ p <= l
  <2>1. PICK s \in Int : s = Signed(deadline - x)
    BY <1>1, <1>3, SignedMeans
  <2>2. ~(s <= 0) /\ ~(Signed(y - deadline) > 0)
    BY <1>9, <1>11, <2>1
  <2>3. l - n < Half
    <3>1. ASSUME l - n >= Half PROVE FALSE
      BY <1>6, <2>1, <2>2, <3>1
    <3> QED BY <1>5, <3>1
  <2>4. l - n > 0
    BY <1>5, <1>7, <2>1, <2>2, <2>3
  <2>5. ~(p - l > 0)
    BY <1>8, <2>2, <2>3, <2>4
  <2> QED BY <1>5, <2>3, <2>5
<1> QED BY <1>10, <1>11

LEMMA HoldTick == HoldInv /\ Tick => HoldInv'
<1> SUFFICES ASSUME HoldInv, Tick PROVE HoldInv'
  OBVIOUS
<1>1. now' = (now + 1) % Wrap /\ deadline' = deadline /\ defer' = defer /\ ends' = Decrement(ends)
  BY DEF Tick
<1>2. PICK l \in Int : l = To(deadline) /\ -Half <= l /\ l < Half
  BY HoldDeadline
<1>3. ends \in [Callers -> Nat] /\ \A c \in Callers : ends[c] > 0 => ends[c] <= l
  BY <1>2 DEF HoldInv, HoldType
<1>4. ends' \in [Callers -> Nat]
      /\ \A c \in Callers : ends'[c] = IF ends[c] > 0 THEN ends[c] - 1 ELSE 0
  BY <1>1, <1>3 DEF Decrement
<1>5. lapsed' = (lapsed \/ l = -Half)
  BY <1>2 DEF Tick
<1>6. HoldType'
  <2>1. now' \in Ticks
    BY <1>1, TickTicks, HoldDeadline
  <2>2. lapsed' \in BOOLEAN
    BY <1>5
  <2> QED BY <1>1, <1>4, <2>1, <2>2 DEF HoldInv, HoldType
<1>7. l # -Half => To(deadline)' = l - 1
  <2> SUFFICES ASSUME l # -Half PROVE To(deadline)' = l - 1
    OBVIOUS
  <2>1. now \in Int /\ deadline \in Int /\ l > -Half
    BY <1>2, HoldDeadline, Sizes
  <2>2. PICK x \in Int : x = deadline
    BY <2>1
  <2>3. To(x)' = l - 1
    BY <1>1, <1>2, <2>1, <2>2, Nearer
  <2> QED BY <1>1, <2>2, <2>3 DEF To
<1>8. ASSUME NEW c \in Callers PROVE Asked(c)'
  <2>1. CASE defer[c].at = "idle"
    BY <1>1, <2>1 DEF Asked
  <2>2. CASE defer[c].at # "idle"
    <3>1. PICK x \in Ticks, y \in Ticks, n \in Int, p \in Int :
            /\ x = defer[c].now /\ y = defer[c].proposed /\ x \in Int /\ y \in Int
            /\ n = To(x) /\ p = To(y) /\ Asks(n, p)
      BY <2>2, HoldTicks
    <3>2. n > 1 - Half
      BY <2>2, <3>1 DEF Tick
    <3>3. n \in Int /\ p \in Int /\ Half \in Nat /\ n <= 0 /\ 0 <= p - n /\ p - n <= Half - 2
      BY <3>1, Sizes DEF Asks
    <3>4. n > -Half /\ p > -Half
      BY <3>2, <3>3
    <3>5. now \in Int
      BY HoldDeadline
    <3>6. To(x)' = n - 1 /\ To(y)' = p - 1
      BY <1>1, <3>1, <3>4, <3>5, Nearer
    <3>7. Asks(n - 1, p - 1)
      BY <3>2, <3>3 DEF Asks
    <3>8. defer'[c].now = x /\ defer'[c].proposed = y /\ defer'[c] = defer[c]
      BY <1>1, <3>1
    <3>9. defer[c].at = "try" => Later(defer[c])
      BY <2>2 DEF HoldInv, Asked
    <3> QED BY <3>6, <3>7, <3>8, <3>9 DEF Asked, Later, Signed
  <2> QED BY <2>1, <2>2
<1>9. ASSUME NEW c \in Callers, ends'[c] > 0 PROVE ends'[c] <= To(deadline)'
  <2>1. PICK e \in Nat : e = ends[c] /\ (e > 0 => e <= l) /\ ends'[c] = IF e > 0 THEN e - 1 ELSE 0
    BY <1>3, <1>4
  <2>2. e > 0 /\ e <= l
    BY <1>9, <2>1
  <2>3. l # -Half
    BY <1>2, <2>1, <2>2, Sizes
  <2>4. e - 1 <= l - 1
    BY <1>2, <2>1, <2>2
  <2> QED BY <1>7, <2>1, <2>2, <2>3, <2>4
<1>10. Covered'
  <2> SUFFICES ASSUME To(deadline)' > 0, ~lapsed' PROVE \E c \in Callers : ends'[c] >= To(deadline)'
    BY DEF Covered
  <2>1. ~lapsed /\ l # -Half
    BY <1>5
  <2>2. To(deadline)' = l - 1 /\ l - 1 > 0
    BY <1>7, <2>1
  <2>3. l > 0
    BY <1>2, <2>2
  <2>4. PICK c \in Callers : ends[c] >= l
    BY <1>2, <2>1, <2>3 DEF HoldInv, Covered
  <2>5. PICK e \in Nat : e = ends[c] /\ ends'[c] = IF e > 0 THEN e - 1 ELSE 0
    BY <1>3, <1>4
  <2>6. e > 0 /\ e - 1 >= l - 1
    BY <1>2, <2>3, <2>4, <2>5
  <2> QED BY <2>2, <2>5, <2>6
<1> QED BY <1>6, <1>8, <1>9, <1>10 DEF HoldInv

LEMMA HoldStart ==
  ASSUME HoldInv, NEW c \in Callers, NEW duration \in Durations, DeferStart(c, duration)
  PROVE  HoldInv'
<1>1. UNCHANGED <<now, deadline, ends, lapsed>>
  BY DEF DeferStart, OnlyScan
<1>2. now \in Ticks /\ now \in Int /\ 0 \in Ticks
  BY HoldDeadline, Sizes DEF Ticks
<1>3. PICK m \in 0..(Half - 2) : m = duration /\ m \in 0..(Half - 1)
  BY Sizes
<1>4. PICK y \in Ticks : y = (now + m) % Wrap /\ To(y) = m
  BY <1>2, <1>3, Ahead
<1>5. defer' = [defer EXCEPT ![c] = [at |-> "load", now |-> now, current |-> 0, proposed |-> y]]
  BY <1>3, <1>4 DEF DeferStart
<1>6. HoldType'
  BY <1>1, <1>2, <1>5 DEF HoldInv, HoldType, Deferral
<1>7. ASSUME NEW b \in Callers PROVE Asked(b)'
  <2>1. CASE b = c
    <3>1. defer'[b] = [at |-> "load", now |-> now, current |-> 0, proposed |-> y]
      BY <1>5, <2>1 DEF HoldInv, HoldType
    <3>2. To(now)' = 0 /\ To(y)' = m
      BY <1>1, <1>2, <1>4, ToNow DEF To
    <3>3. Asks(0, m)
      BY <1>3, Sizes DEF Asks
    <3> QED BY <1>1, <3>1, <3>2, <3>3 DEF Asked
  <2>2. CASE b # c
    <3>1. defer'[b] = defer[b]
      BY <1>5, <2>2 DEF HoldInv, HoldType
    <3> QED BY <1>1, <3>1 DEF HoldInv, Asked, To
  <2> QED BY <2>1, <2>2
<1> QED BY <1>1, <1>6, <1>7 DEF HoldInv, Covered, To

(* The deadline has been looked at: the caller tries, or its hold is       *)
(* granted, being covered already.                                         *)
LEMMA HoldLook ==
  ASSUME HoldInv, NEW c \in Callers, defer[c].at # "idle", DeferLook(c), now' = now
  PROVE  HoldInv'
<1> DEFINE d == [defer[c] EXCEPT !.at = "try", !.current = deadline]
<1>1. UNCHANGED <<now, deadline, lapsed>>
  BY DEF DeferLook
<1>2. PICK l \in Int : l = To(deadline) /\ To(deadline)' = l
  BY <1>1, HoldDeadline DEF To
<1>3. PICK n \in Int, p \in Int : n = To(defer[c].now) /\ p = To(defer[c].proposed) /\ Asks(n, p)
  BY HoldTicks
<1>4. /\ d \in Deferral /\ d.at = "try"
      /\ d.now = defer[c].now /\ d.proposed = defer[c].proposed /\ d.current = deadline
  BY DEF HoldInv, HoldType, Deferral
<1>5. ASSUME NEW b \in Callers, defer'[b] = defer[b] PROVE Asked(b)'
  BY <1>1, <1>5 DEF HoldInv, Asked, To
<1> HIDE DEF d
<1>6. CASE Later(d) /\ defer' = [defer EXCEPT ![c] = d] /\ UNCHANGED ends
  <2>1. HoldType'
    BY <1>1, <1>4, <1>6 DEF HoldInv, HoldType
  <2>2. defer'[c] = d /\ \A b \in Callers : b # c => defer'[b] = defer[b]
    BY <1>6 DEF HoldInv, HoldType
  <2>3. Asked(c)'
    <3>1. To(defer[c].now)' = n /\ To(defer[c].proposed)' = p
      BY <1>1, <1>3, <1>4, <2>2 DEF To
    <3>2. Later(defer[c])'
      BY <1>6, <2>2 DEF Later, Signed
    <3> QED BY <1>3, <3>1, <3>2 DEF Asked
  <2>4. \A b \in Callers : Asked(b)'
    BY <1>5, <2>2, <2>3
  <2> QED BY <1>1, <1>6, <2>1, <2>4 DEF HoldInv, Covered, To
<1>7. CASE ~Later(d) /\ Granted(c, ends)
  <2>1. p <= l
    BY <1>2, <1>3, <1>4, <1>7, Compared
  <2>2. PICK e \in Nat : e = ends[c] /\ (e > 0 => e <= l)
    BY <1>2 DEF HoldInv, HoldType
  <2>3. PICK g \in Nat : g = Larger(e, p) /\ (g > 0 => g <= l) /\ g >= e
    BY <1>2, <1>3, <2>1, <2>2 DEF Larger
  <2>4. ends' = [ends EXCEPT ![c] = g] /\ defer' = [defer EXCEPT ![c] = Idle]
    BY <1>3, <1>7, <2>2, <2>3 DEF Granted
  <2>5. HoldType'
    <3>1. 0 \in Ticks
      BY Sizes DEF Ticks
    <3> QED BY <1>1, <2>4, <3>1 DEF HoldInv, HoldType, Idle, Deferral
  <2>6. /\ defer'[c] = Idle /\ ends'[c] = g
        /\ \A b \in Callers : b # c => defer'[b] = defer[b] /\ ends'[b] = ends[b]
    BY <2>4 DEF HoldInv, HoldType
  <2>7. \A b \in Callers : Asked(b)'
    BY <1>5, <2>6 DEF Asked, Idle
  <2>8. \A b \in Callers : ends'[b] > 0 => ends'[b] <= To(deadline)'
    BY <1>2, <2>3, <2>6 DEF HoldInv
  <2>9. Covered'
    <3> SUFFICES ASSUME l > 0, ~lapsed PROVE \E b \in Callers : ends'[b] >= l
      BY <1>1, <1>2 DEF Covered
    <3>1. PICK b \in Callers : ends[b] >= l
      BY <1>2 DEF HoldInv, Covered
    <3>2. CASE b = c
      <4>1. g >= l
        BY <1>2, <2>2, <2>3, <3>1, <3>2
      <4> QED BY <2>6, <4>1
    <3>3. CASE b # c
      BY <2>6, <3>1, <3>3
    <3> QED BY <3>2, <3>3
  <2> QED BY <2>5, <2>7, <2>8, <2>9 DEF HoldInv
<1> QED BY <1>6, <1>7 DEF DeferLook, d

(* The deadline is swapped: it is put off, unless it had passed already or *)
(* compared so, when the holds it stood for are cut short.                 *)
LEMMA HoldSwap ==
  ASSUME HoldInv, NEW c \in Callers, defer[c].at = "try", deadline = defer[c].current,
         DeferSwap(c), now' = now
  PROVE  HoldInv'
<1>1. PICK l \in Int : l = To(deadline)
  BY HoldDeadline
<1>2. PICK y \in Ticks, n \in Int, p \in Int :
        n = To(defer[c].now) /\ p = To(y) /\ y = defer[c].proposed /\ Asks(n, p)
  BY HoldTicks
<1>3. Later(defer[c])
  BY DEF HoldInv, Asked
<1>4. l - n < Half => l <= 0 \/ p > l
  BY <1>1, <1>2, <1>3, Compared
<1>5. deadline' = y /\ ~lapsed' /\ lapsed' \in BOOLEAN /\ To(deadline)' = p
  BY <1>2 DEF DeferSwap, To
<1>6. \A b \in Callers : ends[b] \in Nat /\ (ends[b] > 0 => ends[b] <= l)
  BY <1>1 DEF HoldInv, HoldType
<1>7. ASSUME NEW b \in Callers
      PROVE  /\ LeftBy(c)[b] \in Nat
             /\ LeftBy(c)[b] > 0 => LeftBy(c)[b] <= p
  <2>1. PICK e \in Nat : e = ends[b] /\ (e > 0 => e <= l)
    BY <1>6
  <2>2. LeftBy(c)[b] = IF l - n >= Half /\ e > p THEN 0 ELSE e
    BY <1>1, <1>2, <2>1 DEF LeftBy, Stale
  <2>3. CASE l - n >= Half
    BY <1>2, <2>1, <2>2, <2>3
  <2>4. CASE ~(l - n >= Half)
    <3>1. l <= 0 \/ p > l
      BY <1>1, <1>2, <1>4, <2>4, Sizes
    <3> QED BY <1>1, <1>2, <2>1, <2>2, <2>4, <3>1
  <2> QED BY <2>3, <2>4
<1>8. PICK e \in Nat : e = LeftBy(c)[c] /\ (e > 0 => e <= p)
  BY <1>7
<1>9. PICK g \in Nat : g = Larger(e, p) /\ (g > 0 => g <= p) /\ g >= p
  BY <1>2, <1>8 DEF Larger
<1>10. ends' = [LeftBy(c) EXCEPT ![c] = g] /\ defer' = [defer EXCEPT ![c] = Idle]
  BY <1>2, <1>8, <1>9 DEF DeferSwap, Granted
<1>11. LeftBy(c) \in [Callers -> Nat]
  <2>1. LeftBy(c) = [b \in Callers |-> LeftBy(c)[b]]
    BY DEF LeftBy
  <2> QED BY <1>7, <2>1
<1>12. HoldType'
  <2>1. 0 \in Ticks
    BY Sizes DEF Ticks
  <2> QED BY <1>5, <1>10, <1>11, <2>1 DEF HoldInv, HoldType, Idle, Deferral
<1>13. /\ defer'[c] = Idle /\ ends'[c] = g
       /\ \A b \in Callers : b # c => defer'[b] = defer[b] /\ ends'[b] = LeftBy(c)[b]
  BY <1>10, <1>11 DEF HoldInv, HoldType
<1>14. \A b \in Callers : Asked(b)'
  BY <1>13 DEF HoldInv, Asked, Idle, To
<1>15. \A b \in Callers : ends'[b] > 0 => ends'[b] <= To(deadline)'
  BY <1>5, <1>7, <1>9, <1>13
<1>16. Covered'
  BY <1>5, <1>9, <1>13 DEF Covered
<1> QED BY <1>12, <1>14, <1>15, <1>16 DEF HoldInv

LEMMA HoldInvStep == HoldInv /\ [HoldNext]_<<now, holdVars>> => HoldInv'
<1> SUFFICES ASSUME HoldInv, [HoldNext]_<<now, holdVars>> PROVE HoldInv'
  OBVIOUS
<1>1. CASE UNCHANGED <<now, holdVars>>
  BY <1>1 DEF holdVars, HoldInv, HoldType, Asked, Covered, To
<1>2. ASSUME NEW c \in Callers, DeferLoad(c) PROVE HoldInv'
  BY <1>2, HoldLook DEF DeferLoad, OnlyScan
<1>3. ASSUME NEW c \in Callers, DeferTry(c) PROVE HoldInv'
  BY <1>3, HoldLook, HoldSwap DEF DeferTry, OnlyScan
<1> QED BY <1>1, <1>2, <1>3, HoldTick, HoldStart DEF HoldNext

LEMMA HoldHolds == HoldInv => HoldKept
<1> SUFFICES ASSUME HoldInv PROVE HoldKept
  OBVIOUS
<1>1. PICK l \in Int : l = To(deadline)
  BY HoldDeadline
<1>2. ScanHeld(0) <=> l > 0
  BY <1>1 DEF ScanHeld, To
<1>3. ASSUME NEW c \in Callers, ends[c] > 0 PROVE l > 0
  <2>1. PICK e \in Nat : e = ends[c]
    BY DEF HoldInv, HoldType
  <2>2. e > 0 /\ e <= l
    BY <1>1, <1>3, <2>1 DEF HoldInv
  <2> QED BY <1>1, <2>1, <2>2
<1> QED BY <1>1, <1>2, <1>3 DEF HoldInv, Covered, HoldKept

-----------------------------------------------------------------------------
(* The policies keep to variables of their own, but for the tick counter.  *)
PolicyInv == HoldInv /\ RequestInv /\ ForwardInv /\ RecoveryInv

PolicyNext == HoldNext \/ RequestNext \/ ForwardNext \/ RecoveryNext

LEMMA PartsApart ==
  ASSUME [PolicyNext]_policyVars
  PROVE  /\ [HoldNext]_<<now, holdVars>> /\ [RequestNext]_requestVars
         /\ [ForwardNext]_fwd /\ [RecoveryNext]_<<now, recoveryVars>>
<1> USE DEF holdVars, requestVars, recoveryVars
<1>1. CASE UNCHANGED policyVars
  BY <1>1 DEF policyVars
<1>2. CASE Tick
  BY <1>2 DEF Tick, HoldNext, RecoveryNext
<1>3. ASSUME NEW c \in Callers,
             (\E d \in Durations : DeferStart(c, d)) \/ DeferLoad(c) \/ DeferTry(c)
      PROVE  HoldNext /\ UNCHANGED <<now, requestVars, fwd, recoveryVars>>
  BY <1>3 DEF HoldNext, DeferStart, DeferLoad, DeferTry, OnlyScan
<1>4. CASE RequestNext
  BY <1>4 DEF RequestNext, Submit, Enqueue, EnqueueReturns, Refused, Completion, OnlySubmit
<1>5. CASE ForwardNext
  BY <1>5 DEF ForwardNext, ForwardStart, Attempt, OnlyForward
<1>6. ASSUME NEW p \in Peers, Recover(p)
      PROVE  RecoveryNext /\ UNCHANGED <<now, holdVars, requestVars, fwd>>
  BY <1>6 DEF RecoveryNext, Recover, OnlyRecovery
<1>7. CASE HoldNext
  BY <1>2, <1>3, <1>7 DEF HoldNext
<1>8. CASE RecoveryNext
  BY <1>2, <1>6, <1>8 DEF RecoveryNext
<1> QED BY <1>1, <1>4, <1>5, <1>7, <1>8 DEF PolicyNext

LEMMA PolicyInvEver == PolicySpec => []PolicyInv
<1>1. PolicyInit => PolicyInv
  BY HoldInvInit, RequestInvInit, ForwardInvInit, RecoveryInvInit DEF PolicyInv
<1>2. PolicyInv /\ [PolicyNext]_policyVars => PolicyInv'
  BY PartsApart, HoldInvStep, RequestInvStep, ForwardInvStep, RecoveryInvStep DEF PolicyInv
<1> QED BY <1>1, <1>2, PTL DEF PolicySpec, PolicyNext

(* A hold granted holds until its end, unless a swap by a clock half the   *)
(* range behind the deadline cuts it short, and none holds that nobody was *)
(* granted, until its deadline has aged by half the range: for any number  *)
(* of callers, holds of any length below half the range and calls that     *)
(* take any time below half the range, wherever the counter wraps round.   *)
THEOREM HoldAlwaysKept == PolicySpec => []HoldKept
<1>1. PolicyInv => HoldKept
  BY HoldHolds DEF PolicyInv
<1> QED BY <1>1, PolicyInvEver, PTL

(* busy stands for one scan, a frame is sent on once and a peer cools down *)
(* for as long as it should: for any number of callers, peers and slots,   *)
(* whatever the width of the tick counter and wherever it wraps round.     *)
THEOREM PoliciesAlwaysKept == PolicySpec => []PoliciesKept
<1>1. PolicyInv => PoliciesKept
  BY RecoveryHolds DEF PolicyInv, PoliciesKept, ForwardInv, RequestInv
<1> QED BY <1>1, PolicyInvEver, PTL
=============================================================================
