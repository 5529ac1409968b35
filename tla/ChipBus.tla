------------------------------- MODULE ChipBus -------------------------------
(***************************************************************************)
(* The chip on an SPI bus that another device shares: the life of the chip *)
(* from mmhal_wlan_init to mmhal_wlan_deinit, the training sequence, which *)
(* turns the chip select round, and the lock of the SPI controller, which  *)
(* SPI_LOCK_ON keeps for the driver from its first transfer to its         *)
(* release.  The lock knows its owner by the address of its spi_config:    *)
(* the driver's own ("driver"), or the copy of the training ("copy").      *)
(***************************************************************************)
VARIABLES
  resetn,     (* the pin, in logical levels: TRUE holds the chip in reset  *)
  wakeup,     (* the wake pin                                              *)
  chipSelect, (* its polarity: "low" or "high"                             *)
  lock,       (* who holds the controller's lock: none, driver, copy, other*)
  boot,       (* what the library is doing                                 *)
  other,      (* the other device: "idle" or in a "transfer"               *)
  upset,      (* history: a training that failed left the pin or the lock  *)
  evicted     (* history: a release took the bus from the other device     *)

busVars == <<resetn, wakeup, chipSelect, lock, boot, other, upset, evicted>>

(* morsemicro_init                                                         *)
BusInit ==
  /\ resetn = FALSE /\ wakeup = TRUE
  /\ chipSelect = "low" /\ lock = "none"
  /\ boot = "down" /\ other = "idle"
  /\ upset = FALSE /\ evicted = FALSE

Boot(from, to) == boot = from /\ boot' = to

(* The controller: spi_transceive takes the lock, or has it already, and   *)
(* keeps it also when the transfer fails; spi_release gives it back,       *)
(* whoever holds it.                                                       *)
Take(config) == lock \in {"none", config} /\ lock' = config

SpiRelease ==
  /\ lock' = "none"
  /\ evicted' = (evicted \/ lock = "other")

(***************************************************************************)
(* Reset and wake                                                          *)
(***************************************************************************)
WlanInit ==
  /\ Boot("down", "held")
  /\ resetn' = TRUE
  /\ UNCHANGED <<wakeup, chipSelect, lock, other, upset, evicted>>

HardReset ==
  \/ /\ Boot("held", "reset")
     /\ resetn' = TRUE
     /\ UNCHANGED <<wakeup, chipSelect, lock, other, upset, evicted>>
  \/ /\ Boot("reset", "up")
     /\ resetn' = FALSE
     /\ UNCHANGED <<wakeup, chipSelect, lock, other, upset, evicted>>

(* mmhal_wlan_wake_assert and _deassert                                    *)
Wake ==
  /\ boot = "up" /\ wakeup' = ~wakeup
  /\ UNCHANGED <<resetn, chipSelect, lock, boot, other, upset, evicted>>

(* A boot may be given up, and mmhal_wlan_deinit called, at any point      *)
(* outside another call.                                                   *)
(* Mutant: the bus is released by the driver only if it holds it itself.   *)
WlanDeinitOwn ==
  /\ boot \in {"held", "up"} /\ boot' = "down"
  /\ lock' = (IF lock = "driver" THEN "none" ELSE lock)
  /\ resetn' = FALSE
  /\ UNCHANGED <<wakeup, chipSelect, other, upset, evicted>>

WlanDeinit ==
  /\ boot \in {"held", "up"} /\ boot' = "down"
  /\ SpiRelease
  /\ resetn' = FALSE
  /\ UNCHANGED <<wakeup, chipSelect, other, upset>>

(***************************************************************************)
(* mmhal_wlan_send_training_seq, step by step; each failure returns.  It   *)
(* needs the lock for its copy of the configuration, so the library calls  *)
(* it before the driver's first transfer.                                  *)
(***************************************************************************)
TrainingConfig ==
  /\ boot = "up" /\ lock # "driver"
  /\ \/ boot' = "configure"
     \/ boot' = "up"                  (* gpio_pin_get_config fails         *)
  /\ UNCHANGED <<resetn, wakeup, chipSelect, lock, other, upset, evicted>>

TrainingSelectHigh ==
  /\ \/ Boot("configure", "train") /\ chipSelect' = "high"
     \/ Boot("configure", "up") /\ UNCHANGED chipSelect
  /\ UNCHANGED <<resetn, wakeup, lock, other, upset, evicted>>

TrainingTransfer ==
  /\ Take("copy")
  /\ \/ Boot("train", "release") /\ UNCHANGED upset
     \/ Boot("train", "up") /\ upset' = TRUE
  /\ UNCHANGED <<resetn, wakeup, chipSelect, other, evicted>>

TrainingRelease ==
  /\ Boot("release", "restore")
  /\ SpiRelease
  /\ UNCHANGED <<resetn, wakeup, chipSelect, other, upset>>

TrainingSelectLow ==
  /\ Boot("restore", "up")
  /\ \/ chipSelect' = "low" /\ upset' = FALSE
     \/ chipSelect' = chipSelect /\ upset' = TRUE
  /\ UNCHANGED <<resetn, wakeup, lock, other, evicted>>

(* mmhal_wlan_spi_rw, _read_buf and _write_buf: a failed transfer is only  *)
(* logged.  While another holds the lock the call waits.                   *)
Transfer ==
  /\ boot = "up" /\ Take("driver")
  /\ UNCHANGED <<resetn, wakeup, chipSelect, boot, other, upset, evicted>>

(* The other device's driver, without SPI_LOCK_ON.                         *)
OtherStarts ==
  /\ other = "idle" /\ other' = "transfer"
  /\ lock = "none" /\ lock' = "other"
  /\ UNCHANGED <<resetn, wakeup, chipSelect, boot, upset, evicted>>

OtherEnds ==
  /\ other = "transfer" /\ other' = "idle"
  /\ lock' = "none"
  /\ UNCHANGED <<resetn, wakeup, chipSelect, boot, upset, evicted>>

BusNext ==
  \/ WlanInit \/ HardReset \/ Wake \/ WlanDeinit
  \/ TrainingConfig \/ TrainingSelectHigh \/ TrainingTransfer
  \/ TrainingRelease \/ TrainingSelectLow
  \/ Transfer \/ OtherStarts \/ OtherEnds

BusSpec == BusInit /\ [][BusNext]_busVars

Training == boot \in {"configure", "train", "release", "restore"}

(***************************************************************************)
(* Who uses the bus finds it as he expects it.  The chip, when a training  *)
(* is over, answers to its own chip select, and the driver's transfers do  *)
(* not wait for the training's lock, unless a step of a training failed    *)
(* (the one that does leaves both, until the driver is taken down).  Once  *)
(* it is down the bus is free for the other device.  The other device's    *)
(* transfer has the bus to itself unless the driver gave up, holding no    *)
(* lock, while that transfer was running: spi_release takes it from whom   *)
(* it finds there.                                                         *)
(***************************************************************************)
BusUsable ==
  /\ ~Training /\ ~upset => chipSelect = "low" /\ lock # "copy"
  /\ boot = "down" => lock \in {"none", "other"}
  /\ ~evicted => (lock = "other" <=> other = "transfer")
=============================================================================
