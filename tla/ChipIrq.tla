------------------------------- MODULE ChipIrq -------------------------------
(***************************************************************************)
(* The chip's interrupt line as morsemicro_spi.c, morsemicro_sdio.c and    *)
(* (the busy line) mmhal_wlan.c arm it.  The chip holds the line while it  *)
(* has something to be retrieved, but what is armed is an edge: a line     *)
(* that is already asserted raises no interrupt, so the shims look at it   *)
(* when they enable the interrupt, SPI before it is armed and SDIO after.  *)
(***************************************************************************)
CONSTANT Lines  (* which lines there are: a subset of spi, sdio and busy   *)

ASSUME LinesAssumption == Lines \subseteq {"spi", "sdio", "busy"}

VARIABLES
  bus,      (* which of them this is                                       *)
  handler,  (* the library has registered a handler                        *)
  line,     (* the chip asserts the line                                   *)
  armed,    (* the controller raises an interrupt on an edge               *)
  irq,      (* an interrupt is pending                                     *)
  told,     (* the handler has been called since the library last looked   *)
  library,  (* what the library's task does                                *)
  poll,     (* mmhal_spi_irq_poll_interval: "default" or "fallback"        *)
  missed    (* history: why the library has not been told, or "no"         *)

irqVars == <<bus, handler, line, armed, irq, told, library, poll, missed>>

IrqTypeOK ==
  /\ bus \in Lines /\ handler \in BOOLEAN /\ line \in BOOLEAN
  /\ armed \in BOOLEAN /\ irq \in BOOLEAN /\ told \in BOOLEAN
  /\ library \in {"off", "enable", "arm", "look", "on", "serve"}
  /\ poll \in {"default", "fallback"}
  /\ missed \in {"no", "window", "handler", "read", "controller"}

IrqInit ==
  /\ bus \in Lines
  /\ line = FALSE /\ armed = FALSE /\ irq = FALSE /\ told = FALSE
  /\ handler = FALSE /\ library = "off" /\ poll = "default" /\ missed = "no"

(* mmhal_wlan_register_spi_irq_handler and _register_busy_irq_handler      *)
RegisterHandler ==
  /\ library = "off" /\ ~handler /\ handler' = TRUE
  /\ UNCHANGED <<bus, line, armed, irq, told, library, poll, missed>>

(* Calling the handler, if there is one, tells the library.                *)
CallHandler ==
  /\ told' = (told \/ handler)
  /\ missed' = IF handler THEN "no" ELSE "handler"

(* mmhal_wlan_spi_irq_is_asserted and mmhal_wlan_busy_is_asserted: a line  *)
(* that cannot be read counts as not asserted.                             *)
Look(readable) ==
  \/ line /\ readable /\ CallHandler
  \/ line /\ ~readable /\ missed' = "read" /\ UNCHANGED told
  \/ ~line /\ UNCHANGED <<told, missed>>

Library(from, to) == library = from /\ library' = to

(***************************************************************************)
(* mmhal_wlan_set_spi_irq_enabled(true)                                    *)
(***************************************************************************)
(* Mutant: the line is not looked at.                                      *)
SpiLookSkipped(readable) ==
  /\ bus = "spi" /\ Library("enable", "arm")
  /\ UNCHANGED <<bus, handler, line, armed, irq, told, poll, missed>>

SpiLook(readable) ==
  /\ bus = "spi" /\ Library("enable", "arm")
  /\ Look(readable)
  /\ UNCHANGED <<bus, handler, line, armed, irq, poll>>

(* An edge is armed, or not: what the controller answers is not looked at. *)
ArmEdge == armed' \in {TRUE, armed}

SpiArm ==
  /\ bus = "spi" /\ Library("arm", "on")
  /\ ArmEdge
  /\ UNCHANGED <<bus, handler, line, irq, told, poll, missed>>

(* sdhc_enable_interrupt succeeds, is not implemented, or fails.           *)
SdioArm(result) ==
  /\ bus = "sdio" /\ Library("enable", "look")
  /\ armed' = (armed \/ result = "ok")
  /\ poll' = IF result = "ENOSYS" THEN "fallback" ELSE poll
  /\ UNCHANGED <<bus, handler, line, irq, told, missed>>

(* Mutant: the handler is called for a line that is not asserted.          *)
SdioLookInverted(readable) ==
  /\ bus = "sdio" /\ Library("look", "on")
  /\ \/ ~line /\ readable /\ CallHandler
     \/ (line \/ ~readable) /\ UNCHANGED <<told, missed>>
  /\ UNCHANGED <<bus, handler, line, armed, irq, poll>>

SdioLook(readable) ==
  /\ bus = "sdio" /\ Library("look", "on")
  /\ Look(readable)
  /\ UNCHANGED <<bus, handler, line, armed, irq, poll>>

(* mmhal_wlan_set_busy_irq_enabled(true) does not look; its user does.     *)
BusyArm ==
  /\ bus = "busy" /\ Library("enable", "look")
  /\ ArmEdge
  /\ UNCHANGED <<bus, handler, line, irq, told, poll, missed>>

BusyLook(readable) ==
  /\ bus = "busy" /\ Library("look", "on")
  /\ Look(readable)
  /\ UNCHANGED <<bus, handler, line, armed, irq, poll>>

(* Disabling, which may fail: then the edge stays armed.  An interrupt     *)
(* already pending may or may not be dropped.                              *)
Disable ==
  /\ armed' \in {FALSE, armed}
  /\ irq' \in {irq, FALSE}

(***************************************************************************)
(* morsemicro_spi_irq_cb, morsemicro_sdio_irq_handler, morsemicro_busy_cb  *)
(***************************************************************************)
IrqCallback ==
  /\ irq /\ irq' = FALSE
  /\ IF line THEN CallHandler
     ELSE told' = (told \/ handler) /\ UNCHANGED missed
  /\ UNCHANGED <<bus, handler, line, armed, library, poll>>

(* The chip asserts its line.                                              *)
ChipAsserts ==
  /\ ~line /\ line' = TRUE
  /\ irq' = (irq \/ armed)
  /\ missed' = CASE armed -> missed
                 [] bus = "spi" /\ library = "arm" -> "window"
                 [] library = "on" -> "controller"
                 [] OTHER -> missed
  /\ UNCHANGED <<bus, handler, armed, told, library, poll>>

(***************************************************************************)
(* The library's task: it enables the interrupt; when it has been told, or *)
(* after the poll interval has seen the line asserted, it disables it,     *)
(* retrieves what there is, and enables it again.                          *)
(***************************************************************************)
Enable ==
  /\ Library("off", "enable")
  /\ UNCHANGED <<bus, handler, line, armed, irq, told, poll, missed>>

StartServing ==
  /\ told /\ told' = FALSE
  /\ Library("on", "serve")
  /\ Disable
  /\ missed' = "no"
  /\ UNCHANGED <<bus, handler, line, poll>>

Serve ==
  /\ library = "serve" /\ line /\ line' = FALSE
  /\ UNCHANGED <<bus, handler, armed, irq, told, library, poll, missed>>

StopServing ==
  /\ Library("serve", "enable")
  /\ UNCHANGED <<bus, handler, line, armed, irq, told, poll, missed>>

Poll ==
  /\ library = "on" /\ line /\ ~told
  /\ told' = TRUE /\ missed' = "no"
  /\ UNCHANGED <<bus, handler, line, armed, irq, library, poll>>

LibraryStep ==
  \/ Enable
  \/ \E readable \in BOOLEAN :
       SpiLook(readable) \/ SdioLook(readable) \/ BusyLook(readable)
  \/ SpiArm \/ BusyArm \/ \E result \in {"ok", "ENOSYS", "error"} : SdioArm(result)
  \/ StartServing \/ StopServing

IrqNext ==
  \/ RegisterHandler \/ ChipAsserts \/ IrqCallback \/ Serve \/ Poll
  \/ LibraryStep

(* An interrupt is taken and the library's task runs.  The poll is relied  *)
(* on for the known misses alone.  Nothing obliges the chip to assert its  *)
(* line, or the library to retrieve what there is before it looks again.   *)
IrqFairness ==
  /\ WF_irqVars(IrqCallback)
  /\ WF_irqVars(LibraryStep)
  /\ WF_irqVars(missed # "no" /\ Poll)

IrqSpec == IrqInit /\ [][IrqNext]_irqVars /\ IrqFairness

(***************************************************************************)
(* While the interrupt is enabled, the library knows of an asserted line,  *)
(* or an interrupt is about to tell it, but for what the poll is for: an   *)
(* assertion between the SPI shim's look and its arming, a look that could *)
(* not read the line, a handler that was not there, a controller that has  *)
(* not armed the line and raises no interrupt.                             *)
(***************************************************************************)
OnlyKnownMisses ==
  library = "on" /\ line /\ missed = "no" => told \/ irq

(***************************************************************************)
(* What is built from edges and looks, with the poll for the known misses, *)
(* is as good as a level interrupt: it implements LevelIrq, the library    *)
(* knowing of the line when it has been told and while it is at work.      *)
(***************************************************************************)
Level == INSTANCE LevelIrq WITH told <- told \/ library \in {"enable", "arm", "look", "serve"}

ImplementsLevelIrq == Level!Spec
=============================================================================
