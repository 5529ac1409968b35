------------------------------ MODULE LevelIrq ------------------------------
(***************************************************************************)
(* What the driver wants of the chip's interrupt line, in the words of the *)
(* comment in mmhal_wlan_set_spi_irq_enabled ("Ideally the interrupt pin   *)
(* would be configured as a low level interrupt"): as long as the chip     *)
(* asserts the line, the library is told of it.                            *)
(***************************************************************************)
VARIABLES
  line,   (* the chip asserts the line: it has something to be retrieved   *)
  told    (* the library knows                                             *)

levelVars == <<line, told>>

Init == line = FALSE /\ told = FALSE

Assert == ~line /\ line' = TRUE /\ UNCHANGED told

(* The library may be told in vain: it then finds nothing to retrieve.     *)
Tell == ~told /\ told' = TRUE /\ UNCHANGED line

Retrieve == told /\ line /\ line' = FALSE /\ UNCHANGED told

Done == told /\ told' = FALSE /\ UNCHANGED line

Next == Assert \/ Tell \/ Retrieve \/ Done

(* The library is told of a line that stays asserted.                      *)
Spec == Init /\ [][Next]_levelVars /\ WF_levelVars(line /\ Tell)
=============================================================================
