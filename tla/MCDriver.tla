------------------------------ MODULE MCDriver ------------------------------
(***************************************************************************)
(* The driver below its management interface, side by side for TLC: the    *)
(* chip's interrupt lines, its bus, the packets, and the policies the mesh *)
(* hooks into them.  They share no state, so a behaviour is about one.     *)
(***************************************************************************)
EXTENDS ChipIrq, ChipBus, PacketPath, EdgezPolicies

VARIABLE part

vars == <<part, irqVars, busVars, packetVars, policyVars>>

Policies == {"hold", "request", "forward", "recovery"}

Init ==
  /\ part \in {"irq", "bus", "packet"} \union Policies
  /\ IrqInit /\ BusInit /\ PacketInit /\ PolicyInit

Next ==
  /\ UNCHANGED part
  /\ \/ part = "irq" /\ IrqNext /\ UNCHANGED <<busVars, packetVars, policyVars>>
     \/ part = "bus" /\ BusNext /\ UNCHANGED <<irqVars, packetVars, policyVars>>
     \/ part = "packet" /\ PacketNext /\ UNCHANGED <<irqVars, busVars, policyVars>>
     \/ /\ \/ part = "hold" /\ HoldNext
           \/ part = "request" /\ RequestNext
           \/ part = "forward" /\ ForwardNext
           \/ part = "recovery" /\ RecoveryNext
        /\ UNCHANGED <<irqVars, busVars, packetVars>>

Spec == Init /\ [][Next]_vars /\ (part = "irq" => IrqFairness)
=============================================================================
