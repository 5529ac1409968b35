---------------------------- MODULE RadioPermit ----------------------------
(***************************************************************************)
(* What the region switch promises a regulator: the radio is opened under  *)
(* the region that reg_domain GET reports and keeps to it; the region is   *)
(* withdrawn or exchanged only when the radio is closed; and a radio that  *)
(* is closing begins nothing new, ends what is on air, and is then closed. *)
(***************************************************************************)
CONSTANTS Regions, None

VARIABLES
  permit,   (* the region in force, or None                                *)
  radio,    (* the region the open radio keeps to, or None                 *)
  closing,  (* the radio has been told to close                            *)
  onAir     (* a scan or a link                                            *)

permitVars == <<permit, radio, closing, onAir>>

Init == permit = None /\ radio = None /\ closing = FALSE /\ onAir = FALSE

Permit ==
  /\ radio = None /\ permit' \in Regions \union {None}
  /\ UNCHANGED <<radio, closing, onAir>>

Open ==
  /\ radio = None /\ permit # None /\ radio' = permit
  /\ UNCHANGED <<permit, closing, onAir>>

Begin ==
  /\ radio # None /\ ~closing /\ ~onAir /\ onAir' = TRUE
  /\ UNCHANGED <<permit, radio, closing>>

End == onAir /\ onAir' = FALSE /\ UNCHANGED <<permit, radio, closing>>

Close ==
  /\ radio # None /\ ~closing /\ closing' = TRUE
  /\ UNCHANGED <<permit, radio, onAir>>

Closed ==
  /\ closing /\ ~onAir /\ closing' = FALSE /\ radio' = None
  /\ UNCHANGED <<permit, onAir>>

Next == Permit \/ Open \/ Begin \/ End \/ Close \/ Closed

Spec ==
  /\ Init /\ [][Next]_permitVars
  /\ WF_permitVars(closing /\ End) /\ WF_permitVars(Closed)
=============================================================================
