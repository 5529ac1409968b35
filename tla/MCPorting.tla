----------------------------- MODULE MCPorting -----------------------------
(***************************************************************************)
(* The porting assistant's steps, the bus access they use and the images   *)
(* they validate, side by side, for TLC.  They are composed by their       *)
(* results only, so a behaviour is about one of them.                      *)
(***************************************************************************)
EXTENDS SdioSpi, BlobReader, PortingTests

VARIABLE part

vars == <<part, sdioVars, blobVars, stepVars>>

Field(type, len, magic) == [type |-> type, len |-> len, magic |-> magic]

MCFields ==
  {Field("magic", 0, FALSE), Field("magic", 2, FALSE), Field("magic", 4, FALSE),
   Field("magic", 4, TRUE), Field("other", 3, FALSE), Field("eof", 0, FALSE)}

Init ==
  /\ part \in {"sdio", "blob", "steps"}
  /\ SdioInit /\ StepsInit
  /\ IF part = "blob" THEN BlobInit
     ELSE /\ image = <<>> /\ length = 0 /\ verdict = "none"
          /\ offset = 0 /\ num_tlvs = 0 /\ remaining = 0
          /\ robuf = [at |-> Wrap, len |-> 0]
  /\ part # "steps" => board = "good" /\ chip = "mm6108"

Next ==
  /\ UNCHANGED part
  /\ \/ part = "sdio" /\ SdioNext /\ UNCHANGED <<blobVars, stepVars>>
     \/ part = "blob" /\ BlobNext /\ UNCHANGED <<sdioVars, stepVars>>
     \/ part = "steps" /\ StepsNext /\ UNCHANGED <<sdioVars, blobVars>>

Spec == Init /\ [][Next]_vars
=============================================================================
