------------------------------ MODULE MCApMode ------------------------------
(***************************************************************************)
(* Instances of ApMode for TLC.  "AU" is aligned as real bands are, four   *)
(* 1 MHz channels, a 2 MHz and a 4 MHz one, and has a class above 32767,   *)
(* which is negative in an entry.  "XX" is not aligned: its 1 MHz channels *)
(* hang over the edges of its 2 MHz and 4 MHz channels, and the class of   *)
(* one entry is not to be compared.                                        *)
(***************************************************************************)
EXTENDS ApMode

Chan(num, bw, kHz, global, s1g) ==
  [num |-> num, bw |-> bw, centre |-> 1000 * kHz, global |-> global, s1g |-> s1g]

MCRegdb ==
  [r \in {"AU", "XX"} |->
     IF r = "AU"
       THEN <<Chan(27, 1, 915500, 68, 22), Chan(29, 1, 916500, 68, 22),
              Chan(28, 2, 916000, 70, -2), Chan(31, 1, 917500, 68, 22),
              Chan(30, 4, 917000, 70, 24), Chan(33, 1, 918500, 68, 22)>>
       ELSE <<Chan(1, 1, 914600, 68, -1), Chan(2, 2, 915500, 69, 23),
              Chan(3, 1, 916499, 68, 22), Chan(4, 4, 916500, -1, -1),
              Chan(5, 2, 914501, 69, 23)>>]

MCSkipOpClass == -1
MCRegions == {"AU", "XX"}
MCNumbers == {1, 28, 30}
=============================================================================
