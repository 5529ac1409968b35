------------------------------ MODULE ApChannel ------------------------------
(***************************************************************************)
(* How the driver turns a primary channel and an operating bandwidth into  *)
(* the operating channel of an access point: the pure functions that       *)
(* ap_enable calls.  A channel list is a sequence of regulatory entries;   *)
(* every lookup takes the first entry that fits.                           *)
(***************************************************************************)
EXTENDS Integers, Sequences, FiniteSetsExt

CONSTANT SkipOpClass   (* MMWLAN_SKIP_OP_CLASS_CHECK *)

Int16  == {n \in Int : -32768 <= n /\ n <= 32767}
UInt16 == {n \in Nat : n < 65536}

ASSUME SkipOpClassAssumption == SkipOpClass \in Int16

MHz == 1000000

Bandwidths == {1, 2, 4, 8}

Channels ==
  [num : Nat \ {0}, bw : Bandwidths, centre : Nat,
   global : Int16, s1g : Int16]

NoChannel == 0

FirstOf(S) == IF S = {} THEN NoChannel ELSE Min(S)

(* The casts between the signed class of an entry and uint16_t op_class.   *)
(* Mutant: the class is handed over as it is in the entry.                 *)
ToUnsignedKept(class) == class
ToUnsigned(class)   == class % 65536
ToSigned(op_class)  == IF op_class >= 32768 THEN op_class - 65536 ELSE op_class

(* Division of int32_t: towards zero.                                      *)
(* Mutant: towards minus infinity.                                         *)
QuotientFloor(a, b) == a \div b
Quotient(a, b)      == IF a >= 0 THEN a \div b ELSE -((-a) \div b)

ClassFits(chan, op_class) ==
  \/ SkipOpClass \in {chan.global, chan.s1g}
  \/ ToSigned(op_class) \in {chan.global, chan.s1g}

Delta(pri, op) == pri.centre - op.centre

Spans(op, pri, bw) ==
  LET half == (bw * MHz) \div 2
  IN  op.bw = bw /\ -half < Delta(pri, op) /\ Delta(pri, op) < half

(* Index of the primary's first 1 MHz slot in the operating channel.       *)
SlotOf(op, pri) ==
  Quotient(Delta(pri, op) + (op.bw - pri.bw) * (MHz \div 2), MHz)

ByNumber(list, num) == FirstOf({i \in DOMAIN list : list[i].num = num})

(* calc_primary_chan_idx, -1 for every failure.                            *)
PrimaryIdx(list, op_class, num, primary) ==
  LET op  == FirstOf({i \in DOMAIN list :
                        list[i].num = num /\ ClassFits(list[i], op_class)})
      pri == ByNumber(list, primary)
      idx == SlotOf(list[op], list[pri])
  IN  IF \/ NoChannel \in {op, pri}
         \/ list[pri].bw > 2
         \/ list[pri].bw > list[op].bw
         \/ idx \notin 0..(list[op].bw - 1)
        THEN -1
        ELSE idx

(* find_operating_channel.                                                 *)
OperatingChannel(list, pri, bw) ==
  FirstOf({i \in DOMAIN list : Spans(list[i], pri, bw)})

OpClassOf(chan) ==
  ToUnsigned(IF chan.s1g # SkipOpClass THEN chan.s1g ELSE chan.global)

NoOperation == [op_class |-> 0, num |-> 0, idx |-> 0, pri_bw |-> 0]

(* derive_operating_channel: NoOperation stands for -ENOENT.               *)
Derive(list, primary, bw) ==
  LET pri      == ByNumber(list, primary)
      op       == OperatingChannel(list, list[pri], bw)
      op_class == OpClassOf(list[op])
      idx      == PrimaryIdx(list, op_class, list[op].num, primary)
  IN  IF \/ pri = NoChannel
         \/ list[pri].bw > 2
         \/ list[pri].bw > bw
         \/ op = NoChannel
         \/ idx < 0
        THEN NoOperation
        ELSE [op_class |-> op_class, num |-> list[op].num, idx |-> idx,
              pri_bw |-> list[pri].bw]

(* morsemicro_ap_channel_is_valid.                                         *)
ChannelIsValid(list, op_class, num, bw, idx) ==
  /\ bw # 0
  /\ idx < bw
  /\ \E i \in DOMAIN list :
       list[i].num = num /\ list[i].bw = bw /\ ClassFits(list[i], op_class)

-----------------------------------------------------------------------------
(* What the functions are for, in terms of the band itself.                *)

LowEdge(chan) == chan.centre - chan.bw * (MHz \div 2)

(* Entry op of the list carries the operation o for the primary pri: the   *)
(* primary's centre is inside it, its slots are, and the first of them is  *)
(* the one that holds the primary's lower edge.                            *)
Carries(op, pri, o) ==
  LET offset == LowEdge(pri) - LowEdge(op)
  IN  /\ op.num = o.num
      /\ ClassFits(op, o.op_class)
      /\ pri.bw = o.pri_bw
      /\ LowEdge(op) < pri.centre /\ pri.centre < LowEdge(op) + op.bw * MHz
      /\ o.idx >= 0 /\ o.idx + o.pri_bw <= op.bw
      /\ offset < (o.idx + 1) * MHz
      /\ o.idx * MHz <= IF offset < 0 THEN 0 ELSE offset

(* All channels begin on one raster of 1 MHz.                              *)
Aligned(list) ==
  \A i, j \in DOMAIN list : (LowEdge(list[i]) - LowEdge(list[j])) % MHz = 0

(* Every channel number names one entry.                                   *)
Regular(list) ==
  \A i, j \in DOMAIN list : list[i].num = list[j].num => i = j

(* The band has an operating channel of this width for the primary.        *)
HasOperation(list, primary, bw) ==
  \E i, j \in DOMAIN list :
    /\ list[i].num = primary
    /\ list[i].bw <= 2 /\ list[i].bw <= bw
    /\ list[j].bw = bw
    /\ LowEdge(list[j]) < list[i].centre
    /\ list[i].centre < LowEdge(list[j]) + bw * MHz
=============================================================================
