---------------------------- MODULE ApModeProofs ----------------------------
(***************************************************************************)
(* Theorems about the channel derivation, for every channel list in which  *)
(* a number names one entry, and about ApMode, for every regulatory        *)
(* database of such lists.                                                 *)
(***************************************************************************)
EXTENDS ApMode, ArithmeticLemmas

(***************************************************************************)
(* The channel derivation.  Of the two lookups only this is used: they     *)
(* return an entry that fits whenever there is one.  The rest is the       *)
(* arithmetic of SlotOf, whose division must round towards zero.           *)
(***************************************************************************)
LEMMA FirstOfMember ==
  ASSUME NEW S \in SUBSET (Nat \ {0}), S # {}
  PROVE  FirstOf(S) \in S
<1>1. PICK x \in S : \A y \in S : x <= y
  BY Smallest
<1>. QED
  BY <1>1 DEF FirstOf, Min

(* A lookup in a list: NoChannel exactly when no entry fits.               *)
LEMMA Lookup ==
  ASSUME NEW list \in Seq(Channels), NEW S \in SUBSET DOMAIN list
  PROVE  /\ FirstOf(S) # NoChannel <=> S # {}
         /\ FirstOf(S) # NoChannel => FirstOf(S) \in S
<1>1. S \in SUBSET (Nat \ {0}) /\ 0 \notin S
  OBVIOUS
<1>2. CASE S = {}
  BY <1>2 DEF FirstOf, NoChannel
<1>3. CASE S # {}
  BY <1>1, <1>3, FirstOfMember DEF NoChannel
<1>. QED
  BY <1>2, <1>3

(* The class an entry is reported with is accepted by that entry again.    *)
LEMMA OwnClassFits ==
  ASSUME NEW chan \in Channels
  PROVE  OpClassOf(chan) \in UInt16 /\ ClassFits(chan, OpClassOf(chan))
<1>1. chan.s1g \in Int16 /\ chan.global \in Int16
  BY DEF Channels
<1>2. ASSUME NEW c \in Int16
      PROVE  ToUnsigned(c) \in UInt16 /\ ToSigned(ToUnsigned(c)) = c
  <2>1. c \in Int /\ -32768 <= c /\ c <= 32767
    BY DEF Int16
  <2>2. CASE c >= 0
    <3>1. ToUnsigned(c) = c
      BY <2>1, <2>2 DEF ToUnsigned
    <3>2. c \in UInt16 /\ ToSigned(c) = c
      BY <2>1, <2>2 DEF ToSigned, UInt16
    <3>. QED
      BY <3>1, <3>2
  <2>3. CASE c < 0
    <3>1. ToUnsigned(c) = c + 65536
      BY <2>1, <2>3 DEF ToUnsigned
    <3>2. c + 65536 \in UInt16 /\ ToSigned(c + 65536) = c
      BY <2>1, <2>3 DEF ToSigned, UInt16
    <3>. QED
      BY <3>1, <3>2
  <2>4. c >= 0 \/ c < 0
    BY <2>1
  <2>. QED
    BY <2>2, <2>3, <2>4
<1>. DEFINE c == IF chan.s1g # SkipOpClass THEN chan.s1g ELSE chan.global
<1>3. c \in {chan.global, chan.s1g} /\ c \in Int16 /\ OpClassOf(chan) = ToUnsigned(c)
  BY <1>1 DEF OpClassOf
<1>. HIDE DEF c
<1>4. ToUnsigned(c) \in UInt16 /\ ToSigned(ToUnsigned(c)) = c
  BY <1>2, <1>3
<1>. QED
  BY <1>3, <1>4 DEF ClassFits

-----------------------------------------------------------------------------
(* The comparison of find_operating_channel says that the centre of the    *)
(* primary lies inside the operating channel.                              *)
LEMMA SpansEdges ==
  ASSUME NEW op \in Channels, NEW pri \in Channels
  PROVE  /\ LowEdge(op) \in Int /\ LowEdge(pri) \in Int /\ pri.centre \in Int
         /\ Spans(op, pri, op.bw) <=> /\ LowEdge(op) < pri.centre
                                      /\ pri.centre < LowEdge(op) + op.bw * MHz
  BY DEF Channels, Bandwidths, Spans, Delta, LowEdge, MHz

(* A primary whose centre lies in an operating channel has its slots in    *)
(* it.  A 2 MHz primary that begins up to 1 MHz below the channel has a    *)
(* negative offset, which the division rounds to slot 0.                   *)
LEMMA SlotInRange ==
  ASSUME NEW op \in Channels, NEW pri \in Channels,
         pri.bw <= 2, pri.bw <= op.bw, Spans(op, pri, op.bw)
  PROVE  LET i == SlotOf(op, pri)
             o == LowEdge(pri) - LowEdge(op)
         IN  /\ i \in 0..(op.bw - 1) /\ i + pri.bw <= op.bw
             /\ o < (i + 1) * MHz
             /\ i * MHz <= IF o < 0 THEN 0 ELSE o
<1>. DEFINE o == LowEdge(pri) - LowEdge(op)
            i == SlotOf(op, pri)
<1>1. /\ op.centre \in Int /\ pri.centre \in Int
      /\ op.bw \in {1, 2, 4, 8} /\ pri.bw \in {1, 2, 4, 8}
  BY DEF Channels, Bandwidths
<1>2. pri.bw \in {1, 2}
  BY <1>1
<1>3. o = Delta(pri, op) + (op.bw - pri.bw) * (MHz \div 2) /\ o \in Int
  BY <1>1 DEF LowEdge, Delta, MHz
<1>4. i = Quotient(o, MHz)
  BY <1>3 DEF SlotOf
<1>5. -1000000 < o /\ o < (op.bw - pri.bw + 1) * 1000000
  BY <1>1, <1>2 DEF LowEdge, MHz, Spans, Delta
<1>6. pri.bw = 2 => o < (op.bw - 1) * 1000000
  BY <1>1 DEF LowEdge, MHz, Spans, Delta
<1>7. CASE o < 0
  <2>1. i = 0
    BY <1>3, <1>4, <1>5, <1>7 DEF Quotient, MHz
  <2>. QED
    BY <1>1, <1>2, <1>3, <1>7, <2>1 DEF MHz
<1>8. CASE o >= 0
  <2>1. i = o \div 1000000
    BY <1>3, <1>4, <1>8 DEF Quotient, MHz
  <2>2. i \in Nat /\ i * 1000000 <= o /\ o < (i + 1) * 1000000
    BY <1>3, <1>8, <2>1
  <2>3. i + pri.bw <= op.bw
    BY <1>1, <1>2, <1>3, <1>5, <1>6, <2>2
  <2>. QED
    BY <1>1, <1>2, <1>3, <1>8, <2>2, <2>3 DEF MHz
<1>. QED
  BY <1>3, <1>7, <1>8

-----------------------------------------------------------------------------
(* What derive_operating_channel and calc_primary_chan_idx find, when they *)
(* find it, in a list without duplicate numbers.                           *)
Found(list, primary, bw, op, pri) ==
  /\ op \in DOMAIN list /\ pri \in DOMAIN list
  /\ list[pri].num = primary
  /\ list[pri].bw <= 2 /\ list[pri].bw <= bw
  /\ Spans(list[op], list[pri], bw)

LEMMA DeriveFound ==
  ASSUME NEW list \in Seq(Channels), Regular(list),
         NEW primary, NEW bw \in Bandwidths
  PROVE  \/ /\ Derive(list, primary, bw) = NoOperation
            /\ ~ \E op, pri \in DOMAIN list : Found(list, primary, bw, op, pri)
         \/ \E op, pri \in DOMAIN list :
              /\ Found(list, primary, bw, op, pri)
              /\ Derive(list, primary, bw) =
                   [op_class |-> OpClassOf(list[op]), num |-> list[op].num,
                    idx |-> SlotOf(list[op], list[pri]), pri_bw |-> list[pri].bw]
<1>. DEFINE p  == ByNumber(list, primary)
            o  == OperatingChannel(list, list[p], bw)
            c  == OpClassOf(list[o])
            Q  == {j \in DOMAIN list : list[j].num = primary}
            S  == {j \in DOMAIN list : Spans(list[j], list[p], bw)}
            F  == {j \in DOMAIN list :
                     list[j].num = list[o].num /\ ClassFits(list[j], c)}
            result == [op_class |-> c, num |-> list[o].num,
                       idx |-> SlotOf(list[o], list[p]), pri_bw |-> list[p].bw]
<1>1. /\ \A j \in DOMAIN list : list[j] \in Channels /\ list[j].bw \in {1, 2, 4, 8}
      /\ bw \in {1, 2, 4, 8}
  <2>1. \A j \in DOMAIN list : list[j] \in Channels
    OBVIOUS
  <2>2. \A chan \in Channels : chan.bw \in {1, 2, 4, 8}
    BY DEF Channels, Bandwidths
  <2>. QED
    BY <2>1, <2>2 DEF Bandwidths
<1>2. /\ p # NoChannel <=> Q # {}
      /\ p # NoChannel => p \in Q
  <2>1. p = FirstOf(Q)
    BY DEF ByNumber
  <2>. QED
    BY <2>1, Lookup
<1>3. /\ o # NoChannel <=> S # {}
      /\ o # NoChannel => o \in S
  <2>1. o = FirstOf(S)
    BY DEF OperatingChannel
  <2>. QED
    BY <2>1, Lookup
<1>4. o # NoChannel => /\ c = OpClassOf(list[o])
                       /\ o \in F
                       /\ FirstOf(F) \in F
  <2>1. c = OpClassOf(list[o])
    OBVIOUS
  <2>2. ASSUME o # NoChannel PROVE o \in F
    <3>1. o \in DOMAIN list
      BY <1>3, <2>2
    <3>. HIDE DEF o
    <3>2. ClassFits(list[o], c)
      BY <1>1, <3>1, OwnClassFits
    <3>. QED
      BY <3>1, <3>2
  <2>3. F \in SUBSET DOMAIN list
    OBVIOUS
  <2>. HIDE DEF F, c, o
  <2>. QED
    BY <2>1, <2>2, <2>3, Lookup
<1>5. PrimaryIdx(list, c, list[o].num, primary) =
        LET idx == SlotOf(list[FirstOf(F)], list[p])
        IN  IF \/ NoChannel \in {FirstOf(F), p}
               \/ list[p].bw > 2
               \/ list[p].bw > list[FirstOf(F)].bw
               \/ idx \notin 0..(list[FirstOf(F)].bw - 1)
              THEN -1 ELSE idx
  BY DEF PrimaryIdx
<1>6. Derive(list, primary, bw) =
        IF \/ p = NoChannel
           \/ list[p].bw > 2
           \/ list[p].bw > bw
           \/ o = NoChannel
           \/ PrimaryIdx(list, c, list[o].num, primary) < 0
          THEN NoOperation
          ELSE [op_class |-> c, num |-> list[o].num,
                idx |-> PrimaryIdx(list, c, list[o].num, primary),
                pri_bw |-> list[p].bw]
  BY DEF Derive
<1>. HIDE DEF p, o, c, F
<1>7. \A j \in DOMAIN list : list[j].num = primary => j = p /\ p # NoChannel
  BY <1>2 DEF Regular
<1>8. CASE \/ p = NoChannel \/ o = NoChannel
           \/ list[p].bw > 2 \/ list[p].bw > bw
  <2>1. Derive(list, primary, bw) = NoOperation
    BY <1>6, <1>8
  <2>2. ASSUME NEW op \in DOMAIN list, NEW pri \in DOMAIN list,
               Found(list, primary, bw, op, pri)
        PROVE  FALSE
    <3>1. pri = p /\ p # NoChannel
      BY <1>7, <2>2 DEF Found
    <3>2. op \in S /\ o # NoChannel
      BY <1>3, <2>2, <3>1 DEF Found
    <3>3. ~(list[p].bw > 2) /\ ~(list[p].bw > bw)
      BY <1>1, <2>2, <3>1 DEF Found
    <3>. QED
      BY <1>8, <3>1, <3>2, <3>3
  <2>. QED
    BY <2>1, <2>2
<1>9. CASE /\ p # NoChannel /\ o # NoChannel
           /\ ~(list[p].bw > 2) /\ ~(list[p].bw > bw)
  <2>1. p \in DOMAIN list /\ o \in DOMAIN list
    BY <1>2, <1>3, <1>9
  <2>2. Found(list, primary, bw, o, p)
    BY <1>1, <1>2, <1>3, <1>9, <2>1 DEF Found
  <2>3. list[o].bw = bw
    BY <2>2 DEF Found, Spans
  <2>4. FirstOf(F) = o
    <3>1. FirstOf(F) \in DOMAIN list /\ list[FirstOf(F)].num = list[o].num
      BY <1>4, <1>9 DEF F
    <3>. QED
      BY <2>1, <3>1 DEF Regular
  <2>5. SlotOf(list[o], list[p]) \in 0..(bw - 1)
    BY <1>1, <2>1, <2>2, <2>3, SlotInRange DEF Found
  <2>6. PrimaryIdx(list, c, list[o].num, primary) = SlotOf(list[o], list[p])
    BY <1>1, <1>5, <1>9, <2>1, <2>3, <2>4, <2>5
  <2>7. Derive(list, primary, bw) = result
    BY <1>1, <1>6, <1>9, <2>5, <2>6
  <2>8. c = OpClassOf(list[o])
    BY <1>4, <1>9
  <2>. QED
    BY <2>1, <2>2, <2>7, <2>8
<1>. QED
  BY <1>8, <1>9

(* The operation that is derived is carried by an entry of the width asked *)
(* for, around the primary asked for, and passes the validity check that   *)
(* ap_enable makes next: its "Invalid AP channel" is never reached there.  *)
THEOREM DeriveSound ==
  ASSUME NEW list \in Seq(Channels), Regular(list),
         NEW primary, NEW bw \in Bandwidths,
         Derive(list, primary, bw) # NoOperation
  PROVE  LET o == Derive(list, primary, bw)
         IN  /\ \E op, pri \in DOMAIN list :
                  /\ list[pri].num = primary
                  /\ list[op].bw = bw
                  /\ Carries(list[op], list[pri], o)
             /\ ChannelIsValid(list, o.op_class, o.num, bw, o.idx)
             /\ o \in [op_class : UInt16, num : Nat, idx : 0..7, pri_bw : 0..2]
<1>1. PICK op \in DOMAIN list, pri \in DOMAIN list :
        /\ Found(list, primary, bw, op, pri)
        /\ Derive(list, primary, bw) =
             [op_class |-> OpClassOf(list[op]), num |-> list[op].num,
              idx |-> SlotOf(list[op], list[pri]), pri_bw |-> list[pri].bw]
  BY DeriveFound
<1>. DEFINE o == Derive(list, primary, bw)
            i == SlotOf(list[op], list[pri])
<1>2. /\ list[op] \in Channels /\ list[pri] \in Channels
      /\ list[op].bw = bw /\ list[pri].num = primary
      /\ list[pri].bw <= 2 /\ list[pri].bw <= list[op].bw
      /\ Spans(list[op], list[pri], list[op].bw)
  BY <1>1 DEF Found, Spans
<1>3. /\ o.op_class = OpClassOf(list[op]) /\ o.num = list[op].num
      /\ o.idx = i /\ o.pri_bw = list[pri].bw
  BY <1>1
<1>4. /\ i \in 0..(bw - 1) /\ i + list[pri].bw <= bw
      /\ LowEdge(list[pri]) - LowEdge(list[op]) < (i + 1) * MHz
      /\ i * MHz <= IF LowEdge(list[pri]) - LowEdge(list[op]) < 0 THEN 0
                      ELSE LowEdge(list[pri]) - LowEdge(list[op])
  BY <1>2, SlotInRange
<1>5. ClassFits(list[op], OpClassOf(list[op])) /\ OpClassOf(list[op]) \in UInt16
  BY <1>2, OwnClassFits
<1>6. /\ LowEdge(list[op]) < list[pri].centre
      /\ list[pri].centre < LowEdge(list[op]) + list[op].bw * MHz
  BY <1>2, SpansEdges
<1>7. bw \in {1, 2, 4, 8}
  BY DEF Bandwidths
<1>8. Carries(list[op], list[pri], o)
  BY <1>2, <1>3, <1>4, <1>5, <1>6, <1>7 DEF Carries
<1>9. ChannelIsValid(list, o.op_class, o.num, bw, o.idx)
  BY <1>2, <1>3, <1>4, <1>5, <1>7 DEF ChannelIsValid
<1>10. o \in [op_class : UInt16, num : Nat, idx : 0..7, pri_bw : 0..2]
  <2>1. list[op].num \in Nat /\ list[pri].bw \in 0..2
    BY <1>2 DEF Channels, Bandwidths
  <2>. QED
    BY <1>1, <1>4, <1>5, <1>7, <2>1
<1>. QED
  BY <1>2, <1>8, <1>9, <1>10

(* derive_operating_channel fails only when the band has nothing to offer. *)
THEOREM DeriveComplete ==
  ASSUME NEW list \in Seq(Channels), Regular(list),
         NEW primary, NEW bw \in Bandwidths
  PROVE  Derive(list, primary, bw) # NoOperation
           <=> HasOperation(list, primary, bw)
<1>1. \A a, b \in Channels : a.bw = bw =>
        (Spans(a, b, bw) <=> /\ LowEdge(a) < b.centre
                             /\ b.centre < LowEdge(a) + bw * MHz)
  BY SpansEdges
<1>2. \A j \in DOMAIN list : list[j] \in Channels
  OBVIOUS
<1>3. HasOperation(list, primary, bw)
        <=> \E op, pri \in DOMAIN list : Found(list, primary, bw, op, pri)
  <2>1. ASSUME NEW op \in DOMAIN list, NEW pri \in DOMAIN list
        PROVE  Found(list, primary, bw, op, pri) <=>
                 /\ list[pri].num = primary
                 /\ list[pri].bw <= 2 /\ list[pri].bw <= bw
                 /\ list[op].bw = bw
                 /\ LowEdge(list[op]) < list[pri].centre
                 /\ list[pri].centre < LowEdge(list[op]) + bw * MHz
    <3>1. Spans(list[op], list[pri], bw) => list[op].bw = bw
      BY DEF Spans
    <3>. QED
      BY <1>1, <1>2, <3>1 DEF Found
  <2>. QED
    BY <2>1 DEF HasOperation
<1>4. ASSUME NEW op \in DOMAIN list, NEW pri \in DOMAIN list,
             Derive(list, primary, bw) =
               [op_class |-> OpClassOf(list[op]), num |-> list[op].num,
                idx |-> SlotOf(list[op], list[pri]), pri_bw |-> list[pri].bw]
      PROVE  Derive(list, primary, bw) # NoOperation
  <2>1. list[op].num # 0
    BY <1>2 DEF Channels
  <2>2. Derive(list, primary, bw).num = list[op].num
    BY <1>4
  <2>. QED
    BY <2>1, <2>2 DEF NoOperation
<1>. QED
  BY <1>3, <1>4, DeriveFound

(* In a band on one raster of 1 MHz, as real bands are, the primary lies   *)
(* in the operating channel as a whole, and the index counts exactly the   *)
(* slots below it.                                                         *)
THEOREM DeriveExact ==
  ASSUME NEW list \in Seq(Channels), Regular(list), Aligned(list),
         NEW primary, NEW bw \in Bandwidths,
         Derive(list, primary, bw) # NoOperation
  PROVE  \E op, pri \in DOMAIN list :
           /\ list[pri].num = primary /\ list[op].bw = bw
           /\ Derive(list, primary, bw).num = list[op].num
           /\ LowEdge(list[pri]) =
                LowEdge(list[op]) + Derive(list, primary, bw).idx * MHz
           /\ LowEdge(list[pri]) + list[pri].bw * MHz
                <= LowEdge(list[op]) + bw * MHz
<1>1. PICK op \in DOMAIN list, pri \in DOMAIN list :
        /\ Found(list, primary, bw, op, pri)
        /\ Derive(list, primary, bw) =
             [op_class |-> OpClassOf(list[op]), num |-> list[op].num,
              idx |-> SlotOf(list[op], list[pri]), pri_bw |-> list[pri].bw]
  BY DeriveFound
<1>. DEFINE i == SlotOf(list[op], list[pri])
            d == LowEdge(list[pri]) - LowEdge(list[op])
<1>2. /\ list[op] \in Channels /\ list[pri] \in Channels
      /\ list[op].bw = bw /\ list[pri].num = primary
      /\ list[pri].bw <= 2 /\ list[pri].bw <= list[op].bw
      /\ Spans(list[op], list[pri], list[op].bw)
  BY <1>1 DEF Found, Spans
<1>3. /\ i \in Nat /\ i + list[pri].bw <= bw
      /\ d < (i + 1) * MHz
      /\ i * MHz <= IF d < 0 THEN 0 ELSE d
  BY <1>2, SlotInRange
<1>4. /\ LowEdge(list[pri]) \in Int /\ LowEdge(list[op]) \in Int
      /\ list[pri].bw \in {1, 2} /\ bw \in {1, 2, 4, 8}
      /\ d \in Int /\ d > -1000000
  <2>1. LowEdge(list[pri]) \in Int /\ LowEdge(list[op]) \in Int
    BY <1>2, SpansEdges
  <2>2. bw \in {1, 2, 4, 8}
    BY DEF Bandwidths
  <2>3. list[pri].bw \in {1, 2} /\ list[pri].centre \in Int
    BY <1>2 DEF Channels, Bandwidths
  <2>4. LowEdge(list[op]) < list[pri].centre
    BY <1>2, SpansEdges
  <2>5. list[pri].centre <= LowEdge(list[pri]) + 1000000
    BY <2>3 DEF LowEdge, MHz
  <2>. QED
    BY <2>1, <2>2, <2>3, <2>4, <2>5
<1>5. d % 1000000 = 0
  BY DEF Aligned, MHz
<1>. HIDE DEF i, d
<1>6. d = i * 1000000
  BY <1>3, <1>4, <1>5 DEF MHz
<1>7. /\ LowEdge(list[pri]) = LowEdge(list[op]) + i * MHz
      /\ LowEdge(list[pri]) + list[pri].bw * MHz <= LowEdge(list[op]) + bw * MHz
  <2>1. i \in Int /\ list[pri].bw \in Int /\ bw \in Int
    BY <1>3, <1>4
  <2>2. LowEdge(list[pri]) = LowEdge(list[op]) + i * 1000000
    BY <1>4, <1>6 DEF d
  <2>3. LowEdge(list[pri]) + list[pri].bw * 1000000
          <= LowEdge(list[op]) + bw * 1000000
    BY <1>3, <1>4, <2>1, <2>2, SMT
  <2>. QED
    BY <2>2, <2>3, SMT DEF MHz
<1>. QED
  BY <1>1, <1>2, <1>7 DEF i

-----------------------------------------------------------------------------
(***************************************************************************)
(* The access point.  The channel list is only exchanged while it is down  *)
(* and no callback is left to run (SwitchIsQuiet), so what was derived     *)
(* from the list stays valid for as long as it is used.                    *)
(***************************************************************************)
(* An access point, wanted or on air, that meets the request in the        *)
(* channel list now active.                                                *)
Meets(ap) == /\ channel_list # None
             /\ CarriesRequest(ap, Regdb[channel_list])

OnlyMeeting == /\ goal # None => Meets(goal)
               /\ on_air # None => Meets(on_air)

SwitchIsQuiet == /\ pc # "idle" => goal = None
                 /\ pc = "start" => on_air = None /\ ev = "idle" /\ ~booted

(* Nothing is wanted of a library that is not running.                     *)
StoppedIsQuiet == ~booted => goal = None /\ on_air = None /\ ev = "idle"
HeldWhileBooted == booted => mmwlan_state = "INITIALIZED"

CallbackTellsTruth == /\ ev = "up" => on_air # None /\ ap_cb
                      /\ ev = "down" => on_air = None /\ ap_cb

(* Without a callback the status stays at what the last one reported, and  *)
(* callbacks are only forgotten while the access point is down.            *)
StatusShown ==
  ev = "idle" /\ ap_status # "DISABLED" =>
    IF ap_cb THEN /\ ap_status = "COMPLETED" <=> on_air # None
                  /\ dormant <=> on_air = None
             ELSE ap_status = "INACTIVE" /\ dormant

Safe == /\ OnlyMeeting
        /\ SwitchIsQuiet
        /\ StoppedIsQuiet
        /\ HeldWhileBooted
        /\ CallbackTellsTruth
        /\ ReleasedIsDisabled
        /\ StatusShown

Inv == TypeOK /\ Safe

-----------------------------------------------------------------------------
(* What ap_enable hands to the library meets the request, and it refuses   *)
(* nothing that could be met.                                              *)
LEMMA OperationMeets ==
  ASSUME TypeOK, NEW primary, s1g_bw_mhz # 0, Operation(primary) # NoOperation
  PROVE  /\ channel_list # None
         /\ Operation(primary) \in
              [op_class : UInt16, num : Nat, idx : 0..7, pri_bw : 0..2]
         /\ HasOperation(Regdb[channel_list], primary, s1g_bw_mhz)
         /\ \A ap : /\ ap.primary = primary /\ ap.bw = s1g_bw_mhz
                    /\ ap.args.op = Operation(primary)
                    => CarriesRequest(ap, Regdb[channel_list])
<1>1. /\ channel_list # None
      /\ Operation(primary) = Derive(Regdb[channel_list], primary, s1g_bw_mhz)
  BY DEF Operation
<1>2. s1g_bw_mhz \in Bandwidths
  BY DEF TypeOK
<1>3. Regdb[channel_list] \in Seq(Channels) /\ Regular(Regdb[channel_list])
  BY <1>1, ApModeAssumption DEF TypeOK
<1>4. Derive(Regdb[channel_list], primary, s1g_bw_mhz) # NoOperation
  BY <1>1
<1>5. \E op, pri \in DOMAIN Regdb[channel_list] :
        /\ Regdb[channel_list][pri].num = primary
        /\ Regdb[channel_list][op].bw = s1g_bw_mhz
        /\ Carries(Regdb[channel_list][op], Regdb[channel_list][pri],
                   Operation(primary))
  BY <1>1, <1>2, <1>3, <1>4, DeriveSound
<1>6. Operation(primary) \in
        [op_class : UInt16, num : Nat, idx : 0..7, pri_bw : 0..2]
  BY <1>1, <1>2, <1>3, <1>4, DeriveSound
<1>7. HasOperation(Regdb[channel_list], primary, s1g_bw_mhz)
  BY <1>2, <1>3, <1>4, DeriveComplete
<1>. QED
  BY <1>1, <1>5, <1>6, <1>7 DEF CarriesRequest

LEMMA OperationComplete ==
  ASSUME TypeOK, NEW primary, s1g_bw_mhz # 0, channel_list # None,
         HasOperation(Regdb[channel_list], primary, s1g_bw_mhz)
  PROVE  Operation(primary) # NoOperation
<1>1. s1g_bw_mhz \in Bandwidths
  BY DEF TypeOK
<1>2. Regdb[channel_list] \in Seq(Channels) /\ Regular(Regdb[channel_list])
  BY ApModeAssumption DEF TypeOK
<1>. DEFINE o == Derive(Regdb[channel_list], primary, s1g_bw_mhz)
<1>3. o # NoOperation
  BY <1>1, <1>2, DeriveComplete
<1>4. ChannelIsValid(Regdb[channel_list], o.op_class, o.num, s1g_bw_mhz, o.idx)
  BY <1>1, <1>2, <1>3, DeriveSound
<1>. QED
  BY <1>3, <1>4 DEF Operation

(* ap_enable refuses a channel exactly when the band has no operating      *)
(* channel for it.                                                         *)
LEMMA EnableStep ==
  TypeOK => \A p \in Numbers :
    ApEnable(p) /\ s1g_bw_mhz # 0 /\ channel_list # None
    /\ ret' \in {"ok", "channel"} =>
      (ret' = "ok" <=> HasOperation(Regdb[channel_list], p, s1g_bw_mhz))
<1> SUFFICES ASSUME TypeOK, NEW p \in Numbers,
                    ApEnable(p), s1g_bw_mhz # 0, channel_list # None,
                    ret' \in {"ok", "channel"}
             PROVE  ret' = "ok" <=> HasOperation(Regdb[channel_list], p, s1g_bw_mhz)
  OBVIOUS
<1>1. ret' = "ok" <=> Operation(p) # NoOperation
  BY DEF ApEnable, EnableReturns
<1>. QED
  BY <1>1, OperationMeets, OperationComplete

-----------------------------------------------------------------------------
LEMMA InvInit == Init => Inv
<1>. SUFFICES ASSUME Init PROVE Inv
  OBVIOUS
<1>1. InitArgs \in ApArgs
  BY DEF InitArgs, ApArgs, NoOperation, UInt16
<1>2. TypeOK
  BY <1>1 DEF Init, TypeOK
<1>3. Safe
  BY DEF Init, Safe, OnlyMeeting, SwitchIsQuiet, StoppedIsQuiet, HeldWhileBooted,
         CallbackTellsTruth, ReleasedIsDisabled, StatusShown
<1>. QED
  BY <1>2, <1>3 DEF Inv

(* An accepted ap_enable.                                                  *)
LEMMA EnableArgs ==
  ASSUME TypeOK, NEW primary \in Numbers, ApEnable(primary)
  PROVE  ap_args' \in ApArgs /\ goal' \in AccessPoints \union {None}
         /\ (goal' # goal => Meets(goal') /\ booted /\ Ready)
<1>. USE DEF TypeOK
<1>1. CASE UNCHANGED <<ap_args, goal>>
  BY <1>1
<1>2. CASE /\ s1g_bw_mhz # 0 /\ Operation(primary) # NoOperation
           /\ ap_args' = [ap_args EXCEPT !.op = Operation(primary)]
           /\ \/ /\ booted /\ Ready
                 /\ goal' = [args |-> ap_args', primary |-> primary,
                             bw |-> s1g_bw_mhz]
              \/ UNCHANGED goal
  <2>1. ap_args' \in ApArgs /\ ap_args'.op = Operation(primary)
    BY <1>2, OperationMeets DEF ApArgs
  <2>2. ASSUME goal' = [args |-> ap_args', primary |-> primary, bw |-> s1g_bw_mhz]
        PROVE  goal' \in AccessPoints /\ Meets(goal')
    <3>1. goal' \in AccessPoints
      BY <1>2, <2>1, <2>2 DEF AccessPoints
    <3>2. /\ goal'.primary = primary /\ goal'.bw = s1g_bw_mhz
          /\ goal'.args.op = Operation(primary)
      BY <2>1, <2>2
    <3>. QED
      BY <1>2, <3>1, <3>2, OperationMeets DEF Meets
  <2>. QED
    BY <1>2, <2>1, <2>2
<1>. QED
  BY <1>1, <1>2 DEF ApEnable, EnableReturns

-----------------------------------------------------------------------------
(* The variables keep their types.                                         *)
LEMMA TypeStep == TypeOK /\ [Next]_vars => TypeOK'
<1> SUFFICES ASSUME TypeOK, [Next]_vars PROVE TypeOK'
  OBVIOUS
<1>. USE DEF TypeOK, driver, caller, mmwlan, Ready
<1>0. InitArgs \in ApArgs
  BY DEF InitArgs, ApArgs, NoOperation, UInt16
<1>1. CASE SetBandwidth
  BY <1>1 DEF SetBandwidth
<1>2. CASE ConfigParams
  <2>1. ap_args' \in ApArgs
    BY <1>2 DEF ConfigParams, ApArgs
  <2>. QED
    BY <1>2, <2>1 DEF ConfigParams
<1>3. CASE ApDisable
  BY <1>3 DEF ApDisable
<1>4. CASE SetRegion
  BY <1>4 DEF SetRegion
<1>5. ASSUME NEW primary \in Numbers, ApEnable(primary) PROVE TypeOK'
  <2>1. ret' \in {"ok", "refused", "channel", "failed"}
    BY <1>5 DEF ApEnable, EnableReturns
  <2>2. UNCHANGED <<mmwlan_state, channel_list, ap_status, s1g_bw_mhz, dormant,
                    pc, region, booted, ap_cb, on_air, ev, limit>>
    BY <1>5 DEF ApEnable, EnableReturns
  <2>. QED
    BY <1>5, <2>1, <2>2, EnableArgs
<1>6. CASE Stopped
  <2>1. booted' \in BOOLEAN /\ channel_list' \in Regions \union {None}
        /\ pc' \in {"idle", "start", "wait"}
    BY <1>6 DEF Stopped
  <2>2. UNCHANGED <<mmwlan_state, ap_status, s1g_bw_mhz, ap_args, dormant,
                    region, ret, ap_cb, goal, on_air, ev, limit>>
    BY <1>6 DEF Stopped
  <2>. QED
    BY <2>1, <2>2
<1>7. CASE Release
  <2>1. /\ mmwlan_state' \in {"UNINITIALIZED", "INITIALIZED"}
        /\ ap_status' \in {"DISABLED", "INACTIVE", "COMPLETED"}
    BY <1>7 DEF Release, ReleasedStatus
  <2>2. ap_cb' \in BOOLEAN
    BY <1>7 DEF Release
  <2>. QED
    BY <1>7, <2>1, <2>2 DEF Release
<1>8. CASE StartUnknown
  BY <1>8 DEF StartUnknown, StartReturns
<1>9. CASE StartFails
  BY <1>9 DEF StartFails, StartReturns
<1>10. CASE StartAp
  <2>1. ap_cb' \in BOOLEAN /\ ret' \in {"ok", "failed"}
    BY <1>10 DEF StartAp, StartReturns
  <2>. QED
    BY <1>0, <1>10, <2>1 DEF StartAp, StartReturns
<1>11. CASE ApUp
  BY <1>11 DEF ApUp
<1>12. CASE ApDown
  BY <1>12 DEF ApDown
<1>13. CASE VifState
  <2>1. dormant' \in BOOLEAN /\ ap_status' \in {"INACTIVE", "COMPLETED"}
    BY <1>13 DEF VifState, StatusAfter
  <2>. QED
    BY <1>13, <2>1 DEF VifState
<1>14. CASE UNCHANGED vars
  BY <1>14 DEF vars
<1>. QED
  BY <1>1, <1>2, <1>3, <1>4, <1>5, <1>6, <1>7, <1>8, <1>9, <1>10, <1>11, <1>12,
     <1>13, <1>14 DEF Next, Request, Switch, Library

(* Steps that leave the library, the callback and the status alone.        *)
LEMMA SafeFrame ==
  ASSUME Safe,
         UNCHANGED <<mmwlan_state, channel_list, ap_status, dormant, pc,
                     booted, ap_cb, goal, on_air, ev>>
  PROVE  Safe'
  BY DEF Safe, OnlyMeeting, Meets, SwitchIsQuiet, StoppedIsQuiet, HeldWhileBooted,
         CallbackTellsTruth, ReleasedIsDisabled, StatusShown

LEMMA SafeStep == Inv /\ [Next]_vars => Safe'
<1> SUFFICES ASSUME TypeOK, Safe, [Next]_vars PROVE Safe'
  BY DEF Inv
<1>. USE DEF driver, caller, mmwlan, Ready
<1>0. World \notin Regions /\ None \notin Regions
  BY ApModeAssumption
<1>1. CASE SetBandwidth
  BY <1>1, SafeFrame DEF SetBandwidth
<1>2. CASE ConfigParams
  BY <1>2, SafeFrame DEF ConfigParams
<1>3. CASE ApDisable
  <2>1. goal' \in {goal, None}
    BY <1>3 DEF ApDisable
  <2>. QED
    BY <1>3, <2>1
       DEF ApDisable, Safe, OnlyMeeting, Meets, SwitchIsQuiet, StoppedIsQuiet,
           HeldWhileBooted, CallbackTellsTruth, ReleasedIsDisabled, StatusShown
<1>4. CASE SetRegion
  BY <1>4 DEF SetRegion, Safe, OnlyMeeting, Meets, SwitchIsQuiet, StoppedIsQuiet,
           HeldWhileBooted, CallbackTellsTruth, ReleasedIsDisabled, StatusShown
<1>5. ASSUME NEW primary \in Numbers, ApEnable(primary) PROVE Safe'
  <2>1. UNCHANGED <<mmwlan_state, channel_list, ap_status, dormant, pc, booted,
                    ap_cb, on_air, ev>>
    BY <1>5 DEF ApEnable, EnableReturns
  <2>2. goal' # goal => Meets(goal') /\ booted /\ Ready
    BY <1>5, EnableArgs
  <2>. QED
    BY <2>1, <2>2
       DEF Safe, OnlyMeeting, Meets, SwitchIsQuiet, StoppedIsQuiet,
           HeldWhileBooted, CallbackTellsTruth, ReleasedIsDisabled, StatusShown
<1>6. CASE Stopped
  BY <1>6 DEF Stopped, Safe, OnlyMeeting, SwitchIsQuiet, StoppedIsQuiet,
           HeldWhileBooted, CallbackTellsTruth, ReleasedIsDisabled, StatusShown
<1>7. CASE Release
  <2>1. on_air = None /\ goal = None /\ ev = "idle" /\ ~booted
    BY <1>7 DEF Release, Safe, SwitchIsQuiet
  <2>. QED
    BY <1>7, <2>1
       DEF Release, ReleasedStatus, Safe, OnlyMeeting, SwitchIsQuiet,
           StoppedIsQuiet, HeldWhileBooted, CallbackTellsTruth,
           ReleasedIsDisabled, StatusShown
<1>8. CASE StartUnknown
  <2>1. on_air = None /\ goal = None /\ ev = "idle"
    BY <1>8 DEF StartUnknown, StartReturns, Safe, SwitchIsQuiet
  <2>. QED
    BY <1>8, <2>1
       DEF StartUnknown, StartReturns, Safe, OnlyMeeting, SwitchIsQuiet,
           StoppedIsQuiet, HeldWhileBooted, CallbackTellsTruth,
           ReleasedIsDisabled, StatusShown
<1>9. CASE StartFails \/ StartAp
  <2>1. on_air = None /\ goal = None /\ ev = "idle"
    BY <1>9 DEF StartFails, StartAp, StartReturns, Safe, SwitchIsQuiet
  <2>2. /\ UNCHANGED <<ap_status, dormant, goal, on_air, ev>>
        /\ pc' = "idle"
        /\ booted' => mmwlan_state' = "INITIALIZED"
        /\ mmwlan_state' # mmwlan_state => mmwlan_state' = "INITIALIZED"
    BY <1>9 DEF StartFails, StartAp, StartReturns
  <2>3. StatusShown'
    BY <2>1, <2>2 DEF Safe, StatusShown, TypeOK
  <2>. QED
    BY <2>1, <2>2, <2>3
       DEF Safe, OnlyMeeting, SwitchIsQuiet, StoppedIsQuiet, HeldWhileBooted,
           CallbackTellsTruth, ReleasedIsDisabled
<1>10. CASE ApUp
  BY <1>10 DEF ApUp, Safe, OnlyMeeting, Meets, SwitchIsQuiet, StoppedIsQuiet,
           HeldWhileBooted, CallbackTellsTruth, ReleasedIsDisabled, StatusShown
<1>11. CASE ApDown
  BY <1>11 DEF ApDown, Safe, OnlyMeeting, Meets, SwitchIsQuiet, StoppedIsQuiet,
           HeldWhileBooted, CallbackTellsTruth, ReleasedIsDisabled, StatusShown
<1>12. CASE VifState
  <2>1. mmwlan_state = "INITIALIZED"
    BY <1>12 DEF VifState, Safe, StoppedIsQuiet, HeldWhileBooted
  <2>2. StatusShown'
    BY <1>12 DEF VifState, StatusAfter, Safe, CallbackTellsTruth, StatusShown, TypeOK
  <2>. QED
    BY <1>12, <2>1, <2>2
       DEF VifState, Safe, OnlyMeeting, Meets, SwitchIsQuiet, StoppedIsQuiet,
           HeldWhileBooted, CallbackTellsTruth, ReleasedIsDisabled
<1>13. CASE UNCHANGED vars
  BY <1>13, SafeFrame DEF vars
<1>. QED
  BY <1>1, <1>2, <1>3, <1>4, <1>5, <1>6, <1>7, <1>8, <1>9, <1>10, <1>11, <1>12,
     <1>13 DEF Next, Request, Switch, Library

LEMMA Invariance == Spec => []Inv
<1>1. Inv /\ [Next]_vars => Inv'
  BY TypeStep, SafeStep DEF Inv
<1>. QED
  BY InvInit, <1>1, PTL DEF Spec

-----------------------------------------------------------------------------
(* Every reachable state is well typed; in particular what is handed to    *)
(* the library fits the fields of mmwlan_ap_args.                          *)
THEOREM TypeCorrect == Spec => []TypeOK
<1>1. Inv => TypeOK
  BY DEF Inv
<1>. QED
  BY Invariance, <1>1, PTL

(* Whatever is on air is what ap_enable was asked for, in the channel list *)
(* that is active while it is on air.                                      *)
THEOREM OnAirMeetsRequest == Spec => []OnAirAsRequested
<1>1. Inv => OnAirAsRequested
  BY DEF Inv, Safe, OnlyMeeting, Meets, OnAirAsRequested
<1>. QED
  BY Invariance, <1>1, PTL

(* With no callback about to run, the status says whether the access point *)
(* is on air.                                                              *)
THEOREM StatusFollows == Spec => []StatusFollowsAp
<1>1. Inv => StatusFollowsAp
  BY DEF Inv, Safe, StatusShown, StatusFollowsAp
<1>. QED
  BY Invariance, <1>1, PTL

(* A released library leaves the interface of the access point disabled.   *)
THEOREM ReleasedApIsDisabled == Spec => []ReleasedIsDisabled
<1>1. Inv => ReleasedIsDisabled
  BY DEF Inv, Safe
<1>. QED
  BY Invariance, <1>1, PTL

(* ap_enable refuses a channel exactly when the band has nothing to offer, *)
(* in every reachable state and for every regulatory database.             *)
THEOREM EnableComplete == Spec => EnableFollowsRegdb
<1>1. TypeOK /\ [Next]_vars =>
        [\A p \in Numbers :
           ApEnable(p) /\ s1g_bw_mhz # 0 /\ channel_list # None
           /\ ret' \in {"ok", "channel"} =>
             (ret' = "ok" <=> HasOperation(Regdb[channel_list], p, s1g_bw_mhz))]_vars
  BY EnableStep
<1>. QED
  BY TypeCorrect, <1>1, PTL DEF Spec, EnableFollowsRegdb
=============================================================================
