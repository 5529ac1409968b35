---------------------------- MODULE PortingProofs ----------------------------
(***************************************************************************)
(* Proofs about the porting assistant, for every board and chip.           *)
(***************************************************************************)
EXTENDS SdioSpi, BlobReader, PortingTests, ArithmeticLemmas

(***************************************************************************)
(* The test steps.  A step's label says which step it belongs to, and the  *)
(* counts of the busy step say which boards are still possible.            *)
(***************************************************************************)
Labels == {"begin", "created", "slept", "toggle", "quiet", "write", "read", "compare"}

Names == {test_steps[i] : i \in 1..13}

BusyType == [handler : BOOLEAN, enabled : BOOLEAN]

StepsType ==
  /\ board \in Boards /\ step \in 1..14 /\ at \in Labels /\ tries \in Nat
  /\ ctrs \in [no_result : Nat, pass : Nat, fail : Nat,
               passed : SUBSET Names, clean : SUBSET Names]
  /\ probed \in BOOLEAN
  /\ irq_counter \in Nat /\ failed \in BOOLEAN
  /\ busy \in BusyType

LabelsApart ==
  /\ at \in {"toggle", "quiet"} => step = 9
  /\ step = 9 => at \in {"begin", "toggle", "quiet"}
  /\ step = 9 /\ at = "begin" => tries = 0

(* What the toggles with the interrupt enabled, and disabled, have shown.  *)
BusyCounts ==
  /\ at = "toggle" =>
       /\ busy.enabled
       /\ tries <= 2 /\ (tries > 0 => board # "stuck")
       /\ irq_counter = IF board = "noIrq" THEN 0 ELSE IF board = "storm" THEN 2 * tries ELSE tries
  /\ at = "quiet" =>
       /\ ~busy.enabled
       /\ tries \in 2..4 /\ board \in {"good", "deaf"}
       /\ board = "deaf" /\ ~failed => irq_counter = tries

StepsInv == StepsType /\ LabelsApart /\ BusyCounts /\ StepsSound

LEMMA StepNames ==
  /\ Len(test_steps) = 13
  /\ \A i \in 1..13 : /\ (test_steps[i] = "busy") <=> (i = 9)
                      /\ (test_steps[i] = "chip_id") <=> (i = 8)
<1>1. Len(test_steps) = 13
  BY DEF test_steps
<1>2. /\ test_steps[1] = "malloc" /\ test_steps[2] = "realloc" /\ test_steps[3] = "time"
      /\ test_steps[4] = "task" /\ test_steps[5] = "init" /\ test_steps[6] = "reset"
      /\ test_steps[7] = "startup" /\ test_steps[8] = "chip_id" /\ test_steps[9] = "busy"
      /\ test_steps[10] = "bulk" /\ test_steps[11] = "tput" /\ test_steps[12] = "fw"
      /\ test_steps[13] = "bcf"
  BY DEF test_steps
<1>3. ASSUME NEW i \in 1..13
      PROVE  i = 1 \/ i = 2 \/ i = 3 \/ i = 4 \/ i = 5 \/ i = 6 \/ i = 7 \/ i = 8 \/ i = 9
             \/ i = 10 \/ i = 11 \/ i = 12 \/ i = 13
  OBVIOUS
<1>4. ASSUME NEW i \in 1..13
      PROVE  /\ (test_steps[i] = "busy") <=> (i = 9)
             /\ (test_steps[i] = "chip_id") <=> (i = 8)
  BY <1>2, <1>3
<1> QED BY <1>1, <1>4

LEMMA StepsInvInit == StepsInit => StepsInv
<1> SUFFICES ASSUME StepsInit PROVE StepsInv
  OBVIOUS
<1>1. /\ board \in Boards /\ step = 1 /\ at = "begin" /\ tries = 0
      /\ probed = FALSE /\ irq_counter = 0 /\ failed = FALSE
      /\ pins = {"other"} /\ busy = BusyExit
  BY DEF StepsInit, BusyExit
<1>2. ctrs = [no_result |-> 0, pass |-> 0, fail |-> 0, passed |-> {}, clean |-> {}]
  BY DEF StepsInit
<1>3. ctrs \in [no_result : Nat, pass : Nat, fail : Nat,
                passed : SUBSET Names, clean : SUBSET Names] /\ ctrs.clean = {}
  BY <1>2
<1>4. StepsType
  <2>1. board \in Boards /\ step \in 1..14 /\ at \in Labels /\ tries \in Nat
    BY <1>1 DEF Labels
  <2>2. probed \in BOOLEAN /\ irq_counter \in Nat /\ failed \in BOOLEAN
    BY <1>1
  <2>3. busy \in BusyType
    BY <1>1 DEF BusyExit, BusyType
  <2> QED BY <1>3, <2>1, <2>2, <2>3 DEF StepsType
<1>5. LabelsApart /\ BusyCounts
  BY <1>1 DEF LabelsApart, BusyCounts
<1>6. StepsSound
  BY <1>1, <1>3 DEF StepsSound
<1> QED BY <1>4, <1>5, <1>6 DEF StepsInv

LEMMA FinishCtrs ==
  ASSUME NEW r, StepsType, step <= 13, Finish(r)
  PROVE  ctrs' \in [no_result : Nat, pass : Nat, fail : Nat,
                    passed : SUBSET Names, clean : SUBSET Names]
<1>1. test_steps[step] \in Names /\ failed \in BOOLEAN
  BY DEF StepsType, Names
<1>2. ctrs \in [no_result : Nat, pass : Nat, fail : Nat,
                passed : SUBSET Names, clean : SUBSET Names]
  BY DEF StepsType
<1>3. \/ ctrs' = [ctrs EXCEPT !.no_result = @ + 1]
      \/ ctrs' = [ctrs EXCEPT !.fail = @ + 1]
      \/ ctrs' = [ctrs EXCEPT !.pass = @ + 1, !.passed = @ \union {test_steps[step]},
                     !.clean = IF failed THEN @ ELSE @ \union {test_steps[step]}]
  BY DEF Finish
<1>4. ctrs.passed \union {test_steps[step]} \in SUBSET Names
      /\ ctrs.clean \union {test_steps[step]} \in SUBSET Names
  BY <1>1, <1>2
<1>5. CASE ctrs' = [ctrs EXCEPT !.no_result = @ + 1]
  BY <1>2, <1>5
<1>6. CASE ctrs' = [ctrs EXCEPT !.fail = @ + 1]
  BY <1>2, <1>6
<1>7. CASE ctrs' = [ctrs EXCEPT !.pass = @ + 1, !.passed = @ \union {test_steps[step]},
                      !.clean = IF failed THEN @ ELSE @ \union {test_steps[step]}]
  <2>1. PICK s \in SUBSET Names :
          ctrs' = [ctrs EXCEPT !.pass = @ + 1, !.passed = @ \union {test_steps[step]}, !.clean = s]
    BY <1>1, <1>2, <1>4, <1>7
  <2>2. ctrs' = [no_result |-> ctrs.no_result, pass |-> ctrs.pass + 1, fail |-> ctrs.fail,
                 passed |-> ctrs.passed \union {test_steps[step]}, clean |-> s]
    BY <1>2, <2>1
  <2> QED BY <1>2, <1>4, <2>2
<1> QED BY <1>3, <1>5, <1>6, <1>7

(* The end of a step: what it adds to clean, and where it goes.            *)
LEMMA FinishGoes ==
  ASSUME NEW r, StepsType, step <= 13, Finish(r)
  PROVE  /\ step' \in {step + 1, 14} /\ (r = "FAILED" => step' = 14)
         /\ at' = "begin" /\ tries' = 0
         /\ ctrs'.clean \in {ctrs.clean, ctrs.clean \union {test_steps[step]}}
         /\ r # "PASSED" \/ failed => ctrs'.clean = ctrs.clean
<1>1. ctrs'.clean = ctrs.clean \/
      (r = "PASSED" /\ ~failed /\ ctrs'.clean = ctrs.clean \union {test_steps[step]})
  <2>1. CASE r = "NO_RESULT"
    BY <2>1 DEF Finish, StepsType
  <2>2. CASE r = "PASSED"
    BY <2>2 DEF Finish, StepsType
  <2>3. CASE r \notin {"NO_RESULT", "PASSED"}
    BY <2>3 DEF Finish, StepsType
  <2> QED BY <2>1, <2>2, <2>3
<1> QED BY <1>1, StepNames DEF Finish, Stops, StepsType

(* A step other than the busy step ends.                                   *)
LEMMA FinishInv ==
  ASSUME NEW r, StepsInv, step \in 1..13, step # 9, Finish(r),
         UNCHANGED <<board, busy, pins, irq_counter>>, failed' \in BOOLEAN,
         probed' \in BOOLEAN, step = 8 /\ r # "FAILED" => probed', step > 8 => probed' = probed
  PROVE  StepsInv'
<1>1. StepsType /\ step <= 13
  BY DEF StepsInv, StepsType
<1>2. /\ step' \in {step + 1, 14} /\ (r = "FAILED" => step' = 14)
      /\ at' = "begin" /\ tries' = 0
      /\ ctrs'.clean \in {ctrs.clean, ctrs.clean \union {test_steps[step]}}
  BY <1>1, FinishGoes
<1>3. ctrs' \in [no_result : Nat, pass : Nat, fail : Nat,
                 passed : SUBSET Names, clean : SUBSET Names]
  BY <1>1, FinishCtrs
<1>4. StepsType'
  BY <1>1, <1>2, <1>3 DEF StepsType, Labels
<1>5. LabelsApart' /\ BusyCounts'
  BY <1>2 DEF LabelsApart, BusyCounts
<1>6. StepsSound'
  <2>1. "busy" \in ctrs'.clean => "busy" \in ctrs.clean
    BY <1>2, StepNames
  <2>2. busy' = BusyExit' /\ "other" \in pins'
    BY DEF StepsInv, StepsSound, BusyExit
  <2>3. step' > 8 /\ step' <= 13 => probed'
    BY <1>1, <1>2, StepNames DEF StepsInv, StepsSound, StepsType
  <2>4. Len(test_steps)' = 13
    BY StepNames DEF test_steps
  <2> QED BY <2>1, <2>2, <2>3, <2>4 DEF StepsInv, StepsSound
<1> QED BY <1>4, <1>5, <1>6 DEF StepsInv

(* A step other than the busy step goes on.                                *)
LEMMA WithinInv ==
  ASSUME StepsInv, step # 9, at' \in Labels \ {"toggle", "quiet"}, tries' \in Nat,
         UNCHANGED <<board, step, ctrs, busy, pins, irq_counter, probed>>, failed' \in BOOLEAN
  PROVE  StepsInv'
<1>1. StepsType'
  BY DEF StepsInv, StepsType
<1>2. LabelsApart' /\ BusyCounts'
  BY DEF LabelsApart, BusyCounts
<1>3. StepsSound'
  BY DEF StepsInv, StepsSound, BusyExit, test_steps
<1> QED BY <1>1, <1>2, <1>3 DEF StepsInv

LEMMA Unchanged ==
  ASSUME StepsInv, UNCHANGED <<board, step, at, ctrs, tries, Chip>> PROVE StepsInv'
<1>1. StepsType' /\ LabelsApart' /\ BusyCounts'
  BY DEF StepsInv, StepsType, LabelsApart, BusyCounts, Chip
<1>2. StepsSound'
  BY DEF StepsInv, StepsSound, BusyExit, test_steps, Chip
<1> QED BY <1>1, <1>2 DEF StepsInv

(* An output is set or cleared without touching another one.               *)
LEMMA OthersKept == \A high \in BOOLEAN : "other" \in pins => "other" \in GpioSetValue(high)
BY DEF GpioSetValue, UpdateLe32

(* The busy step ends.                                                     *)
LEMMA BusyEndsInv ==
  ASSUME NEW r, StepsInv, step = 9, BusyEnds(r), UNCHANGED <<board, probed>>,
         "other" \in pins', r = "PASSED" /\ ~failed => board = "good"
  PROVE  StepsInv'
<1>1. StepsType /\ step <= 13 /\ Finish(r) /\ busy' = BusyExit /\ irq_counter' = 0
      /\ UNCHANGED failed /\ probed
  BY StepNames DEF StepsInv, StepsType, BusyEnds, StepsSound
<1>2. /\ step' \in {step + 1, 14} /\ at' = "begin" /\ tries' = 0
      /\ ctrs'.clean \in {ctrs.clean, ctrs.clean \union {test_steps[step]}}
      /\ r # "PASSED" \/ failed => ctrs'.clean = ctrs.clean
  BY <1>1, FinishGoes
<1>3. ctrs' \in [no_result : Nat, pass : Nat, fail : Nat,
                 passed : SUBSET Names, clean : SUBSET Names]
  BY <1>1, FinishCtrs
<1>4. StepsType'
  <2>1. busy' \in BusyType
    BY <1>1 DEF BusyExit, BusyType
  <2> QED BY <1>1, <1>2, <1>3, <2>1 DEF StepsType, Labels
<1>5. LabelsApart' /\ BusyCounts'
  BY <1>2 DEF LabelsApart, BusyCounts
<1>6. StepsSound'
  <2>1. "busy" \in ctrs'.clean => board = "good"
    BY <1>2 DEF StepsInv, StepsSound
  <2> QED BY <1>1, <2>1 DEF StepsSound, BusyExit
<1> QED BY <1>4, <1>5, <1>6 DEF StepsInv

LEMMA StepsInvStep == StepsInv /\ [StepsNext]_stepVars => StepsInv'
<1> SUFFICES ASSUME StepsInv, [StepsNext]_stepVars PROVE StepsInv'
  OBVIOUS
<1> USE DEF Chip
<1>a. StepsType /\ LabelsApart /\ BusyCounts /\ StepsSound
  BY DEF StepsInv
<1>b. /\ Len(test_steps) = 13
      /\ \A i \in 1..13 : /\ (test_steps[i] = "busy") <=> (i = 9)
                          /\ (test_steps[i] = "chip_id") <=> (i = 8)
  BY StepNames
<1>c. ASSUME NEW name, NEW label, At(name, label)
      PROVE  /\ step \in 1..13 /\ at = label
             /\ (name = "busy") <=> (step = 9)
             /\ (name = "chip_id") <=> (step = 8)
  BY <1>a, <1>b, <1>c DEF At, StepsType
<1>1. ASSUME NEW name \in Names \ {"busy", "chip_id"}, NEW results, Simple(name, results) PROVE StepsInv'
  <2>1. At(name, "begin") /\ \E r \in results : Finish(r)
        /\ UNCHANGED <<board, probed, busy, pins, irq_counter, failed>>
    BY <1>1 DEF Simple
  <2>2. step \in 1..13 /\ step \notin {8, 9}
    BY <1>c, <2>1
  <2> QED BY <1>a, <2>1, <2>2, FinishInv DEF StepsType
<1>2. CASE TaskCreate
  <2>1. step \in 1..13 /\ step \notin {8, 9} /\ UNCHANGED <<board, probed, busy, pins, irq_counter, failed>>
    BY <1>2, <1>c DEF TaskCreate
  <2>2. CASE Finish("FAILED_NON_CRITICAL")
    BY <1>a, <2>1, <2>2, FinishInv DEF StepsType
  <2>3. CASE at' = "created" /\ UNCHANGED <<step, tries, ctrs>>
    BY <1>a, <2>1, <2>3, WithinInv DEF StepsType, Labels
  <2> QED BY <1>2, <2>2, <2>3 DEF TaskCreate
<1>3. CASE NewTaskMain
  <2>1. UNCHANGED <<board, step, at, ctrs, tries, Chip>>
    BY <1>3 DEF NewTaskMain
  <2> QED BY <2>1, Unchanged
<1>4. CASE TaskCreation
  <2>1. step \in 1..13 /\ step \notin {8, 9} /\ UNCHANGED <<board, probed, busy, pins, irq_counter, failed>>
    BY <1>4, <1>c DEF TaskCreation
  <2>2. CASE \E r \in {"PASSED", "FAILED_NON_CRITICAL"} : Finish(r)
    BY <1>a, <2>1, <2>2, FinishInv DEF StepsType
  <2>3. CASE at' = "slept" /\ UNCHANGED <<step, tries, ctrs>>
    BY <1>a, <2>1, <2>3, WithinInv DEF StepsType, Labels
  <2> QED BY <1>4, <2>2, <2>3 DEF TaskCreation
<1>5. CASE ReadChipId
  <2>1. step = 8 /\ at = "begin" /\ UNCHANGED <<board, busy, pins, irq_counter, failed>>
    BY <1>5, <1>c, <1>a DEF ReadChipId, StepsType
  <2>2. CASE Finish("FAILED") /\ UNCHANGED probed
    BY <1>a, <2>1, <2>2, FinishInv DEF StepsType
  <2>3. CASE Finish("PASSED") /\ probed' = TRUE
    BY <1>a, <2>1, <2>3, FinishInv DEF StepsType
  <2>4. CASE tries' \in {3, tries + 1} /\ UNCHANGED <<step, at, ctrs, probed>>
    BY <1>a, <2>1, <2>4, WithinInv DEF StepsType, Labels
  <2> QED BY <1>5, <2>2, <2>3, <2>4 DEF ReadChipId, UnknownChip
<1>6. CASE BusyArmStep
  <2>1. /\ step = 9 /\ at' = "toggle" /\ tries = 0 /\ irq_counter' = 0 /\ failed' = FALSE
        /\ busy' = [handler |-> TRUE, enabled |-> TRUE] /\ "other" \in pins'
        /\ UNCHANGED <<board, step, ctrs, probed, tries>>
    BY <1>6, <1>a, <1>c, OthersKept DEF BusyArmStep, StepsType, LabelsApart, StepsSound
  <2>2. busy'.enabled /\ busy' \in BusyType
    BY <2>1 DEF BusyType
  <2>3. StepsType' /\ LabelsApart' /\ BusyCounts'
    <3>1. StepsType'
      BY <1>a, <2>1, <2>2 DEF StepsType, Labels
    <3> QED BY <1>a, <2>1, <2>2, <3>1 DEF LabelsApart, BusyCounts
  <2>4. StepsSound'
    BY <1>a, <2>1 DEF StepsSound, test_steps
  <2> QED BY <2>3, <2>4 DEF StepsInv
<1>7. CASE BusyToggle
  <2>1. step = 9 /\ at = "toggle" /\ UNCHANGED <<board, probed>> /\ "other" \in pins
    BY <1>7, <1>a, <1>c DEF BusyToggle, StepsSound
  <2>2. CASE /\ tries < 2 /\ BusyIsAsserted(GpioSetValue(TRUE))
             /\ tries' = tries + 1 /\ irq_counter' = Counted
             /\ UNCHANGED <<step, at, ctrs, busy, pins, failed>>
    <3>1. board # "stuck" /\ busy.enabled
      BY <1>a, <2>1, <2>2 DEF BusyIsAsserted, BusyCounts
    <3>2. StepsType' /\ LabelsApart' /\ BusyCounts'
      <4>1. Counted = irq_counter + Interrupts
        <5>1. irq_counter \in 0..4 /\ Interrupts \in 0..2
          BY <1>a, <2>1, <2>2 DEF StepsType, BusyCounts, Interrupts
        <5> HIDE DEF Interrupts
        <5> QED BY <5>1 DEF Counted
      <4> QED BY <1>a, <2>1, <2>2, <3>1, <4>1 DEF StepsType, LabelsApart, BusyCounts, Interrupts
    <3>3. StepsSound'
      BY <1>a, <2>1, <2>2 DEF StepsSound, test_steps
    <3> QED BY <3>2, <3>3 DEF StepsInv
  <2>3. CASE BusyEnds("FAILED") /\ pins' \in {pins, GpioSetValue(TRUE)}
    BY <2>1, <2>3, OthersKept, BusyEndsInv
  <2>4. CASE /\ tries = 2 /\ irq_counter = 2
             /\ at' = "quiet" /\ busy' = [busy EXCEPT !.enabled = FALSE]
             /\ UNCHANGED <<step, ctrs, tries, irq_counter, pins, failed>>
    <3>1. ~busy'.enabled /\ busy' \in BusyType /\ board \in {"good", "deaf"}
      <4>1. busy \in BusyType
        BY <1>a DEF StepsType
      <4>2. ~busy'.enabled /\ busy' \in BusyType
        BY <2>4, <4>1 DEF BusyType
      <4>3. board \in {"good", "deaf"}
        BY <1>a, <2>1, <2>4, BoardAssumption DEF BusyCounts, StepsType
      <4> QED BY <4>2, <4>3
    <3>2. StepsType' /\ LabelsApart' /\ BusyCounts'
      <4>1. StepsType'
        BY <1>a, <2>1, <2>4, <3>1 DEF StepsType, Labels
      <4> QED BY <1>a, <2>1, <2>4, <3>1, <4>1 DEF LabelsApart, BusyCounts
    <3>3. StepsSound'
      BY <1>a, <2>1, <2>4 DEF StepsSound, test_steps
    <3> QED BY <3>2, <3>3 DEF StepsInv
  <2> QED BY <1>7, <2>2, <2>3, <2>4 DEF BusyToggle
<1>8. CASE BusyQuiet
  <2>1. step = 9 /\ at = "quiet" /\ UNCHANGED <<board, probed>> /\ "other" \in pins
    BY <1>8, <1>a, <1>c DEF BusyQuiet, StepsSound
  <2>2. ASSUME tries < 4, tries' = tries + 1,
               \/ irq_counter' = Counted /\ UNCHANGED failed
               \/ failed' = TRUE /\ irq_counter' \in {irq_counter, Counted},
               pins' \in {pins, GpioSetValue(TRUE), GpioSetValue(FALSE)},
               UNCHANGED <<step, at, ctrs, busy>>
        PROVE  StepsInv'
    <3>1. ~busy.enabled /\ board \in {"good", "deaf"} /\ tries \in 2..3
      BY <1>a, <2>1, <2>2 DEF BusyCounts
    <3>2. Interrupts = IF board = "deaf" THEN 1 ELSE 0
      BY <3>1 DEF Interrupts
    <3>3. irq_counter \in Nat /\ Interrupts \in 0..1
      BY <1>a, <3>2 DEF StepsType
    <3>4. irq_counter' \in Nat /\ failed' \in BOOLEAN /\ tries' \in Nat
      <4>1. Counted \in Nat
        BY <3>3 DEF Counted
      <4>2. failed \in BOOLEAN
        BY <1>a DEF StepsType
      <4>3. irq_counter' \in {irq_counter, Counted} /\ failed' \in {failed, TRUE}
        BY <2>2
      <4>4. tries' \in Nat
        BY <2>2, <3>1
      <4> QED BY <3>3, <4>1, <4>2, <4>3, <4>4
    <3>5. board = "deaf" /\ ~failed' => irq_counter' = tries'
      <4> SUFFICES ASSUME board = "deaf", ~failed' PROVE irq_counter' = tries'
        OBVIOUS
      <4>1. irq_counter' = Counted /\ irq_counter = tries
        BY <1>a, <2>1, <2>2 DEF BusyCounts
      <4>2. Interrupts = 1
        BY <3>2
      <4>3. Counted = tries + 1
        BY <3>1, <4>1, <4>2 DEF Counted
      <4> QED BY <2>2, <4>1, <4>3
    <3>6. StepsType'
      BY <1>a, <2>1, <2>2, <3>4 DEF StepsType
    <3>7. LabelsApart' /\ BusyCounts'
      BY <1>a, <2>1, <2>2, <3>1, <3>5 DEF LabelsApart, BusyCounts
    <3>8. StepsSound'
      <4>1. "other" \in pins'
        BY <2>1, <2>2, OthersKept
      <4> QED BY <1>a, <2>1, <2>2, <4>1 DEF StepsSound, test_steps
    <3> QED BY <3>6, <3>7, <3>8 DEF StepsInv
  <2>3. CASE /\ tries = 4 /\ BusyEnds(IF irq_counter > 2 THEN "FAILED" ELSE "PASSED")
             /\ UNCHANGED pins
    <3>1. irq_counter <= 2 /\ ~failed => board = "good"
      BY <1>a, <2>1, <2>3 DEF BusyCounts
    <3> QED BY <1>a, <2>1, <2>3, <3>1, BusyEndsInv DEF StepsType
  <2>4. CASE /\ tries < 4 /\ tries' = tries + 1
             /\ \/ /\ irq_counter' = Counted
                   /\ pins' = GpioSetValue(FALSE) /\ UNCHANGED failed
                \/ /\ failed' = TRUE /\ irq_counter' \in {irq_counter, Counted}
                   /\ pins' \in {pins, GpioSetValue(TRUE), GpioSetValue(FALSE)}
             /\ UNCHANGED <<step, at, ctrs, busy>>
    <3>1. pins' \in {pins, GpioSetValue(TRUE), GpioSetValue(FALSE)}
      BY <2>4
    <3> QED BY <2>2, <2>4, <3>1
  <2> QED BY <1>8, <2>3, <2>4 DEF BusyQuiet
<1>9. CASE BuffersAlloc \/ WriteMultiByte \/ ReadMultiByte \/ Again \/ ValidBuffer
  <2>1. step \in 1..13 /\ step \notin {8, 9} /\ UNCHANGED <<board, probed, busy, pins, irq_counter>>
    BY <1>9, <1>c DEF BuffersAlloc, WriteMultiByte, ReadMultiByte, Again, ValidBuffer,
                      In, Patterned, OnlyData
  <2>2. failed' \in BOOLEAN
    BY <1>9, <1>a DEF BuffersAlloc, WriteMultiByte, ReadMultiByte, Again, ValidBuffer, StepsType
  <2>3. \/ \E r \in {"PASSED", "FAILED"} : Finish(r)
        \/ at' \in {"write", "read", "compare"} /\ UNCHANGED <<step, tries, ctrs>>
    BY <1>9 DEF BuffersAlloc, WriteMultiByte, ReadMultiByte, Again, ValidBuffer,
                Goes, ProcessReturn
  <2>4. CASE \E r \in {"PASSED", "FAILED"} : Finish(r)
    BY <1>a, <2>1, <2>2, <2>4, FinishInv DEF StepsType
  <2>5. CASE at' \in {"write", "read", "compare"} /\ UNCHANGED <<step, tries, ctrs>>
    BY <1>a, <2>1, <2>2, <2>5, WithinInv DEF StepsType, Labels
  <2> QED BY <2>3, <2>4, <2>5
<1>10. CASE UNCHANGED stepVars
  BY <1>10, Unchanged DEF stepVars
<1>11. \A name \in {"malloc", "realloc", "time", "init", "reset", "startup", "fw", "bcf"} :
         name \in Names \ {"busy", "chip_id"}
  BY DEF Names, test_steps
<1> QED BY <1>1, <1>2, <1>3, <1>4, <1>5, <1>6, <1>7, <1>8, <1>9, <1>10, <1>11
        DEF StepsNext, OsMalloc, OsRealloc, OsTime, WlanInitStep, HardResetStep,
            SdioStartupStep, ValidateFw, ValidateBcf

(* The steps of the porting assistant rely on what holds, and the busy     *)
(* step concludes what is so, for every board and chip and whichever       *)
(* accesses fail.                                                          *)
THEOREM StepsAlwaysSound == StepsSpec => []StepsSound
<1>1. StepsInv => StepsSound
  BY DEF StepsInv
<1> QED BY <1>1, StepsInvInit, StepsInvStep, PTL DEF StepsSpec

-----------------------------------------------------------------------------
(* An aligned word does not run over the end of a window.                  *)
LEMMA AlignedParts ==
  ASSUME NEW q \in Nat, NEW r \in Nat, NEW k \in Nat, NEW m \in Nat, r < 4 * k, 4 * m = q * (4 * k) + r
  PROVE  r + 4 <= 4 * k
<1>1. q * (4 * k) = 4 * (q * k) /\ q * k \in Nat
  OBVIOUS
<1> QED BY <1>1

LEMMA Aligned ==
  ASSUME NEW a \in Nat, NEW w \in Nat \ {0}, a % 4 = 0, w % 4 = 0
  PROVE  (a % w) + 4 <= w
<1>1. PICK q, r \in Nat : q = a \div w /\ r = a % w /\ r < w /\ a = q * w + r
  BY DivMod
<1>2. PICK k \in Nat : w = 4 * k
  <2>1. w \div 4 \in Nat /\ w = 4 * (w \div 4)
    OBVIOUS
  <2> QED BY <2>1
<1>3. PICK m \in Nat : a = 4 * m
  <2>1. a \div 4 \in Nat /\ a = 4 * (a \div 4)
    OBVIOUS
  <2> QED BY <2>1
<1>4. r + 4 <= w
  BY <1>1, <1>2, <1>3, AlignedParts
<1> QED BY <1>1, <1>4

LEMMA TwoBytes ==
  ASSUME NEW q \in Nat, q < 65536
  PROVE  ((q \div 256) % 256) * 256 + (q % 256) = q
<1>1. PICK h, l \in Nat : h = q \div 256 /\ l = q % 256 /\ l < 256 /\ q = h * 256 + l
  BY DivMod
<1>2. h < 256
  BY <1>1
<1>3. h % 256 = h
  BY <1>1, <1>2
<1> QED BY <1>1, <1>3

LEMMA QuotientSmall ==
  ASSUME NEW a \in Nat, NEW e \in Nat, NEW w \in Nat \ {0}, a <= e, e \div w < 65536
  PROVE  a \div w \in Nat /\ a \div w < 65536
<1>1. PICK q, r \in Nat : q = a \div w /\ r = a % w /\ r < w /\ a = q * w + r
  BY DivMod
<1>2. PICK p, s \in Nat : p = e \div w /\ s = e % w /\ s < w /\ e = p * w + s
  BY DivMod
<1>3. q * w \in Nat /\ p * w \in Nat
  OBVIOUS
<1>4. p < q => p * w + w <= q * w
  BY Multiples
<1> QED BY <1>1, <1>2, <1>3, <1>4

-----------------------------------------------------------------------------
(***************************************************************************)
(* The bus access.  A call in its loop knows how far it has come; once the *)
(* three registers are written they select the window of its next access.  *)
(***************************************************************************)
Selecting == {"base", "base1", "base2"}
Moving == {"block", "byte", "next", "again"}
Looping == Selecting \union {"chunk"} \union Moving

SdioType ==
  /\ call \in {"none", "startup"} \union Single \union Multi
  /\ line \in {"idle", "startup"} \union Looping
  /\ start \in Nat /\ size \in Nat /\ address \in Nat /\ todo \in Nat
  /\ pass \in Nat /\ chunk \in Nat /\ moved \in Nat
  /\ window \in [{"F1", "F2"} -> [low : Nat, high : Nat, access : Nat]]
  /\ access \in [first : Nat, bytes : Nat, wanted : Nat]

(* The range asked for has 32-bit addresses.                               *)
InReach == (start + size) \div WindowSize < 65536

CallProgress ==
  line \in Looping =>
    /\ call \in Single \union Multi /\ code = "none"
    /\ start <= address /\ address + todo = start + size
    /\ InReach
    /\ call \in Single => start % 4 = 0 /\ size = 4 /\ todo \in {0, 4}
    /\ line \in Selecting \union {"chunk"} => todo > 0
    /\ call # "read_multi_byte" => start + moved = address

StartupProgress ==
  line = "startup" => call = "startup" /\ size = 0 /\ moved = 0 /\ access = NoAccess

(* The registers of the function a call goes through.                      *)
Low == window[FunctionOf(call)].low
High == window[FunctionOf(call)].high
Selected == High * 256 + Low

(* The window the next access wants.                                      *)
Wanted == address \div WindowSize

WindowProgress ==
  /\ line \in {"base1", "base2", "chunk"} => Low = Wanted % 256
  /\ line \in {"base2", "chunk"} => High = (Wanted \div 256) % 256
  /\ line \in Moving =>
       /\ Base(FunctionOf(call)) <= pass /\ pass < Base(FunctionOf(call)) + WindowSize
       /\ start <= pass /\ pass <= address
       /\ address + chunk <= Base(FunctionOf(call)) + WindowSize /\ chunk <= todo
       /\ call \in Single => chunk \in {0, 4}

SdioInv == SdioType /\ CallProgress /\ StartupProgress /\ WindowProgress /\ TransfersRight

LEMMA SdioInvInit == SdioInit => SdioInv
BY DEF SdioInit, SdioInv, SdioType, NoAccess, CallProgress, StartupProgress, Looping,
       Selecting, Moving, WindowProgress, TransfersRight

(* The last access was within one window and within the range asked for.   *)
AccessRight ==
  access # NoAccess =>
    /\ access.first = access.wanted
    /\ access.first \div WindowSize = (access.first + access.bytes - 1) \div WindowSize
    /\ start <= access.first /\ access.first + access.bytes <= start + size

(* What lies behind the registers of the function in use is where the      *)
(* chip looks for it, and does not run over the end of the window.         *)
LEMMA SeenRight ==
  ASSUME SdioInv, line \in Moving, NEW p \in Nat, NEW n \in Nat, n > 0,
         pass <= p, p + n <= address + chunk, p + n <= start + size,
         access' = Seen(p, n), UNCHANGED <<start, size>>
  PROVE  access' \in [first : Nat, bytes : Nat, wanted : Nat] /\ AccessRight'
<1> DEFINE b == Selected
<1>1. b \in Nat /\ Base(FunctionOf(call)) = b * WindowSize
  BY DEF SdioInv, SdioType, Base, Selected, High, Low, FunctionOf
<1>2. /\ b * WindowSize <= pass /\ address + chunk <= b * WindowSize + WindowSize
      /\ start <= pass /\ pass \in Nat /\ address \in Nat /\ chunk \in Nat
      /\ start \in Nat /\ size \in Nat
  BY <1>1 DEF SdioInv, SdioType, WindowProgress
<1>3. WindowSize \in Nat \ {0}
  BY WindowAssumption
<1> HIDE DEF b
<1>4. b * WindowSize \in Nat
  BY <1>1, <1>3
<1>5. /\ b * WindowSize <= p /\ p < b * WindowSize + WindowSize
      /\ p + n - 1 \in Nat
      /\ b * WindowSize <= p + n - 1 /\ p + n - 1 < b * WindowSize + WindowSize
  BY <1>2, <1>3, <1>4
<1>b. b \in Int /\ p \in Int /\ p + n - 1 \in Int
  BY <1>1, <1>5
<1>6. p \div WindowSize = b /\ b * WindowSize + (p % WindowSize) = p
  <2>1. b * WindowSize <= p /\ p < b * WindowSize + WindowSize
    BY <1>5
  <2> QED BY <1>b, <1>3, <2>1, InWindow
<1>7. (p + n - 1) \div WindowSize = b
  <2>1. b * WindowSize <= p + n - 1 /\ p + n - 1 < b * WindowSize + WindowSize
    BY <1>5
  <2> QED BY <1>b, <1>3, <2>1, InWindow
<1>8. access' = [first |-> p, bytes |-> n, wanted |-> p]
  BY <1>1, <1>6 DEF Seen
<1>9. start <= p
  BY <1>2
<1> QED BY <1>6, <1>7, <1>8, <1>9 DEF AccessRight

(* A call returns.                                                         *)
LEMMA ReturnInv ==
  ASSUME SdioInv, NEW c, ReturnCode(c), UNCHANGED moved,
         c = "ok" /\ call # "read_multi_byte" => moved = size,
         window' \in [{"F1", "F2"} -> [low : Nat, high : Nat, access : Nat]],
         access' \in [first : Nat, bytes : Nat, wanted : Nat], AccessRight'
  PROVE  SdioInv'
<1>1. line' = "idle" /\ code' = c /\ UNCHANGED <<call, start, size, address, todo, pass, chunk>>
  BY DEF ReturnCode
<1>2. SdioType'
  BY <1>1 DEF SdioInv, SdioType
<1>3. CallProgress' /\ StartupProgress' /\ WindowProgress'
  BY <1>1 DEF CallProgress, StartupProgress, WindowProgress, Looping, Selecting, Moving
<1>4. TransfersRight'
  BY <1>1 DEF TransfersRight, AccessRight
<1> QED BY <1>2, <1>3, <1>4 DEF SdioInv

(* An access at address moves the call forward by n bytes.                 *)
Forward(n) ==
  /\ line \in Moving /\ line' \in {"byte", "next"} /\ Advance(n) /\ n <= chunk
  /\ chunk' = chunk - n \/ chunk' = 0
  /\ call \in Single => chunk' = 0 /\ n \in {0, todo}
  /\ UNCHANGED <<call, start, size, pass, window, code>>
  /\ moved' \in Nat /\ (call # "read_multi_byte" => moved' = moved + n)
  /\ access' \in [first : Nat, bytes : Nat, wanted : Nat] /\ AccessRight'

LEMMA ForwardInv == ASSUME SdioInv, NEW n \in Nat, Forward(n) PROVE SdioInv'
<1>1. /\ SdioType /\ CallProgress /\ WindowProgress /\ TransfersRight
      /\ address' = address + n /\ todo' = todo - n
      /\ line \in Moving /\ line \in Looping /\ line' \in {"byte", "next"}
  BY DEF SdioInv, Forward, Advance, Looping
<1>u. UNCHANGED <<call, start, size, pass, window, code>>
  BY DEF Forward
<1>2. /\ address \in Nat /\ chunk \in Nat /\ todo \in Nat /\ chunk <= todo
      /\ moved \in Nat /\ start \in Nat /\ size \in Nat /\ pass \in Nat
  BY <1>1 DEF SdioType, WindowProgress
<1>c. n <= chunk /\ (chunk' = chunk - n \/ chunk' = 0)
  BY DEF Forward
<1>s. call \in Single => chunk' = 0 /\ n \in {0, todo}
  BY DEF Forward
<1>m. moved' \in Nat /\ (call # "read_multi_byte" => moved' = moved + n)
  BY DEF Forward
<1>a. access' \in [first : Nat, bytes : Nat, wanted : Nat] /\ AccessRight'
  BY DEF Forward
<1>3. address' \in Nat /\ todo' \in Nat /\ chunk' \in Nat /\ chunk' <= todo' /\ address <= address'
  BY <1>1, <1>2, <1>c
<1>t. address' + todo' = address + todo
  BY <1>1, <1>2, <1>c
<1>k. address' + chunk' <= address + chunk
  BY <1>1, <1>2, <1>c
<1>4. SdioType'
  BY <1>1, <1>3, <1>u, <1>m, <1>a DEF SdioType, Looping, Moving
<1>5. CallProgress'
  <2>1. /\ call \in Single \union Multi /\ code = "none"
        /\ call \in Single => start % 4 = 0 /\ size = 4 /\ todo \in {0, 4}
        /\ call # "read_multi_byte" => start + moved = address
    BY <1>1 DEF CallProgress
  <2>2. start <= address /\ address + todo = start + size
    BY <1>1 DEF CallProgress
  <2>3. InReach
    BY <1>1 DEF CallProgress
  <2>4. (call \in Single \union Multi /\ code = "none")'
    BY <1>u, <2>1
  <2>5. start' <= address' /\ address' + todo' = start' + size'
    <3>1. start <= address'
      BY <1>2, <1>3, <2>2
    <3>2. address' + todo' = start + size
      BY <1>t, <2>2
    <3> QED BY <1>u, <3>1, <3>2
  <2>6. InReach'
    BY <1>u, <2>3 DEF InReach
  <2>7. (call \in Single => start % 4 = 0 /\ size = 4 /\ todo \in {0, 4})'
    BY <1>1, <1>2, <1>s, <1>u, <2>1
  <2>8. (line \in Selecting \union {"chunk"} => todo > 0)'
    BY <1>1 DEF Selecting
  <2>9. (call # "read_multi_byte" => start + moved = address)'
    BY <1>1, <1>2, <1>m, <1>u, <2>1
  <2> QED BY <2>4, <2>5, <2>6, <2>7, <2>8, <2>9 DEF CallProgress
<1>6. StartupProgress'
  BY <1>1 DEF StartupProgress
<1>7. WindowProgress'
  <2>1. PICK k \in Nat : k = Base(FunctionOf(call)) /\ k = Base(FunctionOf(call))'
    BY <1>1, <1>u, WindowAssumption DEF Base, FunctionOf, SdioType
  <2>k. k \in Nat /\ address + chunk <= k + WindowSize
    BY <1>1, <2>1 DEF WindowProgress
  <2>2. k <= pass /\ pass < k + WindowSize /\ start <= pass
    BY <1>1, <2>1 DEF WindowProgress
  <2>3. pass <= address /\ address + chunk <= k + WindowSize
    BY <1>1, <2>1 DEF WindowProgress
  <2>4. pass <= address'
    BY <1>2, <1>3, <2>3
  <2>5. WindowSize \in Nat
    BY WindowAssumption
  <2>6. address' + chunk' <= k + WindowSize
    <3>1. PICK a, c \in Nat : a = address' /\ c = chunk'
      BY <1>3
    <3>2. a + c <= address + chunk
      BY <1>k, <3>1
    <3>3. a \in Nat /\ c \in Nat
      BY <3>1
    <3>4. a + c <= k + WindowSize
      BY <1>2, <2>5, <2>k, <3>2, <3>3
    <3> QED BY <3>1, <3>4
  <2>7. line' \notin {"base1", "base2", "chunk"}
    BY <1>1
  <2>8. call' \in Single => chunk' \in {0, 4}
    BY <1>s, <1>u
  <2> QED BY <1>3, <1>u, <2>1, <2>2, <2>4, <2>6, <2>7, <2>8 DEF WindowProgress
<1>8. TransfersRight'
  BY <1>1, <1>u, <1>a DEF TransfersRight, AccessRight, CallProgress
<1> QED BY <1>4, <1>5, <1>6, <1>7, <1>8 DEF SdioInv

(* The window's registers are selected before anything moves.              *)
LEMMA StartupInv == ASSUME SdioInv, Startup \/ StartupStep PROVE SdioInv'
<1>1. SdioType /\ TransfersRight /\ StartupProgress
  BY DEF SdioInv
<1>2. CASE Startup
  <2>1. SdioType'
    BY <1>1, <1>2 DEF Startup, SdioType, NoAccess
  <2>2. CallProgress' /\ StartupProgress' /\ WindowProgress' /\ TransfersRight'
    BY <1>2 DEF Startup, CallProgress, StartupProgress, WindowProgress, TransfersRight,
                Looping, Selecting, Moving, NoAccess
  <2> QED BY <2>1, <2>2 DEF SdioInv
<1>3. CASE StartupStep
  <2>1. line = "startup" /\ UNCHANGED <<moved, access>>
    BY <1>3 DEF StartupStep
  <2>2. AccessRight' /\ access' \in [first : Nat, bytes : Nat, wanted : Nat]
    BY <1>1, <2>1 DEF StartupProgress, AccessRight, NoAccess
  <2>3. moved = size
    BY <1>1, <2>1 DEF StartupProgress
  <2>4. ASSUME NEW c, ReturnCode(c), UNCHANGED window PROVE SdioInv'
    <3>1. window' \in [{"F1", "F2"} -> [low : Nat, high : Nat, access : Nat]]
      BY <1>1, <2>4 DEF SdioType
    <3> QED BY <2>1, <2>2, <2>3, <2>4, <3>1, ReturnInv
  <2>5. CASE /\ todo > 0 /\ todo' = todo - 1
             /\ window' = [window EXCEPT !["F1"].low = IF todo = 3 THEN 5 ELSE @,
                                         !["F1"].high = IF todo = 2 THEN 16 ELSE @,
                                         !["F1"].access = IF todo = 1 THEN 2 ELSE @]
             /\ UNCHANGED <<call, line, start, size, address, pass, chunk, code>>
    <3>1. window' \in [{"F1", "F2"} -> [low : Nat, high : Nat, access : Nat]]
      <4>1. window \in [{"F1", "F2"} -> [low : Nat, high : Nat, access : Nat]]
        BY <1>1 DEF SdioType
      <4>2. window["F1"] \in [low : Nat, high : Nat, access : Nat]
        BY <4>1
      <4>3. PICK l, h, a \in Nat :
              window' = [window EXCEPT !["F1"].low = l, !["F1"].high = h, !["F1"].access = a]
        <5>1. /\ (IF todo = 3 THEN 5 ELSE window["F1"].low) \in Nat
              /\ (IF todo = 2 THEN 16 ELSE window["F1"].high) \in Nat
              /\ (IF todo = 1 THEN 2 ELSE window["F1"].access) \in Nat
          BY <4>2
        <5> QED BY <2>5, <4>1, <5>1
      <4> QED BY <4>1, <4>3
    <3>2. todo' \in Nat
      BY <1>1, <2>5 DEF SdioType
    <3>3. SdioType'
      BY <1>1, <2>1, <2>5, <3>1, <3>2 DEF SdioType
    <3>4. CallProgress' /\ StartupProgress' /\ WindowProgress'
      BY <1>1, <2>1, <2>5 DEF CallProgress, StartupProgress, WindowProgress,
                              Looping, Selecting, Moving
    <3>5. TransfersRight'
      BY <1>1, <2>1, <2>2, <2>3, <2>5 DEF TransfersRight, AccessRight
    <3> QED BY <3>3, <3>4, <3>5 DEF SdioInv
  <2> QED BY <1>3, <2>4, <2>5 DEF StartupStep
<1> QED BY <1>2, <1>3

LEMMA CallInv ==
  ASSUME SdioInv, NEW a \in Addresses, NEW c, NEW n, Call(c, a, n),
         (c \in Multi /\ n \in Lengths) \/ (c \in Single /\ n = 4)
  PROVE  SdioInv'
<1>1. /\ call' = c /\ start' = a /\ size' = n /\ address' = a /\ todo' = n
      /\ pass' = a /\ chunk' = 0 /\ moved' = 0 /\ access' = NoAccess
      /\ UNCHANGED window
  BY DEF Call
<1>2. \/ line' = "idle" /\ code' = "INVALID_ARGUMENT"
      \/ line' = "base" /\ code' = "none" /\ ~(c \in Multi /\ (n = 0 \/ n % 4 # 0))
  BY DEF Call
<1>n. n \in Lengths \union {4}
  OBVIOUS
<1>w. /\ \A b \in Addresses : b \in Nat /\ b % 4 = 0
      /\ Lengths \union {4} \subseteq Nat
  BY WindowAssumption
<1>3. a \in Nat /\ n \in Nat /\ a % 4 = 0 /\ n \in Lengths \union {4}
  BY <1>n, <1>w
<1>4. c \in Single \union Multi
  OBVIOUS
<1>5. SdioType'
  BY <1>1, <1>2, <1>3, <1>4 DEF SdioInv, SdioType, NoAccess, Looping, Selecting
<1>6. CallProgress'
  <2>1. CASE line' = "idle"
    BY <2>1 DEF CallProgress, Looping, Selecting, Moving
  <2>2. CASE line' = "base"
    <3>1. InReach'
      BY <1>1, <1>3, WindowAssumption DEF InReach
    <3>2. n > 0
      BY <1>2, <1>3, <2>2
    <3>3. a <= a /\ a + n = a + n /\ a + 0 = a
      BY <1>3
    <3> QED BY <1>1, <1>2, <1>3, <1>4, <2>2, <3>1, <3>2, <3>3 DEF CallProgress, Single, Multi
  <2> QED BY <1>2, <2>1, <2>2
<1>7. StartupProgress' /\ WindowProgress'
  BY <1>2 DEF StartupProgress, WindowProgress, Moving
<1>8. TransfersRight'
  BY <1>1, <1>2 DEF TransfersRight
<1> QED BY <1>5, <1>6, <1>7, <1>8 DEF SdioInv

(* A register of the window is written, or the call fails.                 *)
LEMMA BaseInv == ASSUME SdioInv, AddressBaseSet PROVE SdioInv'
<1> DEFINE f == FunctionOf(call)
           base == Wanted
           Windows == [{"F1", "F2"} -> [low : Nat, high : Nat, access : Nat]]
<1>1. SdioType /\ CallProgress /\ WindowProgress /\ TransfersRight
  BY DEF SdioInv
<1>2. f \in {"F1", "F2"} /\ window \in Windows
  BY <1>1 DEF FunctionOf, SdioType
<1>3. base \in Nat
  <2>1. address \in Nat /\ WindowSize \in Nat \ {0}
    BY <1>1, WindowAssumption DEF SdioType
  <2> QED BY <2>1, DivMod DEF Wanted
<1>4. ASSUME NEW from \in Selecting, NEW to \in Selecting \union {"chunk"}, NEW written \in Windows,
             BaseStep(from, to, written),
             to \in {"base1", "base2", "chunk"} => written[f].low = base % 256,
             to \in {"base2", "chunk"} => written[f].high = (base \div 256) % 256
      PROVE  SdioInv'
  <2>0. line = from /\ line \in Looping
    BY <1>4 DEF BaseStep, Looping
  <2>1. CASE /\ line' = to /\ window' = written
             /\ UNCHANGED <<call, start, size, address, todo, pass, chunk, moved, access, code>>
    <3>1. SdioType'
      BY <1>1, <1>4, <2>1 DEF SdioType, Looping
    <3>2. CallProgress'
      <4>1. line' \in Looping /\ line' \in Selecting \union {"chunk"}
        BY <1>4, <2>1 DEF Looping
      <4>2. line \in Selecting \union {"chunk"}
        BY <1>4, <2>0
      <4>3. InReach' = InReach
        BY <2>1 DEF InReach
      <4> QED BY <1>1, <2>0, <2>1, <4>1, <4>2, <4>3 DEF CallProgress
    <3>3. StartupProgress' /\ TransfersRight'
      <4>1. line' # "startup"
        BY <1>4, <2>1 DEF Selecting
      <4> QED BY <1>1, <2>1, <4>1 DEF StartupProgress, TransfersRight
    <3>4. WindowProgress'
      <4>1. FunctionOf(call)' = f /\ Wanted' = base
        BY <2>1 DEF FunctionOf, Wanted
      <4>2. line' \notin Moving
        BY <1>4, <2>1 DEF Moving, Selecting
      <4> HIDE DEF f, base
      <4> QED BY <1>4, <2>1, <4>1, <4>2 DEF WindowProgress, Low, High
    <3> QED BY <3>1, <3>2, <3>3, <3>4 DEF SdioInv
  <2>2. CASE /\ \E e \in MapCmdError : ReturnCode(e)
             /\ UNCHANGED <<window, moved, access>>
    <3>1. PICK e \in MapCmdError : ReturnCode(e)
      BY <2>2
    <3>2. e # "ok"
      BY DEF MapCmdError
    <3>3. window' \in Windows /\ access' \in [first : Nat, bytes : Nat, wanted : Nat]
      BY <1>1, <2>2 DEF SdioType
    <3>4. AccessRight'
      BY <1>1, <2>2, <3>1 DEF AccessRight, TransfersRight, ReturnCode
    <3> QED BY <2>2, <3>1, <3>2, <3>3, <3>4, ReturnInv
  <2> QED BY <1>4, <2>1, <2>2 DEF BaseStep
<1>5. base % 256 \in Nat /\ (base \div 256) % 256 \in Nat
  BY <1>3
<1> HIDE DEF base, f
<1>6. CASE BaseStep("base", "base1", [window EXCEPT ![f].low = base % 256])
  <2> DEFINE w == [window EXCEPT ![f].low = base % 256]
  <2>1. w \in Windows /\ w[f].low = base % 256
    BY <1>2, <1>5
  <2> HIDE DEF w
  <2> QED BY <1>4, <1>6, <2>1 DEF Selecting, w
<1>7. CASE BaseStep("base1", "base2", [window EXCEPT ![f].high = (base \div 256) % 256])
  <2> DEFINE w == [window EXCEPT ![f].high = (base \div 256) % 256]
  <2>1. w \in Windows /\ w[f].low = window[f].low /\ w[f].high = (base \div 256) % 256
    BY <1>2, <1>5
  <2>2. window[f].low = base % 256
    BY <1>1, <1>7 DEF BaseStep, WindowProgress, Low, f, base
  <2> HIDE DEF w
  <2> QED BY <1>4, <1>7, <2>1, <2>2 DEF Selecting, w
<1>8. CASE BaseStep("base2", "chunk", [window EXCEPT ![f].access = 2])
  <2> DEFINE w == [window EXCEPT ![f].access = 2]
  <2>1. w \in Windows /\ w[f].low = window[f].low /\ w[f].high = window[f].high
    BY <1>2
  <2>2. window[f].low = base % 256 /\ window[f].high = (base \div 256) % 256
    BY <1>1, <1>8 DEF BaseStep, WindowProgress, Low, High, f, base
  <2> HIDE DEF w
  <2> QED BY <1>4, <1>8, <2>1, <2>2 DEF Selecting, w
<1> QED BY <1>6, <1>7, <1>8 DEF AddressBaseSet, f, base, Wanted

(* The registers that were written select the window of the address, and   *)
(* a pass is cut before the end of it.                                     *)
LEMMA SelectedIsWanted ==
  ASSUME SdioInv, line = "chunk" PROVE  Selected = Wanted /\ Wanted \in Nat
<1>1. SdioType /\ CallProgress /\ WindowProgress /\ line \in Looping
  BY DEF SdioInv, Looping
<1>2. /\ address \in Nat /\ todo \in Nat /\ start \in Nat /\ size \in Nat
      /\ address + todo = start + size /\ InReach
  BY <1>1 DEF SdioType, CallProgress
<1>3. WindowSize \in Nat \ {0}
  BY WindowAssumption
<1>4. PICK e \in Nat : e = start + size /\ address <= e
  BY <1>2
<1>5. e \div WindowSize < 65536
  BY <1>2, <1>4 DEF InReach
<1>6. Wanted \in Nat /\ Wanted < 65536
  BY <1>2, <1>3, <1>4, <1>5, QuotientSmall DEF Wanted
<1>7. Low = Wanted % 256 /\ High = (Wanted \div 256) % 256
  BY <1>1 DEF WindowProgress
<1> QED BY <1>6, <1>7, TwoBytes DEF Selected

LEMMA ChunkFits ==
  ASSUME SdioInv, line = "chunk"
  PROVE  /\ ChunkOf \in Nat /\ ChunkOf <= todo
         /\ address + ChunkOf <= Wanted * WindowSize + WindowSize
         /\ Wanted * WindowSize <= address /\ address < Wanted * WindowSize + WindowSize
         /\ call \in Single => ChunkOf \in {0, 4}
<1>1. SdioType /\ CallProgress /\ line \in Looping
  BY DEF SdioInv, Looping
<1>2. /\ address \in Nat /\ todo \in Nat /\ start \in Nat /\ size \in Nat /\ todo > 0
      /\ address + todo = start + size
      /\ call \in Single => start % 4 = 0 /\ size = 4 /\ todo \in {0, 4}
      /\ call \in Single \union Multi
  BY <1>1 DEF SdioType, CallProgress
<1>3. WindowSize \in Nat \ {0} /\ WindowSize % 512 = 0
  BY WindowAssumption
<1>4. PICK q, r \in Nat : q = Wanted /\ r = address % WindowSize /\ r < WindowSize
                          /\ address = q * WindowSize + r
  BY <1>2, <1>3, DivMod DEF Wanted
<1>5. PICK b \in Nat : b = q * WindowSize /\ (q + 1) * WindowSize = b + WindowSize
  BY <1>3
<1>6. address = b + r /\ b <= address /\ address < b + WindowSize
  BY <1>3, <1>4, <1>5
<1>7. PICK most \in Nat : most = (IF todo < 512 * 128 THEN todo ELSE 512 * 128) /\ most <= todo
  BY <1>2
<1>8. ChunkOf = IF call \in Multi /\ address + most > b + WindowSize
                  THEN (b + WindowSize) - address ELSE most
  BY <1>4, <1>5, <1>7 DEF ChunkOf, Wanted
<1>9. CASE call \in Multi
  <2>1. call \notin Single
    BY <1>9 DEF Single, Multi
  <2>2. ChunkOf \in Nat /\ ChunkOf <= todo /\ address + ChunkOf <= b + WindowSize
    BY <1>2, <1>3, <1>6, <1>7, <1>8, <1>9
  <2> QED BY <1>4, <1>5, <1>6, <2>1, <2>2
<1>10. CASE call \in Single
  <2>1. call \notin Multi
    BY <1>10 DEF Single, Multi
  <2>2. todo = 4 /\ address = start
    BY <1>2, <1>10
  <2>3. ChunkOf = 4
    BY <1>7, <1>8, <2>1, <2>2
  <2>4. WindowSize % 4 = 0
    BY <1>3
  <2>5. r + 4 <= WindowSize
    BY <1>2, <1>3, <1>4, <1>10, <2>2, <2>4, Aligned
  <2> QED BY <1>3, <1>4, <1>5, <1>6, <2>2, <2>3, <2>5
<1> QED BY <1>2, <1>9, <1>10

LEMMA ChunkInv == ASSUME SdioInv, Chunk PROVE SdioInv'
<1>1. /\ SdioType /\ CallProgress /\ WindowProgress /\ TransfersRight
      /\ line = "chunk" /\ line \in Looping
  BY DEF SdioInv, Chunk, Looping
<1>2. /\ line' = "block" /\ pass' = address /\ chunk' = ChunkOf
      /\ UNCHANGED <<call, start, size, address, todo, window, moved, access, code>>
  BY DEF Chunk
<1>3. /\ ChunkOf \in Nat /\ ChunkOf <= todo
      /\ address + ChunkOf <= Wanted * WindowSize + WindowSize
      /\ Wanted * WindowSize <= address /\ address < Wanted * WindowSize + WindowSize
      /\ call \in Single => ChunkOf \in {0, 4}
  BY <1>1, ChunkFits
<1> HIDE DEF ChunkOf
<1>4. SdioType'
  BY <1>1, <1>2, <1>3 DEF SdioType, Looping, Moving
<1>5. CallProgress'
  BY <1>1, <1>2 DEF CallProgress, InReach, Selecting
<1>6. StartupProgress' /\ TransfersRight'
  BY <1>1, <1>2 DEF StartupProgress, TransfersRight
<1>7. WindowProgress'
  <2>1. Base(FunctionOf(call))' = Wanted * WindowSize
    <3>1. Base(FunctionOf(call))' = Base(FunctionOf(call))
      BY <1>2 DEF Base, FunctionOf
    <3>2. Base(FunctionOf(call)) = Selected * WindowSize
      BY DEF Base, Selected, Low, High
    <3> QED BY <1>1, <3>1, <3>2, SelectedIsWanted
  <2>2. start <= address /\ address <= address
    BY <1>1 DEF CallProgress, SdioType
  <2> HIDE DEF Wanted
  <2> QED BY <1>2, <1>3, <2>1, <2>2 DEF WindowProgress
<1> QED BY <1>4, <1>5, <1>6, <1>7 DEF SdioInv

(* An access that moves what is wanted, or fails.                          *)
LEMMA Cmd53Inv ==
  ASSUME SdioInv, NEW from \in {"block", "byte"}, NEW to \in {"byte", "next"},
         NEW wanted \in Nat, wanted <= chunk, call \in Single => wanted \in {0, chunk},
         Cmd53(from, to, wanted, wanted)
  PROVE  SdioInv'
<1>1. /\ SdioType /\ CallProgress /\ WindowProgress /\ TransfersRight
      /\ line = from /\ wanted > 0 /\ access' = Seen(address, wanted) /\ UNCHANGED window
  BY DEF SdioInv, Cmd53
<1>2. line \in Moving /\ line \in Looping
  BY <1>1 DEF Moving, Looping
<1>3. /\ address \in Nat /\ chunk \in Nat /\ todo \in Nat /\ chunk <= todo
      /\ moved \in Nat /\ start \in Nat /\ size \in Nat /\ pass <= address
      /\ call \in Single => chunk \in {0, 4} /\ todo \in {0, 4}
  BY <1>1, <1>2 DEF SdioType, WindowProgress, CallProgress
<1>4. address + todo = start + size
  BY <1>1, <1>2 DEF CallProgress
<1>5. address + wanted <= address + chunk /\ address + wanted <= start + size
  BY <1>3, <1>4
<1>6. UNCHANGED <<start, size>> =>
        access' \in [first : Nat, bytes : Nat, wanted : Nat] /\ AccessRight'
  BY <1>1, <1>2, <1>3, <1>5, SeenRight
<1>7. CASE /\ line' = to /\ Advance(wanted) /\ chunk' = chunk - wanted
           /\ moved' = IF start + moved = address THEN moved + wanted ELSE moved
           /\ UNCHANGED <<call, start, size, pass, code>>
  <2>1. call # "read_multi_byte" => start + moved = address
    BY <1>1, <1>2 DEF CallProgress
  <2>2. moved' \in Nat /\ (call # "read_multi_byte" => moved' = moved + wanted)
    BY <1>3, <1>7, <2>1
  <2>3. call \in Single => chunk' = 0 /\ wanted \in {0, todo}
    BY <1>1, <1>3, <1>7
  <2> QED BY <1>1, <1>2, <1>6, <1>7, <2>2, <2>3, ForwardInv DEF Forward
<1>8. CASE /\ call # "read_multi_byte" /\ (\E e \in MapDataError : ReturnCode(e))
           /\ UNCHANGED moved
  <2>1. PICK e \in MapDataError : ReturnCode(e)
    BY <1>8
  <2>2. e # "ok"
    BY DEF MapDataError
  <2>3. UNCHANGED <<start, size>>
    BY <2>1 DEF ReturnCode
  <2>4. window' \in [{"F1", "F2"} -> [low : Nat, high : Nat, access : Nat]]
    BY <1>1 DEF SdioType
  <2> QED BY <1>6, <1>8, <2>1, <2>2, <2>3, <2>4, ReturnInv
<1>9. CASE /\ call = "read_multi_byte" /\ Advance(chunk) /\ line' = "next" /\ chunk' = 0
           /\ UNCHANGED <<call, start, size, pass, moved, code>>
  <2>1. call \notin Single
    BY <1>9 DEF Single
  <2>2. chunk <= chunk
    BY <1>3
  <2> QED BY <1>1, <1>2, <1>3, <1>6, <1>9, <2>1, <2>2, ForwardInv DEF Forward
<1> QED BY <1>7, <1>8, <1>9 DEF Cmd53, Fails

(* The next line of a pass, with nothing moved.                            *)
LEMMA OnwardInv ==
  ASSUME SdioInv, line \in Moving, line' \in Moving \union {"base"},
         line' = "base" => todo > 0,
         UNCHANGED <<call, start, size, address, todo, pass, chunk, window, moved, code>>,
         access' \in [first : Nat, bytes : Nat, wanted : Nat], AccessRight'
  PROVE  SdioInv'
<1>1. SdioType /\ CallProgress /\ WindowProgress /\ TransfersRight /\ line \in Looping
  BY DEF SdioInv, Looping
<1>2. SdioType'
  BY <1>1 DEF SdioType, Looping, Selecting
<1>3. CallProgress' /\ StartupProgress'
  BY <1>1 DEF CallProgress, StartupProgress, InReach, Moving, Selecting
<1>4. WindowProgress'
  BY <1>1 DEF WindowProgress, Moving, Base, FunctionOf
<1>5. TransfersRight'
  BY <1>1 DEF TransfersRight, AccessRight
<1> QED BY <1>2, <1>3, <1>4, <1>5 DEF SdioInv

LEMMA BlockInv == ASSUME SdioInv, Cmd53Block PROVE SdioInv'
<1>1. SdioType /\ TransfersRight /\ CallProgress /\ WindowProgress
  BY DEF SdioInv
<1>2. CASE Cmd53("block", "byte", BlockPart, Cmd53Raw(512, BlockPart \div BlockSize(FunctionOf(call))))
  <2>1. line = "block" /\ BlockPart > 0 /\ line \in Moving /\ line \in Looping
    BY <1>2 DEF Cmd53, Moving, Looping
  <2>2. /\ chunk \in Nat /\ call \in Single \union Multi
        /\ call \in Single => chunk \in {0, 4}
    BY <1>1, <2>1 DEF SdioType, WindowProgress, CallProgress
  <2>3. call \notin Single
    <3>1. CASE FunctionOf(call) = "F1"
      BY <2>1, <2>2, <3>1 DEF BlockPart, BlockSize
    <3>2. CASE FunctionOf(call) # "F1"
      BY <2>1, <2>2, <3>2 DEF BlockPart, BlockSize
    <3> QED BY <3>1, <3>2
  <2>4. BlockSize(FunctionOf(call)) = 512
    BY <2>3 DEF BlockSize, FunctionOf, Single
  <2>5. /\ BlockPart \in Nat /\ BlockPart <= chunk
        /\ Cmd53Raw(512, BlockPart \div BlockSize(FunctionOf(call))) = BlockPart
    BY <2>2, <2>4 DEF BlockPart, Cmd53Raw
  <2> QED BY <1>2, <2>3, <2>5, Cmd53Inv
<1>3. CASE /\ line = "block" /\ BlockPart = 0 /\ line' = "byte"
           /\ UNCHANGED <<call, start, size, address, todo, pass, chunk, window, moved, access, code>>
  <2>1. AccessRight' /\ access' \in [first : Nat, bytes : Nat, wanted : Nat]
    BY <1>1, <1>3 DEF AccessRight, TransfersRight, SdioType
  <2> QED BY <1>3, <2>1, OnwardInv DEF Moving
<1> QED BY <1>2, <1>3 DEF Cmd53Block

LEMMA ByteInv == ASSUME SdioInv, Cmd53Byte PROVE SdioInv'
<1>1. SdioType /\ TransfersRight
  BY DEF SdioInv
<1>2. CASE Cmd53("byte", "next", chunk, Cmd53Raw(0, chunk))
  <2>1. chunk \in Nat /\ chunk <= chunk /\ Cmd53Raw(0, chunk) = chunk
    BY <1>1 DEF SdioType, Cmd53Raw
  <2> QED BY <1>2, <2>1, Cmd53Inv
<1>3. CASE /\ line = "byte" /\ chunk = 0 /\ line' = "next"
           /\ UNCHANGED <<call, start, size, address, todo, pass, chunk, window, moved, access, code>>
  <2>1. AccessRight' /\ access' \in [first : Nat, bytes : Nat, wanted : Nat]
    BY <1>1, <1>3 DEF AccessRight, TransfersRight, SdioType
  <2> QED BY <1>3, <2>1, OnwardInv DEF Moving
<1> QED BY <1>2, <1>3 DEF Cmd53Byte

LEMMA LoopInv == ASSUME SdioInv, ReRead \/ LoopEnds PROVE SdioInv'
<1>1. SdioType /\ TransfersRight /\ CallProgress /\ WindowProgress
  BY DEF SdioInv
<1>2. line \in Moving /\ line \in Looping
  BY DEF ReRead, LoopEnds, Moving, Looping
<1>3. /\ address \in Nat /\ todo \in Nat /\ start \in Nat /\ size \in Nat /\ moved \in Nat
      /\ pass \in Nat /\ chunk \in Nat /\ pass <= address /\ chunk <= todo
  BY <1>1, <1>2 DEF SdioType, WindowProgress
<1>4. address + todo = start + size
  BY <1>1, <1>2 DEF CallProgress
<1>5. CASE ReRead
  <2>1. /\ access' = Seen(pass, 8) /\ line' = "again"
        /\ UNCHANGED <<call, start, size, address, todo, pass, chunk, window, moved, code>>
    BY <1>5 DEF ReRead, Cmd53Raw
  <2>2. address - pass >= 8
    BY <1>5 DEF ReRead
  <2>3. pass + 8 <= address + chunk /\ pass + 8 <= start + size /\ pass <= pass
    BY <1>3, <1>4, <2>2
  <2>4. access' \in [first : Nat, bytes : Nat, wanted : Nat] /\ AccessRight'
    BY <1>2, <1>3, <2>1, <2>3, SeenRight
  <2> QED BY <1>2, <2>1, <2>4, OnwardInv DEF Moving
<1>6. CASE LoopEnds
  <2>1. AccessRight' /\ access' \in [first : Nat, bytes : Nat, wanted : Nat] /\ UNCHANGED <<window, moved>>
    BY <1>1, <1>6 DEF AccessRight, TransfersRight, SdioType, LoopEnds, ReturnCode
  <2>2. CASE /\ todo > 0 /\ line' = "base"
             /\ UNCHANGED <<call, start, size, address, todo, pass, chunk, code>>
    BY <1>2, <2>1, <2>2, OnwardInv
  <2>3. CASE todo = 0 /\ ReturnCode("ok")
    <3>1. call # "read_multi_byte" => moved = size
      <4>1. call # "read_multi_byte" => start + moved = address
        BY <1>1, <1>2 DEF CallProgress
      <4> QED BY <1>3, <1>4, <2>3, <4>1
    <3>2. window' \in [{"F1", "F2"} -> [low : Nat, high : Nat, access : Nat]]
      BY <1>1, <2>1 DEF SdioType
    <3> QED BY <2>1, <2>3, <3>1, <3>2, ReturnInv
  <2> QED BY <1>6, <2>2, <2>3 DEF LoopEnds
<1> QED BY <1>5, <1>6

LEMMA SdioInvStep == SdioInv /\ [SdioNext]_sdioVars => SdioInv'
<1> SUFFICES ASSUME SdioInv, [SdioNext]_sdioVars PROVE SdioInv'
  OBVIOUS
<1>1. CASE Startup \/ StartupStep
  BY <1>1, StartupInv
<1>2. CASE \E a \in Addresses : \/ \E c \in Multi, n \in Lengths : Call(c, a, n)
                                \/ \E c \in Single : Call(c, a, 4)
  BY <1>2, CallInv
<1>3. CASE AddressBaseSet
  BY <1>3, BaseInv
<1>4. CASE Chunk
  BY <1>4, ChunkInv
<1>5. CASE Cmd53Block
  BY <1>5, BlockInv
<1>6. CASE Cmd53Byte
  BY <1>6, ByteInv
<1>7. CASE ReRead \/ LoopEnds
  BY <1>7, LoopInv
<1>8. CASE UNCHANGED sdioVars
  BY <1>8 DEF sdioVars, SdioInv, SdioType, CallProgress, InReach, StartupProgress,
              WindowProgress, Low, High, Wanted, Base, FunctionOf, TransfersRight
<1> QED BY <1>1, <1>2, <1>3, <1>4, <1>5, <1>6, <1>7, <1>8 DEF SdioNext

(* Whichever requests the controller fails, also half-way through the      *)
(* window's registers, the chip is accessed where the caller meant, within *)
(* one window and the range asked for, and a call that returned 0 has      *)
(* moved every byte; for every window size and set of calls.               *)
THEOREM TransfersAlwaysRight == SdioSpec => []TransfersRight
<1>1. SdioInv => TransfersRight
  BY DEF SdioInv
<1> QED BY <1>1, SdioInvInit, SdioInvStep, PTL DEF SdioSpec

-----------------------------------------------------------------------------
(***************************************************************************)
(* The walk over an image.  Where its fields start is a recursive          *)
(* function; what is needed of it follows from there being no smallest     *)
(* counterexample.                                                         *)
(***************************************************************************)
Images == UNION {[1..n -> Fields] : n \in 0..MaxFields}

LEMMA ImageType ==
  ASSUME NEW fields \in Images
  PROVE  /\ Len(fields) \in Nat
         /\ \A i \in 1..Len(fields) :
              fields[i] \in [type : {"magic", "eof", "other"}, len : Nat, magic : BOOLEAN]
<1>1. PICK n \in Nat : fields \in [1..n -> Fields]
  BY BlobAssumption DEF Images
<1>2. fields \in Seq(Fields) /\ Len(fields) = n
  BY <1>1
<1> QED BY <1>1, <1>2, BlobAssumption

(* The starts of the fields up to the n-th.                                *)
StartsUpTo(fields, n, f) ==
  f = [i \in 0..n |-> IF i = 0 THEN 0 ELSE f[i - 1] + HeaderSize + fields[i].len]

LEMMA StartsExist ==
  ASSUME NEW fields \in Images
  PROVE  \E f : StartsUpTo(fields, Len(fields), f)
<1> DEFINE Bad == {n \in 0..Len(fields) : ~ \E f : StartsUpTo(fields, n, f)}
<1>1. Len(fields) \in Nat
  BY ImageType
<1>2. SUFFICES ASSUME Bad # {} PROVE FALSE
  BY <1>1
<1>3. PICK x \in Bad : \A y \in Bad : x <= y
  <2>1. Bad \in SUBSET Nat
    OBVIOUS
  <2> HIDE DEF Bad
  <2> QED BY <1>2, <2>1, Smallest
<1>4. x \in Nat /\ x \in 0..Len(fields)
  BY <1>1
<1>5. CASE x = 0
  <2>1. StartsUpTo(fields, 0, [i \in 0..0 |-> 0])
    BY DEF StartsUpTo
  <2> QED BY <1>5, <2>1
<1>6. CASE x > 0
  <2>1. x - 1 \in 0..Len(fields) /\ x - 1 \notin Bad
    BY <1>1, <1>3, <1>4, <1>6
  <2>2. PICK f : StartsUpTo(fields, x - 1, f)
    BY <2>1
  <2> DEFINE g == [i \in 0..x |-> IF i = x THEN f[x - 1] + HeaderSize + fields[x].len ELSE f[i]]
  <2>3. \A i \in 0..(x - 1) : f[i] = IF i = 0 THEN 0 ELSE f[i - 1] + HeaderSize + fields[i].len
    BY <2>2 DEF StartsUpTo
  <2>4. \A i \in 0..x : g[i] = IF i = 0 THEN 0 ELSE g[i - 1] + HeaderSize + fields[i].len
    <3>1. TAKE i \in 0..x
    <3>2. CASE i = x
      BY <1>4, <1>6, <3>2
    <3>3. CASE i = 0
      BY <1>4, <1>6, <2>3, <3>3
    <3>4. CASE i \in 1..(x - 1)
      <4>1. i - 1 \in 0..x /\ i - 1 # x /\ i # x
        BY <1>4, <3>4
      <4>2. g[i - 1] = f[i - 1] /\ g[i] = f[i]
        BY <4>1
      <4> QED BY <1>4, <2>3, <3>4, <4>2
    <3> QED BY <1>4, <3>2, <3>3, <3>4
  <2>5. StartsUpTo(fields, x, g)
    <3> HIDE DEF HeaderSize
    <3> QED BY <2>4 DEF StartsUpTo
  <2> QED BY <1>3, <2>5
<1> QED BY <1>4, <1>5, <1>6

(* The first field starts at 0, each one where the one before it ends.     *)
LEMMA Starts ==
  ASSUME NEW fields \in Images
  PROVE  /\ StartAfter(fields, 0) = 0
         /\ \A n \in 0..(Len(fields) - 1) :
              StartAfter(fields, n + 1) = StartAfter(fields, n) + HeaderSize + fields[n + 1].len
<1> DEFINE starts == CHOOSE f : StartsUpTo(fields, Len(fields), f)
<1>1. Len(fields) \in Nat
  BY ImageType
<1>2. StartsUpTo(fields, Len(fields), starts)
  BY StartsExist
<1>3. \A n : StartAfter(fields, n) = starts[n]
  BY DEF StartAfter, StartsUpTo
<1> HIDE DEF starts
<1>4. \A i \in 0..Len(fields) :
        starts[i] = IF i = 0 THEN 0 ELSE starts[i - 1] + HeaderSize + fields[i].len
  BY <1>2 DEF StartsUpTo
<1>5. starts[0] = 0
  BY <1>1, <1>4
<1>6. ASSUME NEW n \in 0..(Len(fields) - 1)
      PROVE  starts[n + 1] = starts[n] + HeaderSize + fields[n + 1].len
  <2>1. n + 1 \in 0..Len(fields) /\ n + 1 # 0 /\ (n + 1) - 1 = n
    BY <1>1
  <2> QED BY <1>4, <2>1
<1> QED BY <1>3, <1>5, <1>6

LEMMA StartsNat ==
  ASSUME NEW fields \in Images
  PROVE  \A n \in 0..Len(fields) : StartAfter(fields, n) \in Nat
<1> DEFINE Bad == {n \in 0..Len(fields) : StartAfter(fields, n) \notin Nat}
<1>1. Len(fields) \in Nat
  BY ImageType
<1>2. SUFFICES ASSUME Bad # {} PROVE FALSE
  OBVIOUS
<1>3. PICK x \in Bad : \A y \in Bad : x <= y
  <2>1. Bad \in SUBSET Nat
    OBVIOUS
  <2> HIDE DEF Bad
  <2> QED BY <1>2, <2>1, Smallest
<1>4. x \in Nat /\ x \in 0..Len(fields) /\ StartAfter(fields, x) \notin Nat
  BY <1>1
<1>5. x # 0
  BY <1>4, Starts
<1>6. x - 1 \in 0..(Len(fields) - 1) /\ x - 1 \notin Bad /\ (x - 1) + 1 = x
  BY <1>1, <1>3, <1>4, <1>5
<1>7. StartAfter(fields, x - 1) \in Nat
  BY <1>1, <1>6
<1>8. StartAfter(fields, x) = StartAfter(fields, x - 1) + HeaderSize + fields[x].len
  BY <1>6, Starts
<1>9. fields[x].len \in Nat
  BY <1>1, <1>4, <1>5, ImageType
<1> QED BY <1>4, <1>7, <1>8, <1>9 DEF HeaderSize

LEMMA StartsGrow ==
  ASSUME NEW fields \in Images, NEW m \in 0..Len(fields)
  PROVE  \A n \in m..Len(fields) : StartAfter(fields, m) <= StartAfter(fields, n)
<1> DEFINE Bad == {n \in m..Len(fields) : ~ (StartAfter(fields, m) <= StartAfter(fields, n))}
<1>1. Len(fields) \in Nat /\ m \in Nat
  BY ImageType
<1>2. SUFFICES ASSUME Bad # {} PROVE FALSE
  OBVIOUS
<1>3. PICK x \in Bad : \A y \in Bad : x <= y
  <2>1. Bad \in SUBSET Nat
    BY <1>1
  <2> HIDE DEF Bad
  <2> QED BY <1>2, <2>1, Smallest
<1>4. x \in Nat /\ x \in m..Len(fields) /\ ~ (StartAfter(fields, m) <= StartAfter(fields, x))
  BY <1>1
<1>5. x # m
  <2>1. StartAfter(fields, m) \in Nat
    BY StartsNat
  <2> QED BY <1>4, <2>1
<1>6. x - 1 \in 0..(Len(fields) - 1) /\ x - 1 \in m..Len(fields) /\ x - 1 \notin Bad /\ (x - 1) + 1 = x
  BY <1>1, <1>3, <1>4, <1>5
<1>7. StartAfter(fields, m) <= StartAfter(fields, x - 1)
  BY <1>6
<1>8. StartAfter(fields, x) = StartAfter(fields, x - 1) + HeaderSize + fields[x].len
  BY <1>6, Starts
<1>9. fields[x].len \in Nat
  BY <1>1, <1>4, <1>5, ImageType
<1>10. StartAfter(fields, m) \in Nat /\ StartAfter(fields, x - 1) \in Nat
  BY <1>1, <1>6, StartsNat
<1> QED BY <1>4, <1>7, <1>8, <1>9, <1>10 DEF HeaderSize

(* The walk stands at the start of a field, or within a value of which     *)
(* remaining bytes are left, and has seen no more than it has judged.      *)
BlobType ==
  /\ image \in Images /\ length \in 0..StartAfter(image, Len(image))
  /\ offset \in Nat /\ num_tlvs \in 0..Len(image) /\ remaining \in Nat
  /\ verdict \in {"none", "passed", "failed"}

ReadInImage == robuf.len > 0 => robuf.at + robuf.len <= length

(* A first field with which an image can be whole.                         *)
MagicFirst ==
  /\ image[1].type = "magic"
  /\ image[1].len = 0 \/ (image[1].len >= 4 /\ image[1].magic)

WalkProgress ==
  verdict = "none" =>
    /\ offset <= length /\ num_tlvs <= MAX_TLVS
    /\ \A i \in 1..num_tlvs : image[i].type # "eof"
    /\ num_tlvs > 0 => MagicFirst
    /\ remaining = 0 => offset = StartAfter(image, num_tlvs)
    /\ remaining > 0 =>
         /\ num_tlvs + 1 \in 1..Len(image) /\ num_tlvs + 1 <= MAX_TLVS
         /\ offset + remaining = StartAfter(image, num_tlvs + 1)
         /\ image[num_tlvs + 1].type # "eof"
         /\ num_tlvs = 0 => image[1].type = "magic"
         /\ remaining = image[num_tlvs + 1].len \/ offset = length

Judged == verdict # "none" => (verdict = "passed" <=> Whole)

BlobInv == BlobType /\ ReadInImage /\ WalkProgress /\ Judged

LEMMA BlobInvInit == BlobInit => BlobInv
<1> SUFFICES ASSUME BlobInit PROVE BlobInv
  OBVIOUS
<1>1. image \in Images /\ length \in 0..StartAfter(image, Len(image))
  BY DEF BlobInit, Images
<1>2. Len(image) \in Nat /\ StartAfter(image, 0) = 0
  BY <1>1, ImageType, Starts
<1>3. BlobType /\ ReadInImage /\ Judged
  BY <1>1, <1>2 DEF BlobInit, BlobType, ReadInImage, Judged
<1>4. length >= 0
  <2>1. StartAfter(image, Len(image)) \in Nat
    BY <1>1, <1>2, StartsNat
  <2> QED BY <1>1, <2>1
<1>5. MAX_TLVS >= 0
  BY BlobAssumption
<1> QED BY <1>2, <1>3, <1>4, <1>5 DEF BlobInit, BlobInv, WalkProgress

(* A reader gives what there is of what was asked.                         *)
LEMMA Reads ==
  ASSUME BlobType, NEW from \in Nat, NEW n \in Nat
  PROVE  /\ ReadFile(from, n).len \in Nat /\ ReadFile(from, n).len <= n
         /\ ReadFile(from, n).len > 0 => /\ from < length /\ ReadFile(from, n).at = from
                                         /\ from + ReadFile(from, n).len <= length
         /\ from <= length => \/ ReadFile(from, n).len = n
                              \/ from + ReadFile(from, n).len = length
<1>1. length \in Nat /\ length < Wrap /\ Wrap \in Nat \ {0}
  <2>1. image \in Images /\ length \in 0..StartAfter(image, Len(image))
    BY DEF BlobType
  <2>2. StartAfter(image, Len(image)) < Wrap
    BY <2>1, SizeAssumption DEF Images
  <2>3. StartAfter(image, Len(image)) \in Nat
    BY <2>1, ImageType, StartsNat
  <2>4. Wrap \in Nat \ {0}
    BY BlobAssumption
  <2> QED BY <2>1, <2>2, <2>3, <2>4
<1>2. CASE from > length
  BY <1>1, <1>2 DEF ReadFile
<1>3. CASE from <= length
  <2>1. PICK d \in Nat : d = length - from /\ d < Wrap /\ length + Wrap - from = d + Wrap
    BY <1>1, <1>3
  <2>2. (d + Wrap) % Wrap = d
    <3>1. 1 * Wrap <= d + Wrap /\ d + Wrap < 1 * Wrap + Wrap /\ d + Wrap \in Nat
      BY <1>1, <2>1
    <3>2. 1 * Wrap + ((d + Wrap) % Wrap) = d + Wrap
      BY <1>1, <3>1, InWindow
    <3>3. PICK q, r \in Nat : r = (d + Wrap) % Wrap
      BY <1>1, <3>1, DivMod
    <3> QED BY <1>1, <2>1, <3>2, <3>3
  <2> DEFINE read_len == (length + Wrap - from) % Wrap
  <2>4. read_len = d
    BY <2>1, <2>2, Zenon
  <2>5. ReadFile(from, n) = IF from > length THEN [at |-> Wrap, len |-> 0]
          ELSE [at |-> from, len |-> IF read_len < n THEN read_len ELSE n]
    BY DEF ReadFile
  <2> HIDE DEF read_len
  <2>3. ReadFile(from, n) = [at |-> from, len |-> IF d < n THEN d ELSE n]
    BY <1>1, <1>3, <2>4, <2>5
  <2> QED BY <1>1, <1>3, <2>1, <2>3
<1> QED BY <1>1, <1>2, <1>3

(* A whole image has not ended where the walk stands.                      *)
LEMMA WholeGoesOn ==
  ASSUME BlobInv, verdict = "none", Whole
  PROVE  /\ num_tlvs < MAX_TLVS /\ MagicFirst /\ num_tlvs < Len(image)
         /\ offset + remaining + HeaderSize <= length
<1>1. BlobType /\ WalkProgress
  BY DEF BlobInv
<1>2. /\ image \in Images /\ num_tlvs \in 0..Len(image) /\ Len(image) \in Nat
      /\ offset \in Nat /\ remaining \in Nat
  BY <1>1, ImageType DEF BlobType
<1>3. PICK n \in 2..Len(image) :
        /\ n <= MAX_TLVS /\ image[n].type = "eof"
        /\ \A i \in 1..(n - 1) : image[i].type # "eof"
        /\ MagicFirst
        /\ StartAfter(image, n - 1) + HeaderSize <= length
  BY DEF Whole, MagicFirst
<1>4. PICK k \in 0..Len(image) :
        /\ k = (IF remaining = 0 THEN num_tlvs ELSE num_tlvs + 1)
        /\ offset + remaining = StartAfter(image, k)
        /\ \A i \in 1..k : image[i].type # "eof"
  <2>1. CASE remaining = 0
    BY <1>1, <1>2, <2>1 DEF WalkProgress
  <2>2. CASE remaining > 0
    <3>1. \A i \in 1..num_tlvs : image[i].type # "eof"
      BY <1>1 DEF WalkProgress
    <3>2. /\ num_tlvs + 1 \in 1..Len(image)
          /\ offset + remaining = StartAfter(image, num_tlvs + 1)
          /\ image[num_tlvs + 1].type # "eof"
      BY <1>1, <2>2 DEF WalkProgress
    <3>3. \A i \in 1..(num_tlvs + 1) : i \in 1..num_tlvs \/ i = num_tlvs + 1
      BY <1>2
    <3> QED BY <1>2, <2>2, <3>1, <3>2, <3>3
  <2> QED BY <1>2, <2>1, <2>2
<1>5. k < n
  BY <1>2, <1>3, <1>4
<1>6. n - 1 \in k..Len(image) /\ num_tlvs < n /\ MAX_TLVS \in Nat
  BY <1>2, <1>3, <1>4, <1>5, BlobAssumption
<1>7. StartAfter(image, k) <= StartAfter(image, n - 1)
  BY <1>2, <1>6, StartsGrow
<1>8. /\ StartAfter(image, k) \in Nat /\ StartAfter(image, n - 1) \in Nat
      /\ StartAfter(image, Len(image)) \in Nat
  <2>1. n - 1 \in 0..Len(image) /\ Len(image) \in 0..Len(image)
    <3>1. Len(image) \in Nat /\ n \in 2..Len(image)
      BY <1>2
    <3> QED BY <3>1
  <2> QED BY <1>2, <1>4, <2>1, StartsNat
<1>9. length \in Nat
  BY <1>1, <1>8 DEF BlobType
<1>10. num_tlvs < MAX_TLVS /\ num_tlvs < Len(image)
  <2>1. n \in 2..Len(image) /\ n <= MAX_TLVS /\ num_tlvs < n
    BY <1>3, <1>6
  <2>2. num_tlvs \in Nat /\ Len(image) \in Nat /\ MAX_TLVS \in Nat
    BY <1>2, <1>6
  <2> QED BY <2>1, <2>2
<1>11. StartAfter(image, k) + HeaderSize <= length
  BY <1>3, <1>7, <1>8, <1>9 DEF HeaderSize
<1> QED BY <1>3, <1>4, <1>10, <1>11

LEMMA JudgedInv ==
  ASSUME BlobInv, verdict = "none", NEW v \in {"passed", "failed"}, Verdict(v),
         UNCHANGED <<image, length>>, ReadInImage', v = "passed" <=> Whole
  PROVE  BlobInv'
<1>1. verdict' = v /\ UNCHANGED <<offset, num_tlvs, remaining>>
  BY DEF Verdict
<1>2. BlobType'
  BY <1>1 DEF BlobInv, BlobType
<1>3. Judged' /\ WalkProgress'
  BY <1>1 DEF Judged, WalkProgress, Whole
<1> QED BY <1>2, <1>3 DEF BlobInv

(* The walk passes n bytes, and left bytes of the value are left.          *)
LEMMA PassesInv ==
  ASSUME BlobInv, verdict = "none", NEW n \in Nat, NEW left \in Nat, Passes(n, left),
         UNCHANGED <<image, length>>, ReadInImage',
         num_tlvs < Len(image), num_tlvs < MAX_TLVS, offset + n <= length,
         offset + n + left = StartAfter(image, num_tlvs + 1),
         image[num_tlvs + 1].type # "eof",
         num_tlvs = 0 => image[1].type = "magic",
         num_tlvs = 0 /\ left = 0 => MagicFirst,
         left > 0 => left = image[num_tlvs + 1].len \/ offset + n = length
  PROVE  BlobInv'
<1>1. /\ offset' = offset + n /\ remaining' = left /\ verdict' = "none"
      /\ num_tlvs' = IF left = 0 THEN num_tlvs + 1 ELSE num_tlvs
  BY DEF Passes
<1>2. BlobType /\ WalkProgress
  BY DEF BlobInv
<1>3. /\ image \in Images /\ num_tlvs \in Nat /\ Len(image) \in Nat /\ offset \in Nat
      /\ MAX_TLVS \in Nat
  BY <1>2, ImageType, BlobAssumption DEF BlobType
<1>4. offset' \in Nat /\ num_tlvs' \in 0..Len(image)
  BY <1>1, <1>3
<1>5. BlobType'
  BY <1>1, <1>2, <1>4 DEF BlobType
<1>6. Judged'
  BY <1>1 DEF Judged
<1>7. /\ \A i \in 1..num_tlvs : image[i].type # "eof"
      /\ num_tlvs > 0 => MagicFirst
  BY <1>2 DEF WalkProgress
<1>8. CASE left = 0
  <2>1. num_tlvs' = num_tlvs + 1 /\ remaining' = 0
    BY <1>1, <1>8
  <2>2. PICK k \in Nat : k = num_tlvs + 1 /\ k <= MAX_TLVS
    BY <1>3
  <2>3. \A i \in 1..k : i \in 1..num_tlvs \/ i = num_tlvs + 1
    BY <1>3, <2>2
  <2>4. \A i \in 1..k : image[i].type # "eof"
    BY <1>7, <2>2, <2>3
  <2>5. MagicFirst' /\ offset' = StartAfter(image, k)
    <3>1. MagicFirst
      BY <1>3, <1>7, <1>8
    <3>2. offset + n = StartAfter(image, k)
      BY <1>3, <1>8, <2>2
    <3> QED BY <1>1, <3>1, <3>2 DEF MagicFirst
  <2>6. num_tlvs' = k
    BY <2>1, <2>2
  <2>7. offset' <= length'
    BY <1>1
  <2>8. WalkProgress'
    <3>1. StartAfter(image, num_tlvs)' = StartAfter(image, k)
      BY <2>6
    <3>2. (\A i \in 1..num_tlvs : image[i].type # "eof")'
      BY <2>4, <2>6
    <3> HIDE DEF StartAfter
    <3> QED BY <2>1, <2>2, <2>5, <2>6, <2>7, <3>1, <3>2 DEF WalkProgress
  <2> QED BY <1>5, <1>6, <2>8 DEF BlobInv
<1>9. CASE left > 0
  <2>1. num_tlvs' = num_tlvs /\ remaining' = left
    BY <1>1, <1>9
  <2>2. MagicFirst' = MagicFirst
    BY DEF MagicFirst
  <2>3. num_tlvs + 1 \in 1..Len(image) /\ num_tlvs + 1 <= MAX_TLVS /\ num_tlvs <= MAX_TLVS
    BY <1>3
  <2>4. offset' <= length' /\ offset' + left = StartAfter(image, num_tlvs + 1)
    BY <1>1
  <2>5. StartAfter(image, num_tlvs + 1)' = StartAfter(image, num_tlvs + 1)
    BY <2>1
  <2>6. offset' + remaining' = StartAfter(image, num_tlvs + 1)'
    BY <2>1, <2>4, <2>5
  <2>7. left = image[num_tlvs + 1].len \/ offset' = length
    BY <1>1, <1>9
  <2>8. WalkProgress'
    BY <1>7, <1>9, <2>1, <2>2, <2>3, <2>4, <2>6, <2>7 DEF WalkProgress
  <2> QED BY <1>5, <1>6, <2>8 DEF BlobInv
<1> QED BY <1>8, <1>9

LEMMA HeaderInv == ASSUME BlobInv, ReadHeader PROVE BlobInv'
<1>1. /\ verdict = "none" /\ remaining = 0 /\ UNCHANGED <<image, length>>
      /\ BlobType /\ WalkProgress /\ ReadInImage
  BY DEF BlobInv, ReadHeader
<1>2. /\ image \in Images /\ num_tlvs \in Nat /\ num_tlvs <= Len(image) /\ Len(image) \in Nat
      /\ offset \in Nat /\ MAX_TLVS \in Nat /\ length \in Nat
      /\ StartAfter(image, Len(image)) \in Nat /\ length <= StartAfter(image, Len(image))
  <2>1. /\ image \in Images /\ num_tlvs \in 0..Len(image) /\ Len(image) \in Nat
        /\ offset \in Nat /\ MAX_TLVS \in Nat
        /\ length \in 0..StartAfter(image, Len(image))
    BY <1>1, ImageType, BlobAssumption DEF BlobType
  <2>2. StartAfter(image, Len(image)) \in Nat
    BY <2>1, StartsNat
  <2> QED BY <2>1, <2>2
<1>3. /\ offset <= length /\ num_tlvs <= MAX_TLVS /\ offset = StartAfter(image, num_tlvs)
      /\ \A i \in 1..num_tlvs : image[i].type # "eof"
      /\ num_tlvs > 0 => MagicFirst
  BY <1>1 DEF WalkProgress
<1>4. CASE num_tlvs = MAX_TLVS /\ Verdict("failed") /\ UNCHANGED robuf
  <2>1. ~Whole
    BY <1>1, <1>2, <1>4, WholeGoesOn
  <2>2. ReadInImage'
    BY <1>1, <1>4 DEF ReadInImage
  <2> QED BY <1>1, <1>4, <2>1, <2>2, JudgedInv
<1>5. CASE num_tlvs # MAX_TLVS /\ robuf' = ReadFile(offset, HeaderSize)
  <2> DEFINE got == ReadFile(offset, HeaderSize).len
  <2>1. /\ got \in Nat /\ got <= 4
        /\ got > 0 => /\ robuf'.at = offset /\ offset + got <= length
        /\ got = 4 \/ offset + got = length
    BY <1>1, <1>2, <1>3, <1>5, Reads DEF HeaderSize
  <2>2. robuf'.len = got
    BY <1>5
  <2> HIDE DEF got
  <2>3. ReadInImage'
    BY <1>1, <2>1, <2>2 DEF ReadInImage
  <2>4. CASE got < HeaderSize /\ Verdict("failed")
    <3>1. ASSUME Whole PROVE FALSE
      <4>1. offset + 0 + 4 <= length
        BY <1>1, <3>1, WholeGoesOn DEF HeaderSize
      <4> QED BY <1>2, <2>1, <2>4, <4>1 DEF HeaderSize
    <3> QED BY <1>1, <2>3, <2>4, <3>1, JudgedInv
  <2>5. CASE got = HeaderSize
    <3>1. offset + 4 <= length
      BY <2>1, <2>5 DEF HeaderSize
    <3>2. num_tlvs < Len(image)
      BY <1>2, <1>3, <3>1
    <3>3. CASE num_tlvs = 0 /\ Here.type # "magic" /\ Verdict("failed")
      <4>1. ~Whole
        BY <1>1, <3>3, WholeGoesOn DEF MagicFirst, Here
      <4> QED BY <1>1, <2>3, <3>3, <4>1, JudgedInv
    <3>4. CASE num_tlvs > 0 /\ Here.type = "eof" /\ Verdict("passed")
      <4>1. PICK n \in 2..Len(image) : n = num_tlvs + 1 /\ n <= MAX_TLVS /\ n - 1 = num_tlvs
        BY <1>2, <1>3, <1>5, <3>2, <3>4
      <4>2. image[n].type = "eof"
        BY <3>4, <4>1 DEF Here
      <4>3. StartAfter(image, n - 1) + HeaderSize <= length
        BY <1>3, <3>1, <4>1 DEF HeaderSize
      <4>4. \A i \in 1..(n - 1) : image[i].type # "eof"
        BY <1>3, <4>1
      <4>5. MagicFirst
        BY <1>3, <3>4
      <4>6. Whole
        BY <4>1, <4>2, <4>3, <4>4, <4>5 DEF Whole, MagicFirst
      <4> QED BY <1>1, <2>3, <3>4, <4>6, JudgedInv
    <3>5. CASE /\ IF num_tlvs = 0 THEN Here.type = "magic" ELSE Here.type # "eof"
               /\ Passes(HeaderSize, Here.len)
      <4>1. num_tlvs + 1 \in 1..Len(image) /\ num_tlvs \in 0..(Len(image) - 1)
        BY <1>2, <3>2
      <4>2. Here.len \in Nat /\ HeaderSize \in Nat
        BY <1>2, <4>1, ImageType DEF Here, HeaderSize
      <4>3. offset + HeaderSize + Here.len = StartAfter(image, num_tlvs + 1)
        BY <1>2, <1>3, <4>1, Starts DEF Here
      <4>4. num_tlvs < MAX_TLVS /\ offset + HeaderSize <= length
        BY <1>2, <1>3, <1>5, <3>1 DEF HeaderSize
      <4>5. /\ image[num_tlvs + 1].type # "eof"
            /\ num_tlvs = 0 => image[1].type = "magic"
            /\ num_tlvs = 0 /\ Here.len = 0 => MagicFirst
            /\ Here.len = image[num_tlvs + 1].len
        <5>1. CASE num_tlvs = 0
          BY <3>5, <5>1 DEF Here, MagicFirst
        <5>2. CASE num_tlvs # 0
          BY <3>5, <5>2 DEF Here
        <5> QED BY <5>1, <5>2
      <4> HIDE DEF HeaderSize
      <4> QED BY <1>1, <2>3, <3>2, <3>5, <4>2, <4>3, <4>4, <4>5, PassesInv
    <3> QED BY <2>2, <2>5, <1>1, <3>3, <3>4, <3>5, <1>5 DEF ReadHeader, HeaderSize
  <2> QED BY <1>5, <2>2, <2>4, <2>5 DEF ReadHeader
<1> QED BY <1>4, <1>5 DEF ReadHeader

LEMMA ValueInv == ASSUME BlobInv, ReadValue PROVE BlobInv'
<1>1. /\ verdict = "none" /\ remaining > 0 /\ UNCHANGED <<image, length>>
      /\ robuf' = ReadFile(offset, remaining)
      /\ BlobType /\ WalkProgress
  BY DEF BlobInv, ReadValue
<1>2. /\ num_tlvs \in Nat /\ Len(image) \in Nat /\ remaining \in Nat
      /\ offset \in Nat /\ MAX_TLVS \in Nat /\ length \in Nat
  <2>1. /\ image \in Images /\ num_tlvs \in 0..Len(image) /\ Len(image) \in Nat
        /\ offset \in Nat /\ MAX_TLVS \in Nat /\ remaining \in Nat
        /\ length \in 0..StartAfter(image, Len(image))
    BY <1>1, ImageType, BlobAssumption DEF BlobType
  <2>2. StartAfter(image, Len(image)) \in Nat
    BY <2>1, StartsNat
  <2> QED BY <2>1, <2>2
<1>3. /\ offset <= length /\ num_tlvs + 1 <= Len(image) /\ num_tlvs + 1 <= MAX_TLVS
      /\ image[num_tlvs + 1].type # "eof"
      /\ num_tlvs = 0 => image[1].type = "magic"
      /\ remaining = image[num_tlvs + 1].len \/ offset = length
  BY <1>1, <1>2 DEF WalkProgress
<1>4. offset + remaining = StartAfter(image, num_tlvs + 1)
  BY <1>1 DEF WalkProgress
<1> DEFINE got == ReadFile(offset, remaining).len
<1>5. /\ got \in Nat /\ got <= remaining
      /\ got > 0 => /\ robuf'.at = offset /\ offset + got <= length /\ offset < length
      /\ got = remaining \/ offset + got = length
  BY <1>1, <1>2, <1>3, Reads
<1>6. robuf'.len = got
  BY <1>1
<1> HIDE DEF got
<1>7. ReadInImage'
  BY <1>1, <1>5, <1>6 DEF ReadInImage
<1>8. CASE /\ got = 0 \/ (num_tlvs = 0 /\ (got < 4 \/ ~Here.magic))
           /\ Verdict("failed")
  <2>1. ASSUME Whole PROVE FALSE
    <3>1. offset + remaining + 4 <= length /\ MagicFirst
      BY <1>1, <2>1, WholeGoesOn DEF HeaderSize
    <3>2. got = remaining /\ remaining = image[num_tlvs + 1].len
      BY <1>1, <1>2, <1>3, <1>5, <3>1
    <3>3. num_tlvs = 0
      BY <1>1, <1>2, <1>8, <3>2
    <3>4. image[1].len = remaining /\ Here = image[1]
      BY <3>2, <3>3 DEF Here
    <3>5. remaining >= 4 /\ Here.magic
      BY <1>1, <1>2, <3>1, <3>4 DEF MagicFirst
    <3> QED BY <1>1, <1>2, <1>8, <3>2, <3>5
  <2> QED BY <1>1, <1>7, <1>8, <2>1, JudgedInv
<1>9. CASE /\ ~(got = 0 \/ (num_tlvs = 0 /\ (got < 4 \/ ~Here.magic)))
           /\ Passes(got, remaining - got)
  <2>1. PICK left \in Nat : left = remaining - got
    BY <1>2, <1>5
  <2>2. got > 0 /\ offset + got <= length /\ offset < length
    BY <1>5, <1>9
  <2>3. remaining = image[num_tlvs + 1].len
    BY <1>2, <1>3, <2>2
  <2>4. num_tlvs < Len(image) /\ num_tlvs < MAX_TLVS
    BY <1>2, <1>3
  <2>5. offset + got + left = StartAfter(image, num_tlvs + 1)
    <3>1. offset + got + left = offset + remaining
      BY <1>2, <1>5, <2>1
    <3> QED BY <1>4, <3>1
  <2>6. num_tlvs = 0 /\ left = 0 => MagicFirst
    <3>1. ASSUME num_tlvs = 0, left = 0 PROVE MagicFirst
      <4>1. got = remaining /\ got >= 4 /\ Here.magic /\ Here = image[1]
        <5>1. got = remaining
          BY <1>2, <1>5, <2>1, <3>1
        <5>2. ~(got < 4) /\ Here.magic
          BY <1>9, <3>1
        <5>3. Here = image[1]
          BY <3>1 DEF Here
        <5> QED BY <1>5, <5>1, <5>2, <5>3
      <4>2. image[1].len >= 4 /\ image[1].type = "magic"
        <5>1. num_tlvs + 1 = 1
          BY <3>1
        <5> QED BY <1>3, <2>3, <3>1, <4>1, <5>1
      <4> QED BY <4>1, <4>2 DEF MagicFirst
    <3> QED BY <3>1
  <2>7. left > 0 => left = image[num_tlvs + 1].len \/ offset + got = length
    <3>1. CASE got = remaining
      <4>1. left = 0
        BY <1>2, <2>1, <3>1
      <4> QED BY <4>1
    <3>2. CASE offset + got = length
      BY <3>2
    <3> QED BY <1>5, <3>1, <3>2
  <2>8. Passes(got, left)
    BY <1>9, <2>1
  <2> QED BY <1>1, <1>3, <1>5, <1>7, <2>1, <2>2, <2>4, <2>5, <2>6, <2>7, <2>8, PassesInv
<1> QED BY <1>6, <1>8, <1>9 DEF ReadValue

LEMMA BlobInvStep == BlobInv /\ [BlobNext]_blobVars => BlobInv'
<1> SUFFICES ASSUME BlobInv, [BlobNext]_blobVars PROVE BlobInv'
  OBVIOUS
<1>1. CASE LibraryReads
  <2>1. /\ verdict # "none"
        /\ UNCHANGED <<image, length, offset, num_tlvs, remaining, verdict>>
    BY <1>1 DEF LibraryReads
  <2>2. PICK from \in Asked, n \in Asked : robuf' = ReadFile(from, n)
    BY <1>1 DEF LibraryReads
  <2>3. from \in Nat /\ n \in Nat
    BY BlobAssumption
  <2>4. BlobType' /\ WalkProgress' /\ Judged'
    BY <2>1 DEF BlobInv, BlobType, WalkProgress, Judged, Whole
  <2>5. ReadInImage'
    BY <2>1, <2>2, <2>3, Reads DEF BlobInv, ReadInImage
  <2> QED BY <2>4, <2>5 DEF BlobInv
<1>2. CASE UNCHANGED blobVars
  BY <1>2 DEF blobVars, BlobInv, BlobType, ReadInImage, WalkProgress, MagicFirst, Judged, Whole
<1> QED BY <1>1, <1>2, HeaderInv, ValueInv DEF BlobNext

(* Wherever a firmware or BCF image is cut off and whatever its fields     *)
(* are, execute_fw_bcf_test passes it if and only if it is whole; and no   *)
(* reader hands out a byte that is not of the image.                       *)
THEOREM ImagesAlwaysJudgedRight == BlobSpec => []ImagesJudgedRight
<1>1. BlobInv => ImagesJudgedRight
  BY DEF BlobInv, Judged, ReadInImage, ImagesJudgedRight
<1> QED BY <1>1, BlobInvInit, BlobInvStep, PTL DEF BlobSpec
=============================================================================
