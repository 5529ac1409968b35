----------------------------- MODULE PortingTests -----------------------------
(***************************************************************************)
(* The porting assistant: its list of test steps, run in order until one   *)
(* fails, on a board that may be wired wrongly and a bus that may fail any *)
(* access.  Each step is given by what it does to the state that outlives  *)
(* it and by the results it can come to; the accesses to the chip are      *)
(* those of SdioSpi, here as ones that succeed or do not.                  *)
(***************************************************************************)
EXTENDS Naturals, Sequences

CONSTANTS
  Boards,     (* how the BUSY line is wired: good, stuck, noIrq (no        *)
              (* interrupts), storm (too many), deaf (cannot be disabled)  *)
  Chips       (* mm6108, mm8108 or another                                 *)

ASSUME BoardAssumption == Boards \subseteq {"good", "stuck", "noIrq", "storm", "deaf"}

VARIABLES
  board, chip,(* the hardware                                              *)
  step,       (* ii                                                        *)
  at,         (* pc within a step                                          *)
  ctrs,       (* struct test_counters; history: the steps that passed, and *)
              (* those of them in which no access failed                   *)
  task_handle,(* the new task has been created                             *)
  task_state,
  probed,     (* probed_chip_cfg is set                                    *)
  tries,      (* of the step at hand: reads of the chip id, toggles        *)
  busy,       (* the handler is registered, the interrupt enabled          *)
  irq_counter,
  pins,       (* the outputs of the chip that are high                     *)
  chipData,   (* which pattern the chip's memory holds                     *)
  rxData,     (* and which the last read left in rx_data                   *)
  pattern,    (* the pattern last sent                                     *)
  failed      (* history: accesses of this step failed                     *)

stepVars == <<board, chip, step, at, ctrs, task_handle, task_state, probed, tries, busy,
              irq_counter, pins, chipData, rxData, pattern, failed>>

test_steps == <<"malloc", "realloc", "time", "task", "init", "reset", "startup",
                "chip_id", "busy", "bulk", "tput", "fw", "bcf">>

NoPattern == 4      (* patterns: offset & 15, in words, 0 to 3            *)

StepsInit ==
  /\ board \in Boards /\ chip \in Chips
  /\ step = 1 /\ at = "begin"
  /\ ctrs = [no_result |-> 0, pass |-> 0, fail |-> 0,
             passed |-> {}, clean |-> {}]
  /\ task_handle = FALSE /\ task_state = "NOT_STARTED" /\ probed = FALSE /\ tries = 0
  /\ busy = [handler |-> FALSE, enabled |-> FALSE] /\ irq_counter = 0
  /\ pins = {"other"}
  /\ chipData = NoPattern /\ rxData = NoPattern /\ pattern = 0 /\ failed = FALSE

At(name, label) == step <= Len(test_steps) /\ test_steps[step] = name /\ at = label

(***************************************************************************)
(* run_test_steps: the result of a step is counted, and only TEST_FAILED   *)
(* ends the run.                                                           *)
(***************************************************************************)
Stops(result) == result = "FAILED"

Finish(result) ==
  /\ step' = IF Stops(result) THEN Len(test_steps) + 1 ELSE step + 1
  /\ at' = "begin" /\ tries' = 0
  /\ ctrs' = IF result = "NO_RESULT" THEN [ctrs EXCEPT !.no_result = @ + 1]
             ELSE IF result = "PASSED"
               THEN [ctrs EXCEPT !.pass = @ + 1, !.passed = @ \union {test_steps[step]},
                       !.clean = IF failed THEN @ ELSE @ \union {test_steps[step]}]
               ELSE [ctrs EXCEPT !.fail = @ + 1]

Chip == <<probed, busy, irq_counter, pins, chipData, rxData, pattern, failed>>

Simple(name, results) ==
  /\ At(name, "begin") /\ \E r \in results : Finish(r)
  /\ UNCHANGED <<board, chip, task_handle, task_state, Chip>>

OsMalloc == Simple("malloc", {"PASSED", "FAILED"})
OsRealloc == Simple("realloc", {"PASSED", "FAILED_NON_CRITICAL"})
OsTime == Simple("time", {"PASSED", "FAILED"})
WlanInitStep == Simple("init", {"NO_RESULT"})
HardResetStep == Simple("reset", {"NO_RESULT"})
SdioStartupStep == Simple("startup", {"PASSED", "FAILED"})
ValidateFw == Simple("fw", {"PASSED", "FAILED_NON_CRITICAL"})
ValidateBcf == Simple("bcf", {"PASSED", "FAILED_NON_CRITICAL"})

(***************************************************************************)
(* os_task_creation: the new task should run as soon as it is created, up  *)
(* to its sleep, and be at its end when the test looks again.              *)
(***************************************************************************)
TaskCreate ==
  /\ At("task", "begin")
  /\ \/ at' = "created" /\ task_handle' = TRUE /\ UNCHANGED <<step, tries, ctrs>>
     \/ Finish("FAILED_NON_CRITICAL") /\ UNCHANGED task_handle
  /\ UNCHANGED <<board, chip, task_state, Chip>>

NewTaskMain ==
  /\ task_handle /\ UNCHANGED task_handle
  /\ \/ task_state = "NOT_STARTED" /\ task_state' = "STARTED"
     \/ task_state = "STARTED" /\ task_state' \in {"TERMINATING", "ERROR_GET_ACTIVE_INVALID"}
  /\ UNCHANGED <<board, chip, step, at, ctrs, tries, Chip>>

TaskCreation ==
  /\ \/ /\ At("task", "created")
        /\ IF task_state = "STARTED" THEN at' = "slept" /\ UNCHANGED <<step, tries, ctrs>>
           ELSE Finish("FAILED_NON_CRITICAL")
     \/ /\ At("task", "slept")
        /\ Finish(IF task_state = "TERMINATING" THEN "PASSED" ELSE "FAILED_NON_CRITICAL")
  /\ UNCHANGED <<board, chip, task_handle, task_state, Chip>>

(***************************************************************************)
(* read_chip_id: the register of each known chip is read, three times at   *)
(* most; a register that cannot be read ends the step, a value that is not *)
(* one of that chip's goes on to the next.  tries counts all reads.        *)
(***************************************************************************)
CfgAt == tries \div 3 + 1
chip_cfgs == <<"mm6108", "mm8108">>

(* Mutant: a chip that is not known is no critical failure.                *)
UnknownChipNonCritical == "FAILED_NON_CRITICAL"
UnknownChip == "FAILED"

ReadChipId ==
  /\ At("chip_id", "begin")
  /\ \/ /\ IF tries % 3 = 2 THEN Finish("FAILED")                (* an error *)
           ELSE tries' = tries + 1 /\ UNCHANGED <<step, at, ctrs>>
        /\ UNCHANGED probed
     \/ /\ chip = chip_cfgs[CfgAt] /\ Finish("PASSED") /\ probed' = TRUE
     \/ /\ chip # chip_cfgs[CfgAt] /\ UNCHANGED probed
        /\ IF CfgAt = Len(chip_cfgs) THEN Finish(UnknownChip)
           ELSE tries' = 3 /\ UNCHANGED <<step, at, ctrs>>
  /\ UNCHANGED <<board, chip, task_handle, task_state, busy, irq_counter, pins, chipData, rxData, pattern, failed>>

(***************************************************************************)
(* verify_busy_pin: the chip's BUSY output is toggled twice with the       *)
(* interrupt enabled and twice with it disabled.  Whether an output could  *)
(* be set is not looked at.                                                *)
(***************************************************************************)
UpdateLe32(reg, all, mask, value) == (reg \union (value \intersect mask)) \intersect (value \union (all \ mask))

GpioSetValue(high) ==
  IF chip = "mm6108"
    THEN UpdateLe32(pins, {"busy", "other"}, {"busy"}, IF high THEN {"busy"} ELSE {})
    ELSE IF high THEN pins \union {"busy"} ELSE pins \ {"busy"}

BusyIsAsserted(p) == board # "stuck" /\ "busy" \in p

(* What one pulse raises.  A storm is two interrupts for each: boards      *)
(* whose surplus comes to a multiple of 256, where the count of uint8_t    *)
(* would be 2 again, are left out.                                         *)
Interrupts ==
  IF board = "noIrq" THEN 0
  ELSE IF board = "storm" THEN 2
  ELSE IF busy.enabled \/ board = "deaf" THEN 1 ELSE 0

Counted == (irq_counter + Interrupts) % 256

(* However the step ends, the interrupt is disabled and forgotten.         *)
BusyExit == [handler |-> FALSE, enabled |-> FALSE]

BusyEnds(result) ==
  /\ Finish(result) /\ busy' = BusyExit /\ irq_counter' = 0
  /\ UNCHANGED failed

BusyArmStep ==
  /\ At("busy", "begin") /\ at' = "toggle"
  /\ busy' = [handler |-> TRUE, enabled |-> TRUE] /\ irq_counter' = 0
  /\ pins' = GpioSetValue(FALSE) /\ failed' = FALSE
  /\ UNCHANGED <<board, chip, step, ctrs, task_handle, task_state, probed, tries,
                 chipData, rxData, pattern>>

BusyToggle ==
  /\ At("busy", "toggle")
  /\ \/ /\ tries < 2 /\ BusyIsAsserted(GpioSetValue(TRUE))
        /\ tries' = tries + 1 /\ irq_counter' = Counted
        /\ UNCHANGED <<step, at, ctrs, busy, pins, failed>>
     \/ /\ tries < 2        (* the line did not follow, or was not set    *)
        /\ BusyEnds("FAILED") /\ pins' \in {pins, GpioSetValue(TRUE)}
     \/ tries = 2 /\ irq_counter # 2 /\ BusyEnds("FAILED") /\ UNCHANGED pins
     \/ /\ tries = 2 /\ irq_counter = 2
        /\ at' = "quiet" /\ busy' = [busy EXCEPT !.enabled = FALSE]
        /\ UNCHANGED <<step, ctrs, tries, irq_counter, pins, failed>>
  /\ UNCHANGED <<board, chip, task_handle, task_state, probed, chipData, rxData, pattern>>

BusyQuiet ==
  /\ At("busy", "quiet")
  /\ \/ /\ tries < 4 /\ tries' = tries + 1
        /\ \/ /\ "busy" \notin pins /\ irq_counter' = Counted
              /\ pins' = GpioSetValue(FALSE) /\ UNCHANGED failed
           \/ /\ failed' = TRUE        (* an output could not be set      *)
              /\ irq_counter' \in {irq_counter, Counted}
              /\ pins' \in {pins, GpioSetValue(TRUE), GpioSetValue(FALSE)}
        /\ UNCHANGED <<step, at, ctrs, busy>>
     \/ /\ tries = 4 /\ BusyEnds(IF irq_counter > 2 THEN "FAILED" ELSE "PASSED")
        /\ UNCHANGED pins
  /\ UNCHANGED <<board, chip, task_handle, task_state, probed, chipData, rxData, pattern>>

(***************************************************************************)
(* bulk_write_read and raw_tput: a pattern is written to the chip and read *)
(* back, once, or with ever another offset until the time is up; what was  *)
(* read last is compared with what was written last.  A write that fails   *)
(* leaves the memory as it was or half written; a read that fails leaves   *)
(* rx_data so, and at first that is what the heap last held there.         *)
(***************************************************************************)
(* process_sdio_spi_multi_byte_return returns TEST_FAILED, which is 3, as  *)
(* a bool: its callers see true for every code.                            *)
ProcessReturn(ret) == TRUE

Patterned == {"bulk", "tput"}
In(label) == \E n \in Patterned : At(n, label)
OnlyData == UNCHANGED <<board, chip, task_handle, task_state, probed, busy, irq_counter, pins>>

BuffersAlloc ==
  /\ In("begin")
  /\ \/ at' = "write" /\ UNCHANGED <<step, tries, ctrs>>
     \/ Finish("FAILED")
  /\ pattern' = 0 /\ failed' = FALSE
  /\ rxData' \in {rxData, NoPattern} /\ UNCHANGED chipData /\ OnlyData

Goes(ret, next) ==
  IF ProcessReturn(ret) THEN at' = next /\ UNCHANGED <<step, tries, ctrs>>
                        ELSE Finish("FAILED")

WriteMultiByte ==
  /\ In("write")
  /\ pattern' = IF test_steps[step] = "tput" THEN (pattern + 1) % 4 ELSE pattern
  /\ \/ chipData' = pattern' /\ Goes("ok", "read") /\ UNCHANGED failed
     \/ chipData' \in {chipData, NoPattern} /\ Goes("error", "read") /\ failed' = TRUE
  /\ UNCHANGED rxData /\ OnlyData

ReadMultiByte ==
  /\ In("read")
  /\ \/ rxData' = chipData /\ Goes("ok", "compare") /\ UNCHANGED failed
     \/ /\ rxData' \in {rxData, NoPattern}
        /\ \E ret \in {"ok", "error"} :
             Goes(ret, "compare") /\ failed' = (failed \/ ret = "error")
  /\ UNCHANGED <<chipData, pattern>> /\ OnlyData

(* The time of raw_tput is not up.                                         *)
Again ==
  /\ At("tput", "compare") /\ at' = "write"
  /\ UNCHANGED <<step, tries, ctrs, chipData, rxData, pattern, failed>> /\ OnlyData

ValidBuffer ==
  /\ In("compare")
  /\ Finish(IF rxData = pattern THEN "PASSED" ELSE "FAILED")
  /\ UNCHANGED <<chipData, rxData, pattern, failed>> /\ OnlyData

StepsNext ==
  \/ OsMalloc \/ OsRealloc \/ OsTime \/ TaskCreate \/ NewTaskMain \/ TaskCreation
  \/ WlanInitStep \/ HardResetStep \/ SdioStartupStep \/ ReadChipId
  \/ BusyArmStep \/ BusyToggle \/ BusyQuiet
  \/ BuffersAlloc \/ WriteMultiByte \/ ReadMultiByte \/ Again \/ ValidBuffer
  \/ ValidateFw \/ ValidateBcf

StepsSpec == StepsInit /\ [][StepsNext]_stepVars

(***************************************************************************)
(* What a step relies on holds whatever earlier steps came to, and what it *)
(* concludes is so.  The busy step and those after it know the chip they   *)
(* talk to.  The busy step, when it passes and every output could be set,  *)
(* has seen a healthy line; however it ends it has changed no other output *)
(* and leaves no handler behind.                                           *)
(***************************************************************************)
StepsSound ==
  /\ step > 8 /\ step <= Len(test_steps) => probed
  /\ "busy" \in ctrs.clean => board = "good"
  /\ "other" \in pins
  /\ step # 9 => busy = BusyExit

(* A step that was told of a failed access does not pass: the comment on   *)
(* process_sdio_spi_multi_byte_return promises false for every code but    *)
(* success.                                                                *)
ErrorsFailTheStep == ctrs.passed \intersect Patterned \subseteq ctrs.clean
=============================================================================
