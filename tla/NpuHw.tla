------------------------------- MODULE NpuHw --------------------------------
(***************************************************************************)
(* The NPU and its MMU as far as the driver sees them: registers it reads  *)
(* and writes, the task or chain that is executing, and the state a reset  *)
(* or a power gate takes away.  The hardware is not in the repository: it  *)
(* is modelled from how rocket_job.c and rocket_core.c drive it.           *)
(***************************************************************************)
EXTENDS RocketBase

VARIABLES
  hw,          \* the job the PC unit is executing, or None
  hwTask,      \* number of the task it executes (1 .. TaskCount)
  raw,         \* INTERRUPT_RAW_STATUS
  mask,        \* INTERRUPT_MASK
  executer,    \* bit 16 of the CNA's S_POINTER: bank the executer waits on
  hwLut,       \* contents of the DPU lookup-table SRAM
  mmu,         \* domain whose DTE the MMU walks, None when it is disarmed
  autoGating,  \* bit 31 of the MMU's AUTO_GATING register
  ran,         \* history: [Jobs -> tasks completed, in order, from the first]
  starts       \* history: [Jobs -> number of OPERATION_ENABLE starts]

hwVars == <<hw, hwTask, raw, mask, executer, hwLut, mmu, autoGating, ran, starts>>

(***************************************************************************)
(* Interrupt bits, as the handlers tell them apart:                        *)
(*   done   the bits of rocket_job.last_int_mask (DPU done of a legacy     *)
(*          task): raised when the last task has drained                   *)
(*   wake   the other bits of 0x300 | 0xc00 | 0x10000: they wake the       *)
(*          thread but complete nothing (PPU/DPU bits inside a chain)      *)
(*   unit   all the remaining ones (CNA, CORE, ...)                        *)
(***************************************************************************)
Bits     == {"done", "wake", "unit"}
WakeBits == {"done", "wake"}

ChainMask == IF OpenMask THEN Bits ELSE {"done"}

Line == raw \cap mask # {}

HwTypeOK ==
  /\ hw \in Jobs \cup {None}
  /\ hwTask \in Nat
  /\ raw \subseteq Bits
  /\ mask \subseteq Bits
  /\ executer \in {0, 1}
  /\ autoGating \in BOOLEAN
  /\ ran \in [Jobs -> Nat]
  /\ starts \in [Jobs -> Nat]

HwInit ==
  /\ hw = None
  /\ hwTask = 0
  /\ raw = {}
  /\ mask = {}
  /\ executer = 0
  /\ hwLut = None
  /\ mmu = None
  /\ autoGating = FALSE
  /\ ran = [j \in Jobs |-> 0]
  /\ starts = [j \in Jobs |-> 0]

-----------------------------------------------------------------------------
(* The driver writes OPERATION_ENABLE with the unit set up for task n of j. *)
Start(j, n, m) ==
  /\ hw' = j
  /\ hwTask' = n
  /\ raw' = {}
  /\ mask' = m
  /\ starts' = [starts EXCEPT ![j] = @ + 1]

(* Everything a reset or a power gate stops, except the MMU's DTE.         *)
Wipe ==
  /\ hw' = None
  /\ hwTask' = 0
  /\ raw' = {}
  /\ mask' = {}
  /\ executer' = 0
  /\ hwLut' = None
  /\ autoGating' = FALSE
  /\ UNCHANGED <<ran, starts>>

-----------------------------------------------------------------------------
(***************************************************************************)
(* A task ends.  Inside a chain the PC configures the next task by itself; *)
(* the end of a chain, and of every legacy task, raises the done bits and  *)
(* leaves the unit idle.  A legacy task leaves the executer on the other   *)
(* bank, where the next single-task submit would wait for ever; a chain    *)
(* leaves it on either bank.                                               *)
(***************************************************************************)
TaskEnds ==
  /\ hw # None
  /\ Chained(hw) \/ executer = 0
  /\ ran' = [ran EXCEPT ![hw] = IF hwTask = @ + 1 THEN hwTask ELSE @]
  /\ IF Chained(hw) /\ hwTask < TaskCount[hw]
       THEN /\ hwTask' = hwTask + 1
            /\ UNCHANGED <<hw, raw, executer>>
       ELSE /\ hw' = None
            /\ hwTask' = 0
            /\ raw' = raw \cup {"done"}
            /\ executer' \in IF Chained(hw) THEN {0, 1} ELSE {1}
  /\ UNCHANGED <<mask, hwLut, mmu, autoGating, starts>>

(* Units report progress while a task runs; the wake bits only in a chain. *)
UnitReports(b) ==
  /\ hw # None
  /\ b \notin raw
  /\ b = "unit" \/ (b = "wake" /\ Chained(hw))
  /\ raw' = raw \cup {b}
  /\ UNCHANGED <<hw, hwTask, mask, executer, hwLut, mmu, autoGating, ran, starts>>

Hardware == TaskEnds \/ \E b \in Bits : UnitReports(b)
=============================================================================
