---------------------------- MODULE RocketPcProps ----------------------------
(* What the write-by-write programming of the NPU must get right.          *)
EXTENDS RocketPc

Executing(j) == unit # None /\ unit.job = j

(* The value a field of w bits can carry.                                  *)
Fits(v, w) == v \in 0 .. 2^w - 1

(* Task i of a job, from 0, where userspace has put it.                     *)
Intended(j, i) == UserTasks[Args[j].tasks + i * Args[j].task_struct_size]

Steps(j) == IF Chain(j) THEN Args[j].task_count ELSE 1
Number(u) == IF Chain(u.job) THEN 0 ELSE u.task - 1

(* What the unit takes over is one task, or one whole chain, of the job    *)
(* that is current, whoever writes registers meanwhile: its own command    *)
(* buffer, all of its commands, the number of its tasks, its mask, and for *)
(* a single task the pointers set up since the last reset.  Tasks are      *)
(* found by the element size userspace gave.  A chain of 4096 tasks, a     *)
(* task of more than 65536 units of commands and an array of 4 GiB do not  *)
(* fit, and nothing refuses them (job.c:81-100, 184-306).                  *)
LaunchIsTheJob ==
  unit # None =>
    LET u == unit
        task == Intended(u.job, Number(u))
        commands == DIV_ROUND_UP(task.regcmd_count, Scale) IN
    /\ u.job # None
    /\ Number(u) * Args[u.job].task_struct_size < U32 =>
         /\ u.reg.BASE_ADDRESS = BASE_ADDRESS(task.regcmd)
         /\ Fits(commands - 1, 16) =>
              /\ (u.reg.REGISTER_AMOUNTS.PC_DATA_AMOUNT + 1) * Scale >= task.regcmd_count
              /\ u.reg.REGISTER_AMOUNTS.PC_DATA_AMOUNT * Scale < task.regcmd_count
    /\ Fits(Steps(u.job), 12) => u.reg.TASK_CON.TASK_NUMBER = Steps(u.job)
    /\ IF Chain(u.job)
         THEN OpenMask \/ u.mask \subseteq Job[u.job].last_int_mask
         ELSE u.reg.CNA # None /\ u.reg.CORE # None

(* A chain that brings lookup tables starts with exactly these in the DPU, *)
(* word by word and in both tables, though they are only loaded when the   *)
(* cache says so and a reset wipes them (job.c:204-221, core.c:225).       *)
TablesLoaded ==
  unit # None /\ Chain(unit.job) /\ Args[unit.job].lut_count # 0 =>
    unit.sram = TableWords(Args[unit.job].lut_data)

(* The hard handler closes the mask on whatever it has read, perhaps of an *)
(* earlier job and late.  A chain whose last task's interrupts are closed  *)
(* has the irq thread on its way to open them (job.c:532-537, 739).        *)
MaskReopened ==
  inFlight # None /\ Chain(inFlight) /\ Executing(inFlight) /\ todo = <<>> /\ ~pending
    /\ Job[inFlight].last_int_mask \cap mask = {}
  => thrWake \/ thrPc # "idle"

(* "Legacy stepping only: chained jobs rely on the hardware ping-pong."    *)
(* (job.c:699): the bank of the DPU is not forced under a chain.           *)
LegacySteppingOnly == ~bankUnderChain
=============================================================================
