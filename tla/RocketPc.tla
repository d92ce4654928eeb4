------------------------------ MODULE RocketPc ------------------------------
(***************************************************************************)
(* How a job gets into the registers: rocket_job_hw_submit() write by      *)
(* write, against the hard handler, which takes no lock, the irq thread    *)
(* and the reset after a timeout.  RocketJob takes the whole of            *)
(* rocket_job_hw_submit() for one step and follows fences, PM and domains, *)
(* which are left out here.                                                *)
(***************************************************************************)
EXTENDS NpuRegs, RocketSubmit

CONSTANTS
  Submits,   \* arguments of SUBMIT, of which one is made
  Scale,     \* pc_data_amount_scale of the variant
  Index,     \* core->index
  Reports,   \* the interrupt bits units raise while a task runs
  OpenMask, Walk, PulseKeep, \* rocket_open_mask, rocket_desc_walk, rocket_pc_pulse_keep
  Faults     \* part of {"mmu_irq", "timeout"}

(* pc_data_amount_scale of rk3568_variant and rk3588_variant.              *)
Scales == {1, 2}

ASSUME PcAssumption ==
  /\ Submits \subseteq DrmRocketSubmit
  /\ Scale \in Scales /\ Index \in Nat
  /\ Reports \subseteq CLEAR_ALL
  /\ None \notin {"run", "thread", CNA_S_POINTER(Index), CORE_S_POINTER(Index)}

Chain(j) == Job[j].chain

VARIABLES
  reg,       \* [register -> fields last written]
  raw, mask, \* INTERRUPT_RAW_STATUS and INTERRUPT_MASK
  executer,  \* EXECUTER of the CNA's S_POINTER
  sram,      \* [table -> [address -> word]]
  lutAt,     \* table and address the next LUT_ACCESS_DATA goes to
  unit,      \* what the PC unit took over when it was started, or None
  todo,      \* the writes rocket_job_hw_submit() has still to make
  holder,    \* who holds job_lock: "run", "thread" or None
  runPc, runJob, irqPc, irqRaw, irqBank, thrPc, thrWake, thrSt, tdrPc,
  inFlight,  \* core->in_flight_job
  nextTask,  \* [ValidJobs -> next_task_idx]
  left,      \* jobs of the SUBMIT that are not accepted, or not run, yet, in order
  pending,   \* core->reset.pending
  lutValid, lutCache,
  bankUnderChain  \* history: the hard handler wrote the DPU's S_POINTER under a chain

hwVars  == <<reg, raw, mask, executer, sram, lutAt, unit>>
runVars == <<runPc, runJob, left>>
irqVars == <<irqPc, irqRaw, irqBank, bankUnderChain>>
thrVars == <<thrPc, thrSt>>
jobVars == <<inFlight, nextTask, lutValid, lutCache>>
vars == <<hwVars, todo, holder, runVars, irqVars, thrVars, thrWake, tdrPc, jobVars, pending>>

Tables == 0 .. 1
Blank  == [t \in Tables |-> [a \in 0 .. LutWords - 1 |-> None]]

TableWords(w) == [t \in Tables |-> [a \in 0 .. LutWords - 1 |-> w[t * LutWords + a + 1]]]

Init ==
  /\ reg = [OPERATION_ENABLE |-> OPERATION_ENABLE(0), BASE_ADDRESS |-> BASE_ADDRESS(0),
            REGISTER_AMOUNTS |-> REGISTER_AMOUNTS(0), TASK_CON |-> TASK_CON(0, 0, 0),
            TASK_DMA_BASE_ADDR |-> TASK_DMA_BASE_ADDR(0), CNA |-> None, CORE |-> None,
            DPU |-> DPU_S_POINTER(0)]
  /\ raw = {} /\ mask = {} /\ executer = 0
  /\ sram = Blank /\ lutAt = <<0, 0>>
  /\ unit = None
  /\ todo = <<>> /\ holder = None
  /\ runPc = "idle" /\ runJob = None /\ left \in {JobArray(args) : args \in Submits}
  /\ irqPc = "idle" /\ irqRaw = {} /\ irqBank = FALSE /\ bankUnderChain = FALSE
  /\ thrPc = "idle" /\ thrWake = FALSE /\ thrSt = {}
  /\ tdrPc = "idle"
  /\ inFlight = None
  /\ nextTask = [j \in ValidJobs |-> 0]
  /\ pending = FALSE
  /\ lutValid = FALSE /\ lutCache = None

PcTypeOK ==
  /\ reg.TASK_CON.TASK_NUMBER \in 0 .. 2^12 - 1
  /\ reg.REGISTER_AMOUNTS.PC_DATA_AMOUNT \in 0 .. 2^16 - 1
  /\ raw \cup mask \cup irqRaw \cup thrSt \subseteq CLEAR_ALL
  /\ executer \in 0 .. 1
  /\ DOMAIN sram = Tables /\ \A t \in Tables : DOMAIN sram[t] = 0 .. LutWords - 1
  /\ lutAt \in Tables \X (0 .. 1023)
  /\ holder \in {"run", "thread", None}
  /\ {runJob, inFlight} \subseteq ValidJobs \cup {None}
  /\ nextTask \in [ValidJobs -> Nat]
  /\ \A j \in ValidJobs : nextTask[j] <= Job[j].task_count
  /\ left \in Seq(Jobs)

-----------------------------------------------------------------------------
(* The writes of rocket_job_hw_submit(), as a sequence of register and     *)
(* value, decided on when it is called.                                    *)
W(r, v) == [reg |-> r, val |-> v]

DIV_ROUND_UP(n, d) == (n + d - 1) \div d

Amount(task) == REGISTER_AMOUNTS(DIV_ROUND_UP(task.regcmd_count, Scale) - 1)

SameHalf(j, t, a) == Job[j].lut[a + 1] \* Mutant: both tables get the first half
LutWord(j, t, a) == Job[j].lut[t * LutWords + a + 1]

LoadTable(j, t) ==
  <<W("LUT_ACCESS_CFG", LUT_ACCESS_CFG(t, 0))>>
    \o [i \in 1 .. LutWords |-> W("LUT_ACCESS_DATA", LUT_ACCESS_DATA(LutWord(j, t, i - 1)))]

LutLoad(j) == Job[j].lut # None /\ (~lutValid \/ lutCache # Job[j].lut)

LoadTables(j) ==
  LoadTable(j, 0) \o LoadTable(j, 1) \o <<W("LUT_SETTLED", Job[j].lut)>>

StartChain(j) ==
  <<W("BASE_ADDRESS", BASE_ADDRESS(1)),
    W("BASE_ADDRESS", BASE_ADDRESS(Job[j].tasks[1].regcmd)),
    W("REGISTER_AMOUNTS", Amount(Job[j].tasks[1])),
    W("INTERRUPT_MASK", IF OpenMask THEN CLEAR_ALL ELSE Job[j].last_int_mask),
    W("INTERRUPT_CLEAR", CLEAR_ALL),
    W("TASK_CON", TASK_CON(1, 1, Job[j].task_count)),
    W("TASK_DMA_BASE_ADDR", TASK_DMA_BASE_ADDR(IF Walk THEN Job[j].task_desc_addr ELSE 0)),
    W("OPERATION_ENABLE", OPERATION_ENABLE(1))>>

ChainProgram(j) ==
  (IF LutLoad(j) THEN LoadTables(j) ELSE <<>>)
    \o StartChain(j)
    \o (IF PulseKeep THEN <<>> ELSE <<W("OPERATION_ENABLE", OPERATION_ENABLE(0))>>)

StartTask(task) ==
  <<W("BASE_ADDRESS", BASE_ADDRESS(1)),
    W("CNA", CNA_S_POINTER(Index)), W("CORE", CORE_S_POINTER(Index)),
    W("BASE_ADDRESS", BASE_ADDRESS(task.regcmd)),
    W("REGISTER_AMOUNTS", Amount(task)),
    W("INTERRUPT_MASK", CLEAR_ALL),
    W("INTERRUPT_CLEAR", CLEAR_ALL),
    W("TASK_CON", TASK_CON(1, 1, 1)),
    W("TASK_DMA_BASE_ADDR", TASK_DMA_BASE_ADDR(0)),
    W("OPERATION_ENABLE", OPERATION_ENABLE(1))>>

TaskProgram(j) ==
  (IF executer = 1 THEN <<W("RESET", 0)>> ELSE <<>>) \o StartTask(Job[j].tasks[nextTask[j] + 1])

(* The call: by who holds job_lock; nothing is queued during a reset.      *)
HwSubmit(j) ==
  IF pending THEN UNCHANGED <<todo, nextTask>>
  ELSE /\ todo' = IF Chain(j) THEN ChainProgram(j) ELSE TaskProgram(j)
       /\ nextTask' = [nextTask EXCEPT ![j] = IF Chain(j) THEN 0 ELSE @ + 1]

(* rocket_core_reset(), with the MMU re-armed or not.                      *)
Reset ==
  /\ reg' = [reg EXCEPT !.OPERATION_ENABLE = OPERATION_ENABLE(0), !.CNA = None, !.CORE = None,
                        !.DPU = DPU_S_POINTER(0)]
  /\ raw' = {} /\ mask' = {} /\ executer' = 0
  /\ sram' = Blank /\ unit' = None
  /\ lutValid' = FALSE

(* What the hardware makes of the other writes: the table address counts   *)
(* up by itself, a 1 in OPERATION_ENABLE starts the unit with what is in   *)
(* the registers, clearing works bit by bit.                               *)
Taken ==
  [job |-> inFlight, task |-> IF inFlight = None THEN 0 ELSE nextTask[inFlight],
   reg |-> reg, mask |-> mask, sram |-> sram]

Effect(w) ==
  CASE w.reg = "LUT_ACCESS_CFG" ->
         lutAt' = <<w.val.LUT_TABLE_ID, w.val.LUT_ADDR>> /\ UNCHANGED <<reg, raw, mask, sram, unit>>
    [] w.reg = "LUT_ACCESS_DATA" ->
         /\ sram' = [sram EXCEPT ![lutAt[1]][lutAt[2]] = w.val.LUT_ACCESS_DATA]
         /\ lutAt' = <<lutAt[1], lutAt[2] + 1>>
         /\ UNCHANGED <<reg, raw, mask, unit>>
    [] w.reg = "INTERRUPT_MASK" -> mask' = w.val /\ UNCHANGED <<reg, raw, sram, lutAt, unit>>
    [] w.reg = "INTERRUPT_CLEAR" -> raw' = raw \ w.val /\ UNCHANGED <<reg, mask, sram, lutAt, unit>>
    [] OTHER ->
         /\ reg' = [reg EXCEPT ![w.reg] = w.val]
         /\ unit' = IF w = W("OPERATION_ENABLE", OPERATION_ENABLE(1)) THEN Taken ELSE unit
         /\ UNCHANGED <<raw, mask, sram, lutAt>>

(* One write of rocket_job_hw_submit().                                    *)
Write ==
  /\ todo # <<>>
  /\ todo' = Tail(todo)
  /\ LET w == Head(todo) IN
       \/ /\ w.reg = "RESET"
          /\ Reset
          /\ UNCHANGED <<lutAt, lutCache>>
       \/ /\ w.reg = "LUT_SETTLED"
          /\ lutValid' = TRUE /\ lutCache' = w.val
          /\ UNCHANGED hwVars
       \/ /\ w.reg \notin {"RESET", "LUT_SETTLED"}
          /\ Effect(w)
          /\ UNCHANGED <<executer, lutValid, lutCache>>
  /\ UNCHANGED <<holder, runVars, irqVars, thrVars, thrWake, tdrPc, inFlight, nextTask, pending>>

-----------------------------------------------------------------------------
(* rocket_ioctl_submit() goes on when a job is refused.                    *)
Refuse ==
  /\ left # <<>> /\ Head(left) \notin ValidJobs
  /\ left' = Tail(left)
  /\ UNCHANGED <<hwVars, todo, holder, runPc, runJob, irqVars, thrVars, thrWake, tdrPc, jobVars,
                 pending>>

(* rocket_job_run() of the next job, whose rocket_job is new: the          *)
(* scheduler has one credit.                                               *)
RunBegin ==
  /\ runPc = "idle" /\ tdrPc = "idle" /\ inFlight = None
  /\ left # <<>> /\ Head(left) \in ValidJobs
  /\ left' = Tail(left)
  /\ runPc' = "submit" /\ runJob' = Head(left)
  /\ nextTask' = [nextTask EXCEPT ![Head(left)] = 0]
  /\ UNCHANGED <<hwVars, todo, holder, irqVars, thrVars, thrWake, tdrPc, inFlight, lutValid,
                 lutCache, pending>>

RunSubmit ==
  /\ runPc = "submit" /\ holder = None
  /\ holder' = "run" /\ runPc' = "write"
  /\ inFlight' = runJob
  /\ HwSubmit(runJob)
  /\ UNCHANGED <<hwVars, runJob, left, irqVars, thrVars, thrWake, tdrPc, lutValid, lutCache, pending>>

RunReturn ==
  /\ runPc = "write" /\ todo = <<>>
  /\ holder' = None /\ runPc' = "idle" /\ runJob' = None
  /\ UNCHANGED <<hwVars, todo, left, irqVars, thrVars, thrWake, tdrPc, jobVars, pending>>

-----------------------------------------------------------------------------
(* rocket_job_irq_handler(), without a lock: it reads the raw status, then *)
(* in_flight_job and its task_desc_addr, then selects bank 0 of the DPU    *)
(* unless that was a chain, then acts on what it read at first.            *)
Line == raw \cap mask # {}
InUse == runPc # "idle" \/ inFlight # None

IrqEnter ==
  /\ irqPc = "idle" /\ InUse
  /\ Line \/ "mmu_irq" \in Faults
  /\ raw # {}
  /\ irqRaw' = raw /\ irqPc' = "look"
  /\ UNCHANGED <<hwVars, todo, holder, runVars, irqBank, bankUnderChain, thrVars, thrWake, tdrPc,
                 jobVars, pending>>

IrqLook ==
  /\ irqPc = "look"
  /\ irqBank' = ~(inFlight # None /\ Chain(inFlight))
  /\ irqPc' = "bank"
  /\ UNCHANGED <<hwVars, todo, holder, runVars, irqRaw, bankUnderChain, thrVars, thrWake, tdrPc,
                 jobVars, pending>>

IrqBank ==
  /\ irqPc = "bank"
  /\ irqPc' = "act"
  /\ reg' = IF irqBank THEN [reg EXCEPT !.DPU = DPU_S_POINTER(0)] ELSE reg
  /\ bankUnderChain' = (bankUnderChain \/ (irqBank /\ unit # None /\ Chain(unit.job)))
  /\ UNCHANGED <<raw, mask, executer, sram, lutAt, unit, todo, holder, runVars, irqRaw, irqBank,
                 thrVars, thrWake, tdrPc, jobVars, pending>>

WakeBits == RAW_STATUS_DPU \cup RAW_STATUS_PPU \cup {16}

IrqAct ==
  /\ irqPc = "act"
  /\ IF irqRaw \cap WakeBits = {}
       THEN raw' = raw \ irqRaw /\ UNCHANGED <<mask, thrWake>>
       ELSE mask' = {} /\ thrWake' = TRUE /\ UNCHANGED raw
  /\ irqPc' = "idle" /\ irqRaw' = {} /\ irqBank' = FALSE
  /\ UNCHANGED <<reg, executer, sram, lutAt, unit, todo, holder, runVars, bankUnderChain, thrVars,
                 tdrPc, jobVars, pending>>

-----------------------------------------------------------------------------
ThrGo(from, to) == thrPc = from /\ thrPc' = to

(* rocket_job_handle_irq(), once per wake-up.  The lock is taken: a chain  *)
(* is current, and keeps it, or it is dropped again.                       *)
ThrCheck ==
  /\ thrPc = "idle" /\ thrWake /\ holder = None
  /\ thrWake' = FALSE
  /\ IF inFlight # None /\ Chain(inFlight)
       THEN thrPc' = "clear" /\ thrSt' = raw /\ holder' = "thread"
       ELSE thrPc' = "stop" /\ UNCHANGED <<thrSt, holder>>
  /\ UNCHANGED <<hwVars, todo, runVars, irqVars, tdrPc, jobVars, pending>>

ThrClear ==
  /\ thrPc = "clear"
  /\ raw' = raw \ thrSt
  /\ thrPc' = IF thrSt \cap Job[inFlight].last_int_mask = {} THEN "reopen" ELSE "disable"
  /\ UNCHANGED <<reg, mask, executer, sram, lutAt, unit, todo, holder, runVars, irqVars, thrSt,
                 thrWake, tdrPc, jobVars, pending>>

NoReopen(j) == mask \* Mutant: the mask stays closed
Reopened(j) == IF OpenMask THEN CLEAR_ALL ELSE Job[j].last_int_mask

ThrReopen ==
  /\ ThrGo("reopen", "idle")
  /\ mask' = Reopened(inFlight)
  /\ holder' = None /\ thrSt' = {}
  /\ UNCHANGED <<reg, raw, executer, sram, lutAt, unit, todo, runVars, irqVars, thrWake, tdrPc,
                 jobVars, pending>>

Disable == reg' = [reg EXCEPT !.OPERATION_ENABLE = OPERATION_ENABLE(0)]

ThrDisable ==
  /\ ThrGo("disable", "complete")
  /\ Disable
  /\ UNCHANGED <<raw, mask, executer, sram, lutAt, unit, todo, holder, runVars, irqVars, thrSt,
                 thrWake, tdrPc, jobVars, pending>>

(* The fence is signalled and the job is current no more.                  *)
ThrComplete ==
  /\ ThrGo("complete", "idle")
  /\ inFlight' = None
  /\ holder' = None /\ thrSt' = {}
  /\ UNCHANGED <<hwVars, todo, runVars, irqVars, thrWake, tdrPc, nextTask, lutValid, lutCache, pending>>

(* Otherwise: the unit is stopped and every bit cleared, without the lock. *)
ThrStop ==
  /\ ThrGo("stop", "clearall")
  /\ Disable
  /\ UNCHANGED <<raw, mask, executer, sram, lutAt, unit, todo, holder, runVars, irqVars, thrSt,
                 thrWake, tdrPc, jobVars, pending>>

ThrClearAll ==
  /\ ThrGo("clearall", "step")
  /\ raw' = {}
  /\ UNCHANGED <<reg, mask, executer, sram, lutAt, unit, todo, holder, runVars, irqVars, thrSt,
                 thrWake, tdrPc, jobVars, pending>>

(* The lock again: the next task of whatever job is current, or its end.   *)
ThrStep ==
  /\ thrPc = "step" /\ holder = None
  /\ \/ /\ inFlight = None
        /\ thrPc' = "idle"
        /\ UNCHANGED <<holder, todo, nextTask>>
     \/ /\ inFlight # None /\ nextTask[inFlight] < Job[inFlight].task_count
        /\ HwSubmit(inFlight)
        /\ holder' = "thread" /\ thrPc' = "write"
     \/ /\ inFlight # None /\ nextTask[inFlight] = Job[inFlight].task_count
        /\ holder' = "thread" /\ thrPc' = "complete"
        /\ UNCHANGED <<todo, nextTask>>
  /\ UNCHANGED <<hwVars, runVars, irqVars, thrSt, thrWake, tdrPc, inFlight, lutValid, lutCache, pending>>

ThrReturn ==
  /\ ThrGo("write", "idle") /\ todo = <<>>
  /\ holder' = None
  /\ UNCHANGED <<hwVars, todo, runVars, irqVars, thrSt, thrWake, tdrPc, jobVars, pending>>

-----------------------------------------------------------------------------
(* rocket_job_timedout() and rocket_reset(): the run worker is waited for, *)
(* the job is taken away under job_lock, the core is reset without it.     *)
TdrPick ==
  /\ "timeout" \in Faults /\ tdrPc = "idle" /\ inFlight # None
  /\ pending' = TRUE /\ tdrPc' = "clear"
  /\ UNCHANGED <<hwVars, todo, holder, runVars, irqVars, thrVars, thrWake, jobVars>>

TdrClear ==
  /\ tdrPc = "clear" /\ runPc = "idle" /\ holder = None
  /\ inFlight' = None /\ tdrPc' = "reset"
  /\ UNCHANGED <<hwVars, todo, holder, runVars, irqVars, thrVars, thrWake, nextTask, lutValid,
                 lutCache, pending>>

TdrReset ==
  /\ tdrPc = "reset"
  /\ Reset
  /\ pending' = FALSE /\ tdrPc' = "idle"
  /\ UNCHANGED <<lutAt, todo, holder, runVars, irqVars, thrVars, thrWake, inFlight, nextTask, lutCache>>

-----------------------------------------------------------------------------
(* The unit ends what it was started for, or reports progress.             *)
Ends ==
  /\ unit # None
  /\ \E b \in Job[unit.job].last_int_mask : raw' = raw \cup {b}
  /\ executer' \in IF Chain(unit.job) THEN {0, 1} ELSE {1}
  /\ unit' = None
  /\ UNCHANGED <<reg, mask, sram, lutAt, todo, holder, runVars, irqVars, thrVars, thrWake, tdrPc,
                 jobVars, pending>>

UnitReports(b) ==
  /\ unit # None /\ b \in Reports \ (raw \cup Job[unit.job].last_int_mask)
  /\ raw' = raw \cup {b}
  /\ UNCHANGED <<reg, mask, executer, sram, lutAt, unit, todo, holder, runVars, irqVars, thrVars,
                 thrWake, tdrPc, jobVars, pending>>

Run == Refuse \/ RunBegin \/ RunSubmit \/ RunReturn
Irq == IrqEnter \/ IrqLook \/ IrqBank \/ IrqAct
Thread ==
  \/ ThrCheck \/ ThrClear \/ ThrReopen \/ ThrDisable \/ ThrComplete
  \/ ThrStop \/ ThrClearAll \/ ThrStep \/ ThrReturn
Timeout == TdrPick \/ TdrClear \/ TdrReset
Hardware == Ends \/ \E b \in Reports : UnitReports(b)

Next == Write \/ Run \/ Irq \/ Thread \/ Timeout \/ Hardware
Spec == Init /\ [][Next]_vars
=============================================================================
