# Verification of the rocket NPU driver (RK3568)

This directory specifies, model-checks and proves parts of the out-of-tree `rocket`
DRM accel driver in `module/`: how jobs are executed on a core of the NPU, how they get
into its registers, how the objects behind them live and die, and how cores come and go
under the one DRM device. Paths are relative to the root of the repository;
`job.c`, `core.c`, `drv.c`, `gem.c`, `accel.h` abbreviate `module/rocket_*`.

## 1. The system

| Part | State it keeps | Operations | Talks to |
|---|---|---|---|
| Job execution (`job.c:130-661`, `core.c:216`, `drv.c:251-286`) | `in_flight_job`, `reset.pending`, `next_task_idx`, `attached_domain`, LUT cache | run, hard IRQ, IRQ thread, timeout and reset, free, runtime suspend/resume | DRM scheduler (callbacks, fences), PM core (usage count), IOMMU, NPU registers |
| Objects (`gem.c`, `job.c:59-429`, `job.c:805-966`, `drv.c:29-131`) | krefs of domains, jobs and BOs; fences in `dma_resv` | open, postclose, CREATE_BO, PREP_BO, FINI_BO, SUBMIT, GEM_CLOSE | job execution through the scheduler entity |
| Programming (`job.c:59-107`, `job.c:148-309`, `job.c:843-966`, `rocket_registers.h`) | the registers, the LUT SRAM | SUBMIT's arguments to jobs, jobs to register writes, the handlers' writes, core reset | job execution, userspace memory |
| Cores (`drv.c:161-249`, `core.c:30-214`, `device.c`, `job.c:745-803`) | `rdev`, `cores[]`, `num_cores`, supply, interrupt, runtime PM | probe, remove, init, fini, unload | driver core, everything above |
| Mesa delegate (`mesa-patches/`) | none kept in the kernel | splits operations in tasks, builds register commands and descriptor chains | SUBMIT |
| Tools (`tools/`, `capture/`, `tests/`) | files | parse and compare command streams, capture, replay | vendor runtime, the ioctls |

What is hard, and what makes each part correct:

* **Job execution.** Five flows of control meet: the scheduler's run worker, the hard
  interrupt handler, the interrupt thread, the timeout work and runtime PM; beside them
  the scheduler frees jobs and the hardware runs. `job_lock` covers only pieces of each.
  Correct means: a job's fence signals exactly when the hardware has done all of its
  tasks; no job is lost, started twice or overwritten by another; every PM reference is
  given back once; registers are touched only under power; the hardware has the right
  page table, lookup tables, bank and workaround bit whenever it executes.
* **Objects.** A job may outlive the ioctl that pushed it and the file it came from;
  errors leave at a dozen places. Correct means: references count exactly who holds
  them, a running job's buffers stay mapped in the attached domain, the CPU never owns
  a BO the NPU is going to write, and a closed file gives everything back.
* **Programming.** Ten to a thousand register writes make a job; the hard handler, which
  takes no lock, writes registers in between, and field widths, element sizes and 32-bit
  products limit what fits. Correct means: what the hardware takes over when it is started
  is exactly one task, or one chain, of the current job, with its tables, and nobody
  closes its interrupts for good.
* **Cores.** A dozen stages of a probe may fail while files are open and jobs run on other
  cores; removal takes things away in an order of its own. Correct means: the DRM device
  is there as long as there are cores, callbacks find their core whenever they can be
  called, nobody works with a core that is half there, supplies balance.
* **Mesa and the tools.** Pure algorithms over task descriptors and command streams,
  outside the driver; not modelled (section 5).

`PROJECT.json` lists each hazard at its line with the properties that watch over it.

## 2. Modules

```
RocketBase   constants: jobs, chained jobs, tasks, domains, tables, faults
  NpuHw        the NPU and its MMU as the driver sees them      (external + register writes)
  DrmSched     drm_sched: pending list, credit, stop/start      (external)
RocketPm       the runtime-PM usage counter                     (external)
  RocketJob    job.c, core.c, drv.c: composes the three above
    RocketJobProps   properties, and the mapping to NpuJobs
      RocketJobInv     the inductive invariants
        RocketJobProofs  theorems (TLAPS): safety under every fault
          RocketJobOrder   theorems: RocketJob implements the order of NpuJobs
            RocketJobChains  theorems about chained jobs, NpuJobs implemented in full
            RocketJobSteps   theorems about legacy jobs and any mixture
        RocketJobClaims  what comments promise and the code does not do
          MCRocketJob      TLC instances
NpuJobs        what a core promises its clients: abstract specification

NpuRegs        register layouts (rocket_registers.h)
RocketSubmit   SUBMIT's arguments and the jobs made of them
  RocketPc       rocket_job_hw_submit() and the handlers, write by write (uses both)
    RocketPcProps    properties
      RocketPcInv      the inductive invariant
        RocketPcProofs   theorems
      MCRocketPc       TLC instances

RocketObjects  files, domains, BOs, jobs and their references
  RocketObjectsProps   properties
    RocketObjInv         the inductive invariant
      RocketObjOrder       theorems: order of jobs, fences, ownership
        RocketObjRefs        theorems: reference counts, lifetimes
      MCRocketObjects      TLC instances

RocketCores    probe, removal and unload against files, jobs, interrupts and PM
  RocketCoresProps     properties
    RocketCoresInv       the inductive invariant
      RocketCoresProofs    theorems
      MCRocketCores        TLC instances
```

### RocketJob

A step is what happens between two points where another flow can come in. Each flow has
a program counter:

| Variable | Values and the code they stand before |
|---|---|
| `runPc` | `resume` (job.c:470), `attach` (474), `submit` (505), `return` (510), `nofence` (464) |
| `irqPc` | `act`: the raw status has been read (668) |
| `thrPc` | `check` (517), `ack` (524, lock held), `quiesce` (546), `step` (549), `signal` (540 or 557, lock held), `release` (541 or 558, lock held) |
| `tdrPc` | `stop` (569), `clear` (576), `reset` (590), `start` (596) |

`job_lock` is represented by the program counters that hold it across steps
(`JobLockFree`); critical sections nobody can observe half-way are one step. The
signalling of a fence is a step of its own inside the lock: the scheduler's callback runs
there, and the free worker may free the job before `in_flight_job` is reset.

Interrupt bits are three classes: `done` (the bits of `last_int_mask`), `wake` (those of
0x300, 0xc00 and 0x10000 that are not in `done`) and `unit` (the rest). A hardware step
ends the current task, raises the bits the driver would see, or reports a unit's
interrupt; when a chain's task that is not the last ends, only the open mask lets it
interrupt. `ran` and `starts` are history variables. `hwLut`, `mmu`, `autoGating` and
`executer` say what the hardware has, against what the driver believes
(`lutValid`/`lutCache`, `attached`).

`DrmSched` keeps what decides the interplay with the driver: the pending list in order,
the one credit, `drm_sched_stop()` unhooking fences, `drm_sched_start()` cancelling, the
free worker taking finished jobs from the head, and the timeout work taking the head off
the list whether or not it is finished.

The constant `Faults` is the part of {timeout, iommu_irq, resume, attach, alloc} the
environment may do: a job past `JOB_TIMEOUT_MS`, the NPU MMU raising the shared line, and
failures of `pm_runtime_get_sync()`, `iommu_attach_group()` and the fence allocation.
`OpenMask` is the module parameter `rocket_open_mask`.

### NpuJobs

The abstract specification of job execution: a job is accepted, waits, is served alone,
has its tasks done one by one, and ends once, complete or cancelled (accel.h:111-117).
`RocketJobProps` maps RocketJob to it: `Status` is read off drm_sched's view of the job,
`ran` is the work done. `ServesJobs` is the full refinement; `OrdersJobs` the same with
the work hidden (no job asks for any), which is what remains true when a completion may
be told too early (finding `early_fence`).

### RocketSubmit, RocketPc

RocketJob takes the whole of `rocket_job_hw_submit()` for one step and sees registers as
facts about the hardware. RocketPc is the opposite view: `todo` is the sequence of writes
decided on when the function is called, `Write` makes one of them, and the hard handler,
the irq thread and the reset write in between. `reg`, `mask`, `raw`, `sram` are the
hardware's registers, with the fields as NpuRegs decodes them; `unit` is a copy of what
was in them at the moment OPERATION_ENABLE was written, together with the job that was
current: the properties compare it with the arguments userspace gave. `irqPc` stands
before `look` (job.c:699), `bank` (702), `act` (723); `thrPc` before `clear` (526),
`reopen` (533), `disable` (539), `complete` (540 or 557), `stop` (546), `clearall` (547),
`step` (549), `write` (552); `holder` has job_lock. Fences, power and domains are left to
RocketJob.

A program is put together from what the code writes: `LoadTables`, `StartChain` or
`StartTask`, with a reset before or the closing pulse behind where the code has them; its
values are those read when the function is called. `Refuse` is `rocket_ioctl_submit_job()`
leaving a job out whose arguments it does not take, after which the SUBMIT goes on with the
next one.

RocketSubmit is the pure part: which jobs of a SUBMIT are accepted and what becomes of
their arguments, with the address arithmetic of job.c:85 and 950. User memory is two
partial functions from addresses; a copy of anything outside them fails (`Readable` for
the tasks of one job, `JobArray` for the jobs, of which a bad one makes the whole SUBMIT
fail before any job is accepted).

### RocketCores

`pc` is where the bind or unbind that is under way stands: `slot` (drv.c:179), `count`
(187), `init` (core.c:30), `job` (142), `pm` (149), `resume` (161), `reset` (168), and
`detach` (core.c:191), `supply` (206), `disable` (209), `fini` (213), `removed` (drv.c:213),
`failed` (drv.c:191). The driver core binds one device at a time during registration and
unbinds the last one first on unload; the fault `unbind` lets a core be unbound by itself,
from sysfs. Files, jobs, interrupts and runtime PM go on meanwhile. `oops` records where
code would follow a NULL or error pointer: an open between `drm_dev_register()` and the
filling in of core 0 (drv.c:90), a probe after a failed `rocket_device_init()`
(drv.c:173-179), a job on a core that is not found (job.c:448). The first two are how the
code is and happen in the passing run; nothing in the repository says otherwise.

A file holds the module (drv.c:80), a job does not: `rocket_job_close()` waits for what the
entity queues and not for the job on the hardware (job.c:826-832), so the module may be
unloaded while a job of a closed file runs. `Close` and `Unload` allow it; `hasty` records
that a removal began with a core that was not suspended, which the repository's own
README.md:167 tells people not to do ("`rmmod` only while the NPU is runtime-suspended").
`WholeWhileUsed` claims two things: the removal of a suspended module meets no job and no
handler; and a hasty one harms only those on a core it has reached (`Caught`).

### RocketObjects

References are counters, as in the code; the properties compare them with who holds
them. `ioctl[j]` is where SUBMIT is with a job: `copy` (job.c:862-888), `lookup`
(890-907), `push` (909 up to 374), `attach` (376), `put` and `cleanup` (913-918), `oops`
(the put of a NULL domain). Reservations stay locked from `push` to `attach`. Jobs of a
file run in the order of its entity; the entity changes core when it has nothing left.
That a fence replaces an earlier one of the same entity in `dma_resv` is why `fence[b]`
is one job. `Faults` is part of {bo, early, reserve, alloc, resume, attach, timeout}.

`running[c]` is the job with the scheduler's credit, `inFlight[c]` is `in_flight_job`. They
differ when `rocket_job_run()` gives up: after a failed resume (job.c:472) or attach (488)
it returns the fence all the same, and the job holds the core until its timeout
(`RunGivesUp`); by the failing attach the old domain has been detached, put and set to
NULL, and no reference taken on the new one (`AttachFails`). A failed fence allocation (464)
finishes the job at once (`RunNoFence`).

Userspace is assumed to finish with a BO (FINI_BO) before it submits a job with it, and
to ask for it (PREP_BO) after the submit returned; nothing else is assumed of it, and
with the fault `early` not even that handles are valid.

### Mutants

Definitions marked "Mutant" are mistaken variants of the definition behind them (a
dropped guard, a missing put, an off-by-one). No specification uses them; put in the
place of the original each makes TLC refute the property it is listed with in
`PROJECT.json`, which shows that the property says something of the code.

## 3. Runs

Each run is `tlc -config <run>.cfg` on the MC module `PROJECT.json` names; the proofs are
checked with `tlapm`.

| Run | Instance | What it shows |
|---|---|---|
| `chain_hangs` | chains c2 (2 tasks), c3 (1 task) of one file with the same tables, so that a reset lies between two jobs that could share them; timeouts, shared interrupts, open mask | NpuJobs is implemented; PM balances while timeouts race completions; the inductive invariant about chains, which implies that fences tell the truth and that tables, page tables and the workaround bit are right |
| `mixed` | chains c1, c2 of two files with different tables and legacy l1 (2 tasks), l2 on healthy hardware, open mask, fairness | the same data properties over every order of chained and stepped jobs; each task started once; NpuJobs implemented; every job succeeds: no completion is lost |
| `all_faults` | c2, l1 of different files, every fault | power, credit, order and lifetime, the inductive invariant of the proofs, and `OrdersJobs` |
| `live_hangs` | chain c3, legacy l2 of one task each, every fault, fairness | every job finishes, on hardware that may hang |
| `objects_order` | one file, two cores, BOs b1 and b2, jobs reading what others write, failing fences, resumes, attaches and reservations, timeouts, fairness | CPU ownership, no conflicting jobs, the inductive invariant of the proofs; a closed file gives all back |
| `objects_faults` | two files, three BOs, a job naming a BO twice, every fault | references over the error paths of CREATE_BO, SUBMIT and `rocket_job_run()`; a job in flight has its own domain, whatever attach failed before it; BOs of a job with a core stay mapped |
| `cores` | two devices with two probes each, two files, every failure of a probe, jobs that outlive their file, unload at any time | the DRM device matches the cores, callbacks find theirs, nobody uses a half-built core, nor a half-removed one unless a hasty removal caught it, supplies balance; the inductive invariant of the proofs |
| `pc_unit` | SUBMITs of three, three and one jobs: chains with tables at and beyond the limits of TASK_NUMBER and PC_DATA_AMOUNT, single tasks with longer elements, a task array that wraps, a job that is refused, a SUBMIT whose array of jobs runs into memory that cannot be read; timeouts and shared interrupts | what the unit is started with is the job, tables are whole, the mask is opened again |

Runs that refute a claim of the repository (`PROJECT.json`, findings):

| Run | Claim | What TLC finds |
|---|---|---|
| `early_fence` | "Remaining interrupts have been handled" (job.c:572) | nothing waits for the irq thread in a reset; its left-over wake-up completes the next legacy job at once |
| `registers` | "never touch our MMIO when the NPU is runtime-suspended" (job.c:661) | irq thread and reset use registers on a reference another flow has put |
| `hole` | "Last core removed, deinitialize DRM device." (drv.c:216) | unbinding the first of two cores leaves the second outside the first `num_cores`; its removal does nothing, and the DRM device stays without a core |
| `bank_zero` | "Legacy stepping only: chained jobs rely on the hardware ping-pong." (job.c:699) | the handler tests `in_flight_job` without the lock while the thread completes the chain before; its write lands in the DPU under the next chain |

More disagreements can be read off a single function and have no run:

* a failed resume or attach returns with its PM reference (job.c:472, 488), which no
  reset gives back: "Let's make sure the PM counters stay balanced" (job.c:573);
* AUTO_GATING is set before `rocket_job_hw_submit()`, whose reset before a single task
  clears it again (job.c:182): "before any NPU DMA" (job.c:496). `AutoGatingSet` holds for
  chains and is checked and proved for them;
* a job that lists a BO as input and output fails to lock it (job.c:354), and SUBMIT
  returns 0 (job.c:960): "The kernel will schedule the execution of this job"
  (accel.h:114); README-rk3568.md:54 has it wedging the scheduler;
* a job refused before line 907 ends in `rocket_iommu_domain_put(NULL)` (job.c:392);
* the lookup tables of a job without a descriptor array are not programmed at all
  (job.c:184-221 against accel.h:178), and programmed tables last only until the next
  suspend or reset (drv.c:267, core.c:225 against "stay until rewritten", accel.h:183);
* PREP_BO does not wait for jobs that only read the BO (job.c:339, gem.c:162 against
  accel.h:56);
* after a failed `rocket_device_init()` the static `rdev` keeps the error (drv.c:172-175)
  and the next probe works with it;
* "each finished task raises one of the two DPU done bits" (job.c:519-520), and the code
  below it counts no bits: NpuHw raises the done bits at the end of a chain, as the
  descriptors' masks have it (accel.h:168-174, RE-LOG.md:1318), and otherwise
  only the open mask lets a task of a chain interrupt.

The wake-up of `early_fence` is left over from a timeout; a second one for the same
completion, which the shared interrupt line can cause because the hard handler reads the
raw status and not the masked one (job.c:668), has the same effect on stepped jobs, and
their data properties are not claimed under the fault `iommu_irq`. Chained jobs are immune:
the thread looks for `last_int_mask` under the lock (job.c:529), which is what section 4
proves.

**Bounds.** `Jobs`, `TaskCount`, `Files`, `BOs` and `Cores` are the only bounds: each job
is submitted once and each BO created once, so all counters are bounded by themselves
and no state constraint is needed. Two jobs show every race of a left-over event with the
next job; the third and fourth of `mixed` are there for the four kinds of neighbours
(chained/stepped, own tables or none, same or other domain). Two tasks tell the last task
from another one. `cores` has two devices, the fewest with a first, a last and another
core, and `MaxTries` = 2 probes of each, so that a probe after a failed one is included.
`pc_unit` replaces 2^32 by 2^18 (`MCU32`), beyond which only address arithmetic looks, and
515 words of a table by two (`LutWords`): the order and number of the writes do not depend
on it. Deadlock is not checked: when all jobs are done the system rightly
stops.

**Fairness** (`KernelFairness`). Weak fairness of the run worker, the free worker, the
interrupt delivery while the NPU's line is raised, the irq thread and the timeout work:
the kernel schedules them, and drm_sched re-arms its timer while a job is pending. Strong
fairness of `RunSubmit` and `TdrClear`, which wait for `job_lock`: the irq thread may
take it again and again under an interrupt storm, and the kernel's mutex hands a
contended lock over to its first waiter. Nothing is assumed of the hardware, except in
`WorkingSpec`, where a started task ends. In `RocketObjects` running ioctls go on, a core
takes the jobs of each file in turn (strong fairness, the scheduler rotates among
entities), jobs in flight finish or are cancelled and a job that was never started is
ended by its timeout, and the DRM core calls postclose.

## 4. Proofs

The theorems hold for every instance, not only those of the runs. They rest on the
assumptions the modules state about their constants, and on nothing else:
`JobAssumption` (RocketBase), `ObjectAssumption` (RocketObjects: finitely many BOs, jobs
and cores, so that references can be counted), `CoresAssumption` (RocketCores: finitely
many devices), `SubmitAssumption` and `PcAssumption` (RocketSubmit, RocketPc: the arguments
have the types of accel.h, tables have 1 to 1023 words). Sets of jobs in RocketJob may be
infinite. A theorem that needs more says so in its ASSUME.

### Execution of jobs

`RocketJobProofs` proves, whatever is chained or stepped:

* `TypeCorrect`, `NeverShort`, `Balanced`, `Powered`: `[]TypeOK`, `[]PmNeverShort`,
  `[]PmBalanced`, `[]PoweredInUse`;
* `Credits`, `CurrentIsAlive`, `InOrder`: `[]CreditsMatch`, `[]InFlightAlive`,
  `[]SignalInOrder`;
* `NotOverwritten`: the action property `InFlightNotOverwritten`.

None is inductive by itself. That a completion may put the PM reference depends on there
being at most one job with the core; that depends on the scheduler's credit; the credit
on which jobs are hooked to fences, in the worker's hands, or waiting to be cancelled by
a restart; and that on the order in which jobs were begun. `IInv` (RocketJobInv) is the
conjunction of these facts:

* `RunnerOK`: while the worker has a job, that one is unfinished and nothing else is out;
* `ArmedOK`, `CreditOK`: at most one job is hooked, and the credit says so;
* `SchedOK`, `UnfinishedOK`, `SeqOK`: where jobs are on the pending list, and that every
  begun and unfinished one is accounted for;
* `FlightOK`: the current job is the one whose credit is out, until it is signalled or
  the timeout work takes it away;
* `PmOK`: the usage counter covers the current job and all handlers.

There is one lemma per action (`RunJobStep`, `IrqEnterStep`, ...), with a step for each
conjunct; `NextIInv` joins them; `Invariant` is `Spec => []IInv`, and the theorems follow
from it. `IInv` is checked by TLC in `all_faults` too.

`RocketJobOrder` proves `OrdersJobsAlways`: `Spec => OrdersJobs`, RocketJob implements
NpuJobs with the work hidden. Each step changes the `Status` of one job at most
(`OneMoves`, `NoneMoves`); a step that gives a job its outcome is a `Complete` or `Cancel`
(`OutcomeStep`), a step of the worker a `Serve` (`ServeStep`), a restart cancels one
(`RestartStep`), and the rest stutter (`KeepStep`). That `Serve` finds nobody served needs
`IInv`; that a restart cancels at most one job needs `StoppedOK` (RocketJobInv): while the
scheduler is stopped nobody is hooked, and whoever is unfinished was the one with the
credit.

`RocketJobChains` assumes `Jobs \subseteq ChainedJobs`, which is how Mesa submits, and
proves `[]ChainInv` (`ChainInvariant`), and from it `ChainsComplete`, `ChainsOwnDomain`,
`ChainsGated`: `[]DoneFenceMeansComplete`, `[]DmaThroughOwnDomain`, `[]AutoGatingSet`; and
`ChainsServed`: `Spec => ServesJobs`, the full refinement. Under every fault, left-over wake-ups included. `ChainInv` says that the
hardware only executes the current job, that a done bit of the current job means all its
tasks have run (so the thread's look under the lock is enough), and that between attach
and start, and again after a reset, page table, workaround bit and tables are those of
the job whenever the hardware may execute. TLC checks it in `chain_hangs`. The same
statements without the assumption are false (`early_fence`, and AUTO_GATING in section 3).

`RocketJobSteps` is about legacy jobs and any mixture with chains. Two statements need no
assumption: `NeverStuckOnBank` (`[]ExecuterFree`) and `TablesAlways` (`[]ChainHasItsLut`)
hold under every fault, from `LoadedOK` (RocketJobInv): while there is power the tables in
the unit are the ones the driver believes are there, and whoever starts a task looks at
the bank first. The others are conditional, because they are false otherwise: on legacy
jobs the thread's second critical section goes by `next_task_idx` and asks the NPU
nothing, so a wake-up too many steps or completes a job early, and both a timeout
(`early_fence`) and the shared line (section 3) can bring one. `Quiet` rules these two
faults out and leaves resumes, attaches and allocations free to fail. Under `Quiet`,
`StepInvariant` proves `[]StepInv`, and from it follow `TasksStartedOnce`, `FencesHonest`,
`OwnDomain` (`[]StartedOnce`, `[]DoneFenceMeansComplete`, `[]DmaThroughOwnDomain`) and
`QuietServed` (`Spec => ServesJobs`). The heart of `StepInv` is that there is one wake-up
per task. `HandOverOK`: the interrupt mask is open only while the thread is neither
running nor woken; the handler that wakes it closes the mask, so that no second handler
can come before the thread or the next start has opened it again. `TurnOK`: hence the
thread finds, in its second section, that all tasks started have ended, and
`next_task_idx`, the starts and the tasks done agree. TLC checked `StepInv` on the jobs
of `mixed` (836 851 states) with the three remaining faults, and `LoadedOK` under
every fault with c2, l1 and l2, before they were proved.

### Files, buffer objects and jobs

`RocketObjOrder` proves `OrderInvariant` and from it `CpuOwnsOutputAlways`,
`NoConflictAlways` and `IoctlHoldsJobAlways`. The difficulty is that `dma_resv` keeps one
fence of each entity, that only outputs have one, and that a job is pushed (and may run,
and end) before its fence is there. The argument is about order. A file's jobs leave its
entity one by one and the entity stays on a core while it has anything left (`QueueOK`,
`CoresOK`), so that jobs of one file never overlap, started or not; while a job is between its push and
its fence, its BOs are reserved, so every job of the same BOs that has left its fence
already is ahead of it in the queue (`FencesOK`, `Behind`). Hence the fence of a BO is that
of its unfinished writer or of a job behind it, and whoever waits for that fence has
waited for all writers: the CPU may own the BO.

`RocketObjRefs` proves `ObjTypeCorrect`, `DomainRefs`, `BoRefs`, `Mapped` and
`ObjInvariant`. Counters are compared with the cardinalities of the sets of holders; each
step has to change the counter by what it adds to or takes from those sets. Leaks the code
has (a BO whose creation failed late, a lookup that failed midway) are on the other side
of the equation, so that the theorem says there are no others, and no put too many. From
the counts follows that what a running job uses is alive: it is one of the holders. That
the NPU translates with the domain of the job in flight is part of `CoresOK`, about
`inFlight` and not `running`: a job whose resume or attach failed holds the core beside
another file's domain, or none. The steps of `rocket_job_run()` that fail are treated with
the one that starts the job (`RunFacts` says what they have in common); a failing attach
takes the core from the holders of the old domain as it puts it, and adds none.

### Cores

`RocketCoresProofs` proves, under `Orderly` (cores are removed with the module and not by
themselves from sysfs; the module at any time no file is open), `CoresInvariant` and from it `CoresTypeCorrect`,
`CallbacksFind`, `DeviceMatches`, `SupplyExact` and `WholeCores`, for any number of
devices, files and tries and every stage that may fail. `CoresInv` (RocketCoresInv) ties
three things to where the bind or unbind stands: which elements of `cores[]` are counted
(`FlowOK`: those of the bound devices in the order they were bound, and then `Here`), what
runtime PM and the supply of each device are (`PowerOK`), and what each core has
(`PartsOK`). That nothing executes on a core that is being torn down (`NothingRuns`) has
two reasons. After a failed resume its PM state is an error. Once the module is being
removed no file is open, so nothing resumes a core any more: one that was suspended stays so
(`UnloadOK`). What is left, a job or handler met by a hasty removal, is `Caught`. That there is an element for the next core (`EnoughSlots`) is a
counting argument: no device is bound twice. Without `Orderly` the statements are false
(finding `hole`).

### Programming of the NPU

`RocketPcProofs` proves `PcInvariant` and from it `PcTypes`, `LaunchCorrect`,
`TablesCorrect` and `MaskNeverLost`: `[]PcTypeOK`, `[]LaunchIsTheJob`, `[]TablesLoaded`,
`[]MaskReopened`, for every SUBMIT, size of tables, scale, core index and setting of the
module parameters (`pc_unit` has one setting of each). The programs have hundreds of
writes with other flows between them, so `PcInv` (RocketPcInv) has to say what an
interrupted one has done. It is known from what it has left: writes are numbered from the
end, 1 starts the unit and 0 takes OP_EN back, and `Due` gives write k of a program of job
j. `ProgramInv` says `todo` is the last so many of them, `Written` which registers hold
their values by then, `LoadInv` which words of the tables. That makes one lemma for each
kind of write (`AddressStep`, `DataStep`, ...), whatever its place. The rest is who may
come in between: nobody who holds `job_lock` (`LockInv`); the hard handler, which only
clears bits, closes the mask or writes the DPU's bank; and a reset, which waits for the
worker and finds nobody in flight (`ResetInv`). That a cached table is not loaded again is
sound because `CacheInv` holds outside a load. For `MaskReopened` the invariant follows
the interrupt: whoever closes the mask has woken the thread, and the thread opens it unless
it completes the job.

Beside the run, TLC checked `PcInv` with the three module parameters set the other way
(the SUBMITs of `pc_unit`, 769 033 states).

### Only model-checked

Everything under fairness, which is beyond this prover: `JobsFinish`, `JobsSucceed` and
`FileGivesBackAll`. Every other property of a passing run is stated by a theorem.

## 5. What is not modelled

* Logging, the registers read only for it, and settle times.
* `rocket_reset_work()` and the first two early returns of `rocket_job_run()` (job.c:452 and
  459): nothing queues the work, no job gets an error before it runs, none is run twice.
  All later returns are in RocketJob and in RocketObjects. RocketCores has the runs that
  start a job only: one whose resume or attach fails keeps its PM reference, so that its
  core is not suspended again (RocketJob has that counter).
* The branches for a core without `mmu_iomem` or `dpu_iomem` (job.c:497, 675, 703): both are
  there. `scmi_clk`, enabled at every probe and never disabled (core.c:113-115): no property
  depends on the clock.
* System sleep. Two probes at once. What jobs and handlers do on a core that a hasty
  removal has reached (`Caught`): their registers are unmapped and their interrupt is freed
  only after `rocket_remove()`; `WholeWhileUsed` grants it and the hazard list has it.
* The address allocator and mmap. `drm_mm` is used under `mm_lock` and mapping and
  unmapping nest inside an allocation (gem.c:24-31, 97-137); RocketObjects has the
  lifetime of the mapping, not the address. Nor is the sharing of BOs between files (an
  address is private to a file, accel.h:40-43).
* `rocket_priv` freed in postclose while a running job still holds BOs of the file:
  `rocket_gem_bo_free()` uses it later. It is listed as a hazard.
* Registers the driver does not write (the command streams of userspace do), the device
  tree, the IOMMU patch (one allocation flag in another driver).
* Mesa: a patch against code that is not in the repository. The tools, the capture
  library and the tests: sequential programs over files without shared state.

## 6. Plan

1. *RocketJob, NpuJobs, RocketObjects, RocketCores, RocketPc and the proofs of section 4*:
   done as above.
2. RocketPc implements the start of RocketJob: a launch of the write-by-write model mapped
   to the one step `HwSubmit` is there, as a refinement beside the invariants.
3. The address space of one file, as a module beside RocketObjects: that a range is
   unmapped before it can be given to another BO, and pages are freed after that.
