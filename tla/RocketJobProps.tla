--------------------------- MODULE RocketJobProps ---------------------------
(***************************************************************************)
(* What must be true of job execution on a core, whatever the order in     *)
(* which its workers, interrupts, timeouts and power transitions meet.     *)
(***************************************************************************)
EXTENDS RocketJob

One(b) == IF b THEN 1 ELSE 0

(* Who owes the PM core a pm_runtime_put(): the job in flight, the hard    *)
(* handler, and the run worker until it has made its job current.          *)
RunnerHolds == runPc \in {"attach", "submit"}
PmHolders == One(inFlight # None) + One(irqPc = "act") + One(RunnerHolds)

(* The usage counter never drops below what the flows of control still hold *)
(* (job.c:541, 558, 578, 665-741): were it to, the NPU could be gated under *)
(* a running job.                                                           *)
PmNeverShort == usage >= PmHolders

(* ... and when every resume and attach succeeds nothing is leaked either, *)
(* across completions and resets (the balance job.c:571-578 restores).     *)
PmBalanced == Faults \cap {"resume", "attach"} = {} => usage = PmHolders

(* The NPU stays powered as long as a job is in flight, the worker is about *)
(* to start one, or the hard handler is reading registers (job.c:470, 665,  *)
(* drv.c:280).                                                              *)
PoweredInUse == PmHolders > 0 => powered

(* The scheduler's credit is out exactly while the worker runs a job or one  *)
(* is hooked to its hardware fence, and is never out twice (job.c:750): this *)
(* is what keeps two jobs from sharing in_flight_job, and what               *)
(* rocket_job_is_idle() goes by.                                             *)
CreditsMatch ==
  /\ creditCount = One(runPc # "idle") + One(armed # {})
  /\ creditCount <= 1
  /\ \A j, k \in armed : j = k

(* job.c:506 never replaces a job that is still current: its completion    *)
(* would be signalled for the other one, and a PM reference lost.          *)
InFlightNotOverwritten ==
  [][inFlight # None /\ inFlight' # None => inFlight' = inFlight]_vars

(* The current job has not been freed by the scheduler, except between the *)
(* signalling of its fence and the reset of in_flight_job (job.c:540-542,  *)
(* 557-559): whoever takes job_lock may dereference it.                    *)
InFlightAlive ==
  inFlight # None /\ thrPc # "release" => sched[inFlight] \in {"pending", "timedout"}

(* The fences of the core's context signal in the order their seqnos were   *)
(* given out (job.c:53-54): an older job is finished, one way or the other, *)
(* when a younger one signals.                                              *)
SignalInOrder ==
  \A j \in Jobs, k \in doneFence :
    0 < seqno[j] /\ seqno[j] < seqno[k] => finished[j] # "no"

(* A done_fence signals only when the hardware has completed the job's last   *)
(* task, and every one before it, in order (job.h:48, job.c:532-540, 551-557) *)
DoneFenceMeansComplete == \A j \in doneFence : ran[j] = TaskCount[j]

(* Each task is started once: a chain by its only start, a legacy job task *)
(* by task (job.c:186-189, 271-272).                                       *)
StartedOnce ==
  \A j \in Jobs : starts[j] <= IF Chained(j) THEN 1 ELSE TaskCount[j]

(* A chain with lookup tables runs with those, whatever resets, power gates *)
(* and other jobs' tables came in between (job.c:204-221, core.c:225,       *)
(* drv.c:267).                                                              *)
ChainHasItsLut ==
  hw # None /\ Chained(hw) /\ LutOf[hw] # None => hwLut = LutOf[hw]

(* The NPU's DMA goes through the page table of the job's own file, though *)
(* attach is lazy and resets wipe the MMU behind rk_iommu's back           *)
(* (job.c:130-146, 479-491).                                               *)
DmaThroughOwnDomain == hw # None => mmu = DomainOf[hw]

(* No DMA without the AUTO_GATING workaround (job.c:493-503).              *)
AutoGatingSet == hw # None => autoGating

(* A single task is never started with the executer on the bank where it   *)
(* would wait for ever (job.c:173-182).                                    *)
ExecuterFree == hw # None /\ ~Chained(hw) => executer = 0

(* Every job that is pushed is finished in the end, even on hardware that  *)
(* hangs, when the environment may fail in every way (job.c:563-631).      *)
JobsFinish == \A j \in Jobs : (sched[j] = "queued") ~> (finished[j] # "no")

(* On hardware that ends its tasks and without timeouts no completion is     *)
(* lost, to whatever order interrupts, acknowledgements and mask writes come *)
(* in (job.c:524-538, 732-742): every job pushed succeeds.                   *)
JobsSucceed == \A j \in Jobs : (sched[j] = "queued") ~> (finished[j] = "ok")
-----------------------------------------------------------------------------
(* What a client of the core can tell of its job.                          *)
Status ==
  [j \in Jobs |-> CASE sched[j] = "new"     -> "new"
                    [] sched[j] = "queued"  -> "waiting"
                    [] finished[j] = "ok"   -> "ok"
                    [] finished[j] = "failed" -> "failed"
                    [] OTHER                -> "served"]

Nothing == [j \in Jobs |-> 0]

Served == INSTANCE NpuJobs WITH Tasks <- TaskCount, status <- Status, work <- ran
Ordered == INSTANCE NpuJobs WITH Tasks <- Nothing, status <- Status, work <- Nothing

(* The five flows of job.c:431-661 together keep the promise of NpuJobs:     *)
(* one job at a time, its tasks in order and none twice, and success told    *)
(* only of a job whose tasks have all run.                                   *)
ServesJobs == Served!Spec

(* The part of it that needs no honest completions: under every fault a job *)
(* is served alone and ends once; no reset or late interrupt changes the    *)
(* outcome of a job that has one (job.c:444-512, 563-597).                  *)
OrdersJobs == Ordered!Spec
=============================================================================
