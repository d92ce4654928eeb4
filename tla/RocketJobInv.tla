---------------------------- MODULE RocketJobInv ----------------------------
(***************************************************************************)
(* The inductive invariant of RocketJob: who owns the scheduler's credit,  *)
(* which job may be current, and who owes the PM core a put.  Invariants   *)
(* and the action property of RocketJobProps follow from it.               *)
(***************************************************************************)
EXTENDS RocketJobProps

(* The worker has begun a job and not yet made it current.                 *)
Starting == {"resume", "attach", "submit"}

(* The job of the run worker is alive, unfinished, and the only one out.   *)
RunnerOK ==
  /\ runPc # "idle" => /\ runJob \in Jobs
                       /\ sched[runJob] \in {"pending", "timedout"}
                       /\ finished[runJob] = "no"
                       /\ armed = {}
                       /\ ~stopped
  /\ runPc \in Starting => runJob \notin doneFence /\ runJob # inFlight

(* At most one job is hooked to its hardware fence.                        *)
ArmedOK ==
  /\ \A j, k \in armed : j = k
  /\ \A j \in armed : sched[j] \in {"pending", "timedout"} /\ finished[j] = "no"
  /\ stopped => armed = {}

CreditOK == creditCount = One(runPc # "idle") + One(armed # {})

(* Jobs not begun yet are untouched; a job off the pending list for its     *)
(* timeout is the one the timeout work holds; only finished jobs are freed. *)
SchedOK ==
  /\ \A j \in Jobs : IF sched[j] \in {"new", "queued"}
                        THEN finished[j] = "no" /\ j \notin doneFence /\ seqno[j] = 0
                        ELSE seqno[j] > 0
  /\ \A j \in Jobs : sched[j] = "timedout" => tdrPc # "idle" /\ bad = j
  /\ \A j \in Jobs : sched[j] = "freed" => finished[j] # "no"
  /\ tdrPc # "idle" => bad \in Jobs
  /\ stopped <=> (tdrPc \in {"clear", "reset", "start"})

(* An unfinished job that was begun is hooked, in the worker's hands, or   *)
(* about to be cancelled by the restart of the scheduler.                  *)
UnfinishedOK ==
  \A j \in Jobs : seqno[j] > 0 /\ finished[j] = "no" =>
    \/ j \in armed
    \/ runPc # "idle" /\ j = runJob
    \/ stopped /\ sched[j] = "pending"

(* Jobs are begun one after the other.                                     *)
SeqOK ==
  /\ \A j \in Jobs : seqno[j] <= begun
  /\ \A j, k \in Jobs : 0 < seqno[j] /\ seqno[j] < seqno[k] => finished[j] # "no"

(* The current job is the one whose credit is out, until it is signalled or *)
(* the timeout work takes it away.                                          *)
FlightOK ==
  /\ thrPc \in {"ack", "signal", "release"} => inFlight # None
  /\ inFlight # None => sched[inFlight] \notin {"new", "queued"}
  /\ inFlight # None /\ thrPc # "release" =>
       /\ inFlight \notin doneFence
       /\ \/ inFlight \in armed
          \/ runPc = "return" /\ runJob = inFlight
          \/ tdrPc = "clear" /\ sched[inFlight] = "pending"
  /\ tdrPc \in {"reset", "start"} => inFlight = None

(* The counter of the PM core covers its users, and so does its power.     *)
PmOK == PmNeverShort /\ PmBalanced /\ PoweredInUse

(* A job holds the credit from its begin to its signalling or cancelling,   *)
(* only its holder can be current, and nobody puts what he has not got      *)
(* (job.c:444-512, 557-597, 750): TypeOK and PmOK need to know all of that. *)
IInv ==
  /\ TypeOK /\ RunnerOK /\ ArmedOK /\ CreditOK /\ SchedOK
  /\ UnfinishedOK /\ SeqOK /\ FlightOK /\ PmOK
-----------------------------------------------------------------------------
(* While the scheduler is stopped at most one job is left on the pending    *)
(* list, and it has no outcome yet: the restart cancels that one only.      *)
(* OrdersJobs needs it beside IInv.                                         *)
StoppedOK ==
  stopped => \A j, k \in Pending : j = k /\ finished[j] = "no"
-----------------------------------------------------------------------------
(***************************************************************************)
(* When every job is chained (task_desc_addr set, as Mesa does on RK3568), *)
(* one start runs the whole job, and done_fence, DMA and lookup tables are *)
(* right under every fault.  These parts, with IInv, are inductive then; a *)
(* legacy job breaks the second one (RocketJobClaims).                     *)
(***************************************************************************)

(* The PC unit executes the current job, in order, until a reset stops it;  *)
(* a stray irq thread may have started it over.                             *)
ChainRunOK ==
  /\ \A j \in Jobs : nextTask[j] = 0 /\ ran[j] <= TaskCount[j]
  /\ hw # None => /\ inFlight = hw \/ (tdrPc = "reset" /\ sched[hw] = "pending")
                  /\ hwTask \in 1 .. TaskCount[hw]
                  /\ hwTask <= ran[hw] + 1

Complete(j) == ran[j] = TaskCount[j]

(* The completion bit stands for the last task of the current job, from its *)
(* raising to the signal of the fence, unless a reset is about to wipe it.  *)
ChainDoneOK ==
  /\ "done" \in raw => /\ hw = None
                       /\ thrPc \notin {"signal", "release"}
                       /\ IF inFlight = None THEN tdrPc = "reset"
                                              ELSE Complete(inFlight)
  /\ "done" \in thrSt => thrPc = "ack" /\ hw = None /\ Complete(inFlight)
  /\ thrPc \in {"signal", "release"} => hw = None
  /\ thrPc = "signal" => Complete(inFlight)
  /\ \A j \in doneFence : Complete(j)
  /\ \A j \in Jobs : finished[j] = "ok" => Complete(j)

(* A job has its domain attached and AUTO_GATING set.                       *)
Guarded(j) == attached = DomainOf[j] /\ autoGating

(* While the NPU is powered the MMU and the table cache are what the driver *)
(* believes; the job about to start, the current one and the one executing  *)
(* have their domain and workaround.                                        *)
ChainDmaOK ==
  /\ powered => mmu = attached /\ (lutValid => hwLut = lutCache)
  /\ runPc = "submit" => Guarded(runJob)
  /\ inFlight # None /\ thrPc # "release" => Guarded(inFlight)
  /\ hw # None => /\ powered
                  /\ Guarded(hw)
                  /\ LutOf[hw] # None => hwLut = LutOf[hw]

(* With nothing but chains a fence means completed tasks, and DMA goes      *)
(* through the job's own domain with its own tables (job.c:184-269,         *)
(* 513-547): the open mask, stray wake-ups and resets change nothing.       *)
ChainInv == ChainRunOK /\ ChainDoneOK /\ ChainDmaOK
-----------------------------------------------------------------------------
(* Whatever the jobs are and whatever fails, the tables the driver believes *)
(* loaded are loaded while there is power, and no task waits on the wrong   *)
(* bank (job.c:173-182, 204-221).  Inductive with IInv.                     *)
LoadedOK ==
  /\ powered /\ lutValid => hwLut = lutCache
  /\ ChainHasItsLut
  /\ ExecuterFree
-----------------------------------------------------------------------------
(***************************************************************************)
(* Legacy jobs, stepped task by task, beside chains: the second critical   *)
(* section of the irq thread goes by nextTask and asks the NPU nothing, so *)
(* all rests on one wake-up per task.  That is so on a quiet core, where   *)
(* no job times out and the MMU leaves the shared line alone; either of    *)
(* the two can step or complete a legacy job early.                        *)
(***************************************************************************)
Quiet == Faults \cap {"timeout", "iommu_irq"} = {}

(* The timeout work has nothing to do.                                     *)
CalmOK == tdrPc = "idle" /\ ~resetPending

(* The mask passes the interrupt on: open, it belongs to the hard handler  *)
(* and the thread is neither woken nor running; the handler closes it with *)
(* the wake-up, and the thread or the next start opens it again.           *)
HandOverOK ==
  /\ mask # {} => inFlight # None /\ thrPc = "idle" /\ ~thrWake
  /\ irqPc = "act" => mask # {} /\ irqRaw \subseteq raw
  /\ thrWake => inFlight # None /\ thrPc = "idle"
  /\ thrPc # "idle" => inFlight # None
  /\ thrPc = "ack" => Chained(inFlight)
  /\ thrPc \in {"quiesce", "step"} => ~Chained(inFlight)
  /\ thrPc # "ack" => thrSt = {}

Unbegun(j) ==
  sched[j] \in {"new", "queued"} \/ (runPc \in Starting /\ runJob = j)

(* The turn of a chain: it executes in order, or is done.                  *)
ChainTurn(j) ==
  IF hw = None THEN Complete(j)
  ELSE /\ hwTask = ran[j] + 1 /\ hwTask <= TaskCount[j]
       /\ "done" \notin raw \cup thrSt
       /\ thrPc # "signal"

(* The turn of a legacy job: every task started has ended but perhaps the  *)
(* last, and while that one executes nobody has been woken for it.         *)
TaskTurn(j) ==
  /\ nextTask[j] = starts[j] /\ nextTask[j] \in 1 .. TaskCount[j]
  /\ IF hw = None THEN ran[j] = nextTask[j]
     ELSE /\ hwTask = nextTask[j] /\ nextTask[j] = ran[j] + 1
          /\ raw \cap WakeBits = {}
          /\ thrPc = "idle" /\ ~thrWake
  /\ thrPc = "signal" => nextTask[j] = TaskCount[j]

TurnOK ==
  /\ \A j \in Jobs : Unbegun(j) => starts[j] = 0 /\ nextTask[j] = 0 /\ ran[j] = 0
  /\ StartedOnce
  /\ hw # None => hw = inFlight /\ thrPc # "release"
  /\ inFlight # None /\ thrPc # "release" =>
       IF Chained(inFlight) THEN ChainTurn(inFlight) ELSE TaskTurn(inFlight)

(* Success is told of complete jobs only.                                  *)
OutcomeOK ==
  /\ DoneFenceMeansComplete
  /\ \A j \in Jobs : finished[j] = "ok" => Complete(j)

(* The job about to start and the current one have their domain attached.  *)
DomainOK ==
  /\ powered => mmu = attached
  /\ runPc = "submit" => attached = DomainOf[runJob]
  /\ inFlight # None /\ thrPc # "release" => attached = DomainOf[inFlight]

(* On a quiet core each wake-up ends one task, so that chains and legacy   *)
(* jobs alike are executed once, in order and to the end                   *)
(* (job.c:163-182, 271-272, 513-560).                                      *)
StepInv == CalmOK /\ HandOverOK /\ TurnOK /\ OutcomeOK /\ DomainOK
=============================================================================
