----------------------------- MODULE RocketBase -----------------------------
(***************************************************************************)
(* What every module about job execution on one NPU core shares: the jobs  *)
(* and the immutable fields rocket_ioctl_submit_job() gives them, and the  *)
(* parts of the environment that can fail.                                 *)
(***************************************************************************)
EXTENDS Integers

CONSTANTS
  Jobs,         \* the jobs userspace may submit to this core
  None,         \* the NULL pointer, and "no defined contents"
  ChainedJobs,  \* jobs whose task_desc_addr is non-zero (PC walks the chain)
  TaskCount,    \* [Jobs -> Nat \ {0}]: rocket_job.task_count
  DomainOf,     \* [Jobs -> IOMMU domain]: rocket_job.domain
  LutOf,        \* [Jobs -> LUT contents or None]: rocket_job.lut
  Faults,       \* what the environment may do in this instance
  OpenMask      \* the module parameter rocket_open_mask

(***************************************************************************)
(* A zero task_count is refused at the head of rocket_ioctl_submit_job();  *)
(* the domain is taken from the file before the job is pushed.             *)
(***************************************************************************)
ASSUME JobAssumption ==
  /\ None \notin Jobs
  /\ ChainedJobs \subseteq Jobs
  /\ TaskCount \in [Jobs -> Nat \ {0}]
  /\ \A j \in Jobs : DomainOf[j] # None

(***************************************************************************)
(* timeout    a job may stay on the hardware past JOB_TIMEOUT_MS           *)
(* iommu_irq  the NPU MMU, which shares the interrupt line, may raise it   *)
(* resume     pm_runtime_get_sync() may fail                               *)
(* attach     iommu_attach_group() may fail                                *)
(* alloc      the allocation of the hardware fence may fail                *)
(***************************************************************************)
ASSUME EnvironmentAssumption ==
  /\ Faults \subseteq {"timeout", "iommu_irq", "resume", "attach", "alloc"}
  /\ OpenMask \in BOOLEAN

Chained(j) == j \in ChainedJobs
=============================================================================
