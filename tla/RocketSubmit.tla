---------------------------- MODULE RocketSubmit ----------------------------
(***************************************************************************)
(* What SUBMIT makes of its arguments: rocket_ioctl_submit() and           *)
(* rocket_copy_tasks() walk arrays in user memory by the element sizes     *)
(* userspace gives, so that both can grow; rocket_ioctl_submit_job() drops *)
(* a job it does not like, and the ioctl goes on with the next.  BOs and   *)
(* references are in RocketObjects.                                        *)
(***************************************************************************)
EXTENDS Integers, Sequences

CONSTANTS
  None,
  Jobs,         \* the drm_rocket_job structures in user memory, by name
  Args,         \* [Jobs -> their contents]
  UserJobs,     \* [address -> Jobs]
  UserTasks,    \* [address -> drm_rocket_task]
  LutWords,     \* words of one lookup table: 515
  U32,          \* 2^32, where an index times an element size wraps around
  TASK_SIZE,    \* sizeof(struct drm_rocket_task)
  JOB_SIZE      \* sizeof(struct drm_rocket_job)

DrmRocketTask == [regcmd : 0 .. U32 - 1, regcmd_count : 0 .. U32 - 1]

(* last_int_mask is the set of its bits, lut_data what it points to.       *)
DrmRocketJob ==
  [tasks : DOMAIN UserTasks, task_count : 0 .. U32 - 1, task_struct_size : 0 .. U32 - 1,
   task_desc_addr : Nat, last_int_mask : SUBSET (0 .. 16),
   lut_data : Seq(0 .. 2^16 - 1), lut_count : 0 .. U32 - 1]

DrmRocketSubmit ==
  [jobs : DOMAIN UserJobs, job_count : 0 .. U32 - 1, job_struct_size : 0 .. U32 - 1, reserved : Nat]

ASSUME SubmitAssumption ==
  /\ None \notin Jobs \cup {Args[j].lut_data : j \in Jobs}
  /\ U32 \in Nat \ {0} /\ LutWords \in 1 .. 1023
  /\ \A j \in Jobs : Args[j] \in DrmRocketJob /\ Len(Args[j].lut_data) = Args[j].lut_count
  /\ \A a \in DOMAIN UserTasks : UserTasks[a] \in DrmRocketTask
  /\ \A a \in DOMAIN UserJobs : UserJobs[a] \in Jobs

(* Element i, from 0, of an array whose elements are size bytes long.      *)
Stride(i, size) == (i * size) % U32

AddressFixed(job, i) == job.tasks + Stride(i, TASK_SIZE) \* Mutant: size ignored
TaskAddress(job, i) == job.tasks + Stride(i, job.task_struct_size)

(* rocket_copy_tasks(): the tasks as the job will run them.                *)
CopiedTasks(job) == [n \in 1 .. job.task_count |-> UserTasks[TaskAddress(job, n - 1)]]

Readable(job) == {TaskAddress(job, n - 1) : n \in 1 .. job.task_count} \subseteq DOMAIN UserTasks

NoEmptyTask(tasks) == \A n \in DOMAIN tasks : tasks[n].regcmd_count # 0

(* rocket_ioctl_submit_job() takes the job.                                *)
Valid(job) ==
  /\ job.task_count # 0
  /\ job.lut_count \in {0, 2 * LutWords}
  /\ job.task_struct_size >= TASK_SIZE
  /\ Readable(job)
  /\ NoEmptyTask(CopiedTasks(job))

MASK_DEFAULT == {8, 9}

(* The rocket_job made of it.                                              *)
RocketJobOf(job) ==
  [tasks |-> CopiedTasks(job), task_count |-> job.task_count,
   chain |-> job.task_desc_addr # 0, task_desc_addr |-> job.task_desc_addr,
   last_int_mask |-> IF job.last_int_mask = {} THEN MASK_DEFAULT ELSE job.last_int_mask,
   lut |-> IF job.lut_count = 0 THEN None ELSE job.lut_data]

ValidJobs == {j \in Jobs : Valid(Args[j])}
Job == [j \in ValidJobs |-> RocketJobOf(Args[j])]

JobAddress(args, i) == args.jobs + Stride(i, args.job_struct_size)

(* The jobs of one SUBMIT, in their order: all are copied first.           *)
JobArray(args) ==
  IF \/ args.job_struct_size < JOB_SIZE \/ args.reserved # 0
     \/ ~({JobAddress(args, n - 1) : n \in 1 .. args.job_count} \subseteq DOMAIN UserJobs)
  THEN <<>>
  ELSE [n \in 1 .. args.job_count |-> UserJobs[JobAddress(args, n - 1)]]
=============================================================================
