------------------------------ MODULE DrmSched ------------------------------
(***************************************************************************)
(* The kernel's drm_gpu_scheduler as rocket uses it: one scheduler per     *)
(* core, credit_limit 1, one credit per job, a timeout work item, and the  *)
(* run_job / timedout_job / free_job callbacks of rocket_sched_ops.  The   *)
(* scheduler is a library outside the repository: what is here is what     *)
(* rocket_job.c relies on when it calls drm_sched_stop(),                  *)
(* drm_sched_start() and signals the fence run_job returned.               *)
(***************************************************************************)
EXTENDS RocketBase

VARIABLES
  sched,        \* [Jobs -> where the scheduler keeps the job]
  finished,     \* [Jobs -> state of s_fence->finished]
  armed,        \* jobs with a callback on the fence run_job returned
  creditCount,  \* sched.credit_count
  stopped,      \* the scheduler's work queues are stopped
  seqno,        \* [Jobs -> position in the order the jobs were begun]
  begun         \* number of jobs begun

schedVars == <<sched, finished, armed, creditCount, stopped, seqno, begun>>

TwoCredits == 2 \* a mistaken credit limit, for the mutation runs
CreditLimit == 1

Places == {"new", "queued", "pending", "timedout", "freed"}

SchedTypeOK ==
  /\ sched \in [Jobs -> Places]
  /\ finished \in [Jobs -> {"no", "ok", "failed"}]
  /\ armed \subseteq Jobs
  /\ creditCount \in Nat
  /\ stopped \in BOOLEAN
  /\ seqno \in [Jobs -> Nat]
  /\ begun \in Nat

SchedInit ==
  /\ sched = [j \in Jobs |-> "new"]
  /\ finished = [j \in Jobs |-> "no"]
  /\ armed = {}
  /\ creditCount = 0
  /\ stopped = FALSE
  /\ seqno = [j \in Jobs |-> 0]
  /\ begun = 0

Pending == {j \in Jobs : sched[j] = "pending"}

Oldest(j) == j \in Pending /\ \A k \in Pending : seqno[j] <= seqno[k]

-----------------------------------------------------------------------------
(* drm_sched_entity_push_job(): the job is runnable.                       *)
Push(j) ==
  /\ sched[j] = "new"
  /\ sched' = [sched EXCEPT ![j] = "queued"]
  /\ UNCHANGED <<finished, armed, creditCount, stopped, seqno, begun>>

(* The run worker takes a job, charges its credit and puts it last on the  *)
(* pending list, just before it calls run_job.                             *)
Begin(j) ==
  /\ ~stopped
  /\ creditCount < CreditLimit
  /\ sched[j] = "queued"
  /\ sched' = [sched EXCEPT ![j] = "pending"]
  /\ begun' = begun + 1
  /\ seqno' = [seqno EXCEPT ![j] = begun']
  /\ creditCount' = creditCount + 1
  /\ UNCHANGED <<finished, armed, stopped>>

(* drm_sched_job_done(): the finished fence is signalled, the credit given *)
(* back.                                                                   *)
JobDone(j, result) ==
  /\ finished' = [finished EXCEPT ![j] = result]
  /\ creditCount' = creditCount - 1
  /\ armed' = armed \ {j}
  /\ UNCHANGED <<sched, stopped, seqno, begun>>

(* run_job returned: the scheduler hooks itself to the fence, or finishes  *)
(* the job at once when the fence has signalled in the meantime.           *)
Hook(j, signaled) ==
  IF signaled
    THEN JobDone(j, "ok")
    ELSE /\ armed' = armed \cup {j}
         /\ UNCHANGED <<sched, finished, creditCount, stopped, seqno, begun>>

(* The free worker: the oldest pending job, once it is finished.           *)
FreeOldest(j) ==
  /\ ~stopped
  /\ Oldest(j)
  /\ finished[j] # "no"
  /\ sched' = [sched EXCEPT ![j] = "freed"]
  /\ UNCHANGED <<finished, armed, creditCount, stopped, seqno, begun>>

(* The timeout work takes the oldest job off the pending list.             *)
TakeOldest(j) ==
  /\ Oldest(j)
  /\ sched' = [sched EXCEPT ![j] = "timedout"]
  /\ UNCHANGED <<finished, armed, creditCount, stopped, seqno, begun>>

(***************************************************************************)
(* drm_sched_stop(sched, bad): put bad back, unhook every job whose fence  *)
(* has not signalled (its credit is given back, it stays pending), and     *)
(* drop the jobs that are finished; the timed-out job itself is only freed *)
(* when its handler has returned.                                          *)
(***************************************************************************)
Stop(bad) ==
  /\ stopped' = TRUE
  /\ sched' = [j \in Jobs |->
                 CASE j \in armed /\ sched[j] = "timedout"    -> "pending"
                   [] j \notin armed /\ sched[j] = "pending"  -> "freed"
                   [] OTHER                                   -> sched[j]]
  /\ creditCount' = IF armed = {} THEN creditCount ELSE creditCount - 1
  /\ armed' = {}
  /\ UNCHANGED <<finished, seqno, begun>>

(* drm_sched_start(sched, 0) and the return of the timeout work: jobs that *)
(* lost their fence are finished with -ECANCELED; bad is freed if it was   *)
(* finished before.                                                        *)
Restart(bad) ==
  /\ stopped' = FALSE
  /\ finished' = [j \in Jobs |-> IF sched[j] = "pending" THEN "failed"
                                                        ELSE finished[j]]
  /\ sched' = [sched EXCEPT ![bad] = IF @ = "timedout" THEN "freed" ELSE @]
  /\ UNCHANGED <<armed, creditCount, seqno, begun>>
=============================================================================
