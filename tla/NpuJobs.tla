------------------------------- MODULE NpuJobs -------------------------------
(***************************************************************************)
(* What a core of the NPU promises its clients, without workers,           *)
(* interrupts, resets or power: an accepted job waits, is served alone,    *)
(* has its tasks done one after the other, and ends once, either complete  *)
(* or cancelled ("All tasks in the same job will be executed sequentially  *)
(* on the same core", rocket_accel.h).  RocketJobProps maps RocketJob to   *)
(* it.                                                                     *)
(***************************************************************************)
EXTENDS Integers

CONSTANTS
  Jobs,
  Tasks      \* [Jobs -> Nat]: how many tasks a job asks for

VARIABLES
  status,    \* [Jobs -> "new", "waiting", "served", "ok" or "failed"]
  work       \* [Jobs -> tasks done]

jobVars == <<status, work>>

Init ==
  /\ status = [j \in Jobs |-> "new"]
  /\ work = [j \in Jobs |-> 0]

To(j, s) == status' = [status EXCEPT ![j] = s]

Accept(j) == status[j] = "new" /\ To(j, "waiting") /\ UNCHANGED work

(* One job at a time.                                                      *)
Serve(j) ==
  /\ status[j] = "waiting"
  /\ \A k \in Jobs : status[k] # "served"
  /\ To(j, "served")
  /\ UNCHANGED work

Work(j) ==
  /\ status[j] = "served"
  /\ work[j] < Tasks[j]
  /\ work' = [work EXCEPT ![j] = @ + 1]
  /\ UNCHANGED status

Complete(j) ==
  /\ status[j] = "served"
  /\ work[j] = Tasks[j]
  /\ To(j, "ok")
  /\ UNCHANGED work

Cancel(j) == status[j] = "served" /\ To(j, "failed") /\ UNCHANGED work

Next ==
  \E j \in Jobs : Accept(j) \/ Serve(j) \/ Work(j) \/ Complete(j) \/ Cancel(j)

Spec == Init /\ [][Next]_jobVars
=============================================================================
