----------------------------- MODULE MCRocketPc -----------------------------
(* Instances of RocketPc for TLC: chains with lookup tables and at the     *)
(* limits of the registers, jobs of single tasks, jobs that are refused,   *)
(* a SUBMIT that cannot be read, and an array of tasks that wraps around   *)
(* (at 2^18 instead of 2^32).                                              *)
EXTENDS RocketPcProps

CONSTANTS c1, c2, l1, l2, empty

MCU32 == 2^18

Arg(a, n, size, desc, bits, lut) ==
  [tasks |-> a, task_count |-> n, task_struct_size |-> size, task_desc_addr |-> desc,
   last_int_mask |-> bits, lut_data |-> lut, lut_count |-> Len(lut)]

(* c2 has one task more than TASK_NUMBER can hold; the elements of l1 are  *)
(* longer than the driver knows them; the third element of l2 wraps to the *)
(* first; empty has a task without commands.                               *)
MCArgs ==
  [j \in Jobs |->
     CASE j = c1    -> Arg(8, 4095, 8, 16, {8}, <<11, 12, 13, 14>>)
       [] j = c2    -> Arg(16, 4096, 8, 32, {10}, <<21, 22, 23, 24>>)
       [] j = l1    -> Arg(0, 2, 16, 0, {}, <<>>)
       [] j = l2    -> Arg(0, 3, MCU32 \div 2, 0, {}, <<>>)
       [] j = empty -> Arg(40000, 1, 8, 0, {}, <<>>)]

(* Command counts that are odd, and that fit by one or not (with a scale   *)
(* of 2).                                                                  *)
Commands(a) ==
  CASE a = 0 -> 131071 [] a = 8 -> 7 [] a = 16 -> 131073 [] a = 40000 -> 0 [] OTHER -> 2
MCUserTasks ==
  [a \in 0 .. MCU32 \div 2 |-> [regcmd |-> a, regcmd_count |-> Commands(a)]]

(* Chain after chain, single tasks after a chain and the other way round.  *)
MCUserJobs == [a \in {0, 100, 200, 1000, 1120, 1240, 2000} |->
  CASE a = 0 -> c1 [] a = 100 -> c2 [] a = 200 -> l1
    [] a = 1000 -> l1 [] a = 1120 -> empty [] a = 1240 -> c1 [] a = 2000 -> l2]
Sub(a, n, size) == [jobs |-> a, job_count |-> n, job_struct_size |-> size, reserved |-> 0]
MCSubmits == {Sub(0, 3, 100), Sub(1000, 3, 120), Sub(2000, 1, 100), Sub(2000, 2, 100)}
=============================================================================
