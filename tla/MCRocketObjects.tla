--------------------------- MODULE MCRocketObjects ---------------------------
(***************************************************************************)
(* Instances of RocketObjects for TLC.  In file f1 the jobs j1 and j2 read *)
(* what the other writes, j3 writes b2 too, and j4 lists b2 as input and   *)
(* output; file f2 has the BO b3 and the job j5, which writes it.          *)
(***************************************************************************)
EXTENDS RocketObjInv

CONSTANTS f1, f2, b1, b2, b3, j1, j2, j3, j4, j5, p1, p2

MCFileOf == [o \in BOs \cup Jobs |-> IF o \in {b3, j5} THEN f2 ELSE f1]
MCInBos ==
  [j \in Jobs |-> CASE j = j1 -> {b1} [] j \in {j2, j4} -> {b2} [] OTHER -> {}]
MCOutBos ==
  [j \in Jobs |-> CASE j \in {j1, j3, j4} -> {b2} [] j = j2 -> {b1} [] OTHER -> {b3}]

(* Sets of faults.                                                         *)
NoFaults == {}
Failures == {"reserve", "alloc", "resume", "attach", "timeout"}
AllFaults == Failures \cup {"bo", "early"}
=============================================================================
