---------------------------- MODULE MCRocketJob -----------------------------
(***************************************************************************)
(* Instances of RocketJob for TLC.  The chained jobs c1 and c2 belong to   *)
(* files with domains d1 and d2 and want different lookup tables; c3 is    *)
(* like c2, with one task; the legacy job l1 is of the first file, l2 of   *)
(* the second and brings tables.                                           *)
(***************************************************************************)
EXTENDS RocketJobClaims

CONSTANTS c1, c2, c3, l1, l2, d1, d2, t1, t2

MCChained == {c1, c2, c3} \cap Jobs
MCTaskCount == [j \in Jobs |-> IF j \in {c2, l1} THEN 2 ELSE 1]
MCDomainOf == [j \in Jobs |-> IF j \in {c1, l1} THEN d1 ELSE d2]
MCLutOf ==
  [j \in Jobs |-> CASE j = c1 -> t1 [] j \in {c2, c3, l2} -> t2 [] OTHER -> None]

(* Sets of faults.                                                         *)
NoFaults == {}
Hangs == {"timeout", "iommu_irq"}
NoSpurious == {"timeout", "resume", "attach", "alloc"}
Timeouts == {"timeout"}
AllFaults == {"timeout", "iommu_irq", "resume", "attach", "alloc"}
=============================================================================
