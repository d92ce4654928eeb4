-------------------------- MODULE RocketJobClaims ---------------------------
(***************************************************************************)
(* What comments and headers of the repository say of job execution and    *)
(* the code does not do.  Each is refuted by a run of its own.             *)
(***************************************************************************)
EXTENDS RocketJobInv

(* job.c:661-663: the NPU's registers are never touched while it is        *)
(* runtime-suspended; stated for every flow that reads or writes them.     *)
RegistersOnlyWhenPowered ==
  thrPc \in {"ack", "quiesce"} \/ irqPc = "act" \/ tdrPc = "reset" => powered
=============================================================================
