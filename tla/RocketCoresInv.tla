--------------------------- MODULE RocketCoresInv ---------------------------
(***************************************************************************)
(* The inductive invariant behind the properties of RocketCoresProps, for  *)
(* cores that are removed with the module.                                 *)
(***************************************************************************)
EXTENDS RocketCoresProps

(* The element of cores[] that the bind or unbind under way works on: the  *)
(* first free one, or that of the core bound last.                         *)
Here == IF cur \in Bound THEN Len(bound) - 1 ELSE Len(bound)

BeforeCount == {"idle", "slot", "count", "oops"}
BeforeSched == BeforeCount \cup {"init", "job"}
Fini == {"detach", "supply", "disable", "fini"}

(* The elements counted are those of the bound cores, in the order they    *)
(* were bound, and from ProbeCount to ProbeFailed the one being probed.    *)
FlowOK ==
  /\ IF pc = "idle" THEN cur = None ELSE cur \in Devs
  /\ pc \notin {"idle", "slot", "oops"} => core = Here /\ dev[Here] = cur
  /\ cur \in Bound => /\ pc \in Fini \cup {"removed"}
                      /\ cur = NextToUnbind /\ unloading
  /\ unloading /\ pc # "idle" => cur \in Bound
  /\ pc = "removed" => cur \in Bound
  /\ numCores = IF pc \in BeforeCount \/ cur \in Bound THEN Len(bound) ELSE Len(bound) + 1
  /\ \A i \in DOMAIN bound : dev[i - 1] = bound[i]
  /\ \A i, k \in DOMAIN bound : bound[i] = bound[k] => i = k

DeviceOK ==
  /\ registered <=> rdev = "live"
  /\ IF pc \in {"idle", "oops"} THEN rdev = "live" <=> bound # <<>> ELSE rdev = "live"

(* What runtime PM is while its device is bound, probed or removed.        *)
PmOf(d) ==
  CASE d # cur -> IF d \in Bound THEN {"suspended", "active"} ELSE {"off"}
    [] d = cur /\ pc = "resume" -> {"suspended", "active"}
    [] d = cur /\ pc = "reset" -> {"active"}
    [] d = cur /\ pc \in {"detach", "supply", "disable"} ->
         IF d \in Bound THEN {"suspended", "active"} ELSE {"error"}
    [] OTHER -> {"off"}

Supplied(d) ==
  IF d = cur THEN pc \in {"job", "pm", "resume", "reset", "detach", "supply"} ELSE d \in Bound

PowerOK ==
  \A d \in Devs :
    /\ pm[d] \in PmOf(d)
    /\ Supplied(d) => supply[d] > 0
    /\ d \notin failed => supply[d] = IF Supplied(d) THEN 1 ELSE 0

(* The schedulers that are ready, and the cores that have all their parts. *)
InProgress(s) == pc \notin BeforeCount /\ s = Here
Ready(s) == IF InProgress(s) THEN pc \in {"pm", "resume", "reset"} \cup Fini ELSE s < Len(bound)
Whole(s) ==
  IF InProgress(s) THEN pc \in {"job", "pm", "resume", "reset", "detach"} ELSE s < Len(bound)

PartsOK ==
  \A s \in Slots : /\ sched[s] = "ready" <=> Ready(s)
                   /\ Whole(s) => parts[s] = {"regs", "group"}

(* A job on the hardware keeps its core up, and so does a hard handler,    *)
(* unless the removal of the module catches them.                          *)
RunningOK ==
  \A s \in Slots : running[s] # None =>
    \/ Caught(dev[s])
    \/ attached[s] = running[s] /\ Ready(s) /\ pm[dev[s]] = "active"

HandlingOK == \A d \in handling : pm[d] = "active" \/ Caught(d)

(* Once the module is being removed, nothing wakes a suspended core.       *)
UnloadOK ==
  /\ hasty => unloading
  /\ unloading => \A f \in Files : entity[f] = None
  /\ unloading /\ ~hasty => \A d \in Devs : pm[d] # "active"

UsersOK == RunningOK /\ HandlingOK /\ UnloadOK /\ "run" \notin oops

(* With it the properties hold in every state (drv.c:161-249,              *)
(* core.c:30-214).                                                         *)
CoresInv ==
  CoresTypeOK /\ (Orderly => FlowOK /\ DeviceOK /\ PowerOK /\ PartsOK /\ UsersOK)
=============================================================================
