--------------------------- MODULE RocketObjects ---------------------------
(***************************************************************************)
(* What userspace holds and the kernel must give back: files with their    *)
(* IOMMU domain, buffer objects, jobs, and the references among them, from *)
(* open to postclose, across the submit ioctl and its error paths, and     *)
(* with jobs that outlive the file that pushed them.  How a job executes   *)
(* is RocketJob; here it is queued, on a core and finished.                *)
(***************************************************************************)
EXTENDS Integers, FiniteSets, Sequences

CONSTANTS
  Files, BOs, Jobs,
  Cores,        \* the rocket_cores, each with its scheduler
  None,
  FileOf,       \* [BOs \cup Jobs -> Files]
  InBos,        \* [Jobs -> SUBSET BOs]: in_bo_handles
  OutBos,       \* [Jobs -> SUBSET BOs]: out_bo_handles
  Faults        \* part of the set of FaultAssumption

(* BOs and their addresses are private to a file ("private to the DRM fd", *)
(* rocket_accel.h), so no job uses another file's.                         *)
ASSUME ObjectAssumption ==
  /\ IsFiniteSet(BOs) /\ IsFiniteSet(Jobs) /\ IsFiniteSet(Cores)
  /\ None \notin Files \cup Jobs
  /\ FileOf \in [BOs \cup Jobs -> Files]
  /\ InBos \in [Jobs -> SUBSET BOs] /\ OutBos \in [Jobs -> SUBSET BOs]
  /\ \A j \in Jobs : \A b \in InBos[j] \cup OutBos[j] : FileOf[b] = FileOf[j]

(***************************************************************************)
(* bo       creating a BO may fail once its domain reference is taken      *)
(* early    submit may fail before the job's domain reference is taken,    *)
(*          as when a handle it names is not there                         *)
(* reserve  reserving a fence slot may fail                                *)
(* alloc, resume, attach   rocket_job_run() may fail to make its fence, to *)
(*          resume the core, to attach the job's domain                    *)
(* timeout  a job on the hardware may be cancelled by the timeout handler  *)
(***************************************************************************)
ASSUME FaultAssumption ==
  Faults \subseteq {"bo", "early", "reserve", "alloc", "resume", "attach", "timeout"}

VARIABLES
  file,       \* [Files -> "none", "open", "closing", "closed"]
  domRef,     \* [Files -> kref of the file's rocket_iommu_domain]
  bo,         \* [BOs -> "none", "live", "failed", "freed"]
  boRef,      \* [BOs -> refcount of the GEM object]
  handle,     \* BOs with a handle in their file
  ioctl,      \* [Jobs -> where the submit ioctl is with the job]
  job,        \* [Jobs -> what has become of the rocket_job]
  jobRef,     \* [Jobs -> kref of the rocket_job]
  fence,      \* [BOs -> job whose finished fence the dma_resv holds, or None]
  queue,      \* [Files -> jobs in the file's sched_entity]
  rq,         \* [Files -> core whose run queue the entity is on]
  running,    \* [Cores -> job that has the scheduler's credit, or None]
  inFlight,   \* [Cores -> core->in_flight_job, the job on the NPU, or None]
  attached,   \* [Cores -> file whose domain is core->attached_domain, or None]
  cpuOwns     \* BOs userspace has prepared and not finished with

boVars   == <<bo, boRef, handle>>
jobVars  == <<ioctl, job, jobRef, fence>>
coreVars == <<queue, rq, running, inFlight, attached>>
vars == <<file, domRef, boVars, jobVars, coreVars, cpuOwns>>

Bos(j) == InBos[j] \cup OutBos[j]

(* A BO in both lists is looked up twice.                                  *)
Uses(j, b) == (IF b \in InBos[j] THEN 1 ELSE 0) + (IF b \in OutBos[j] THEN 1 ELSE 0)

InIoctl(j) == ioctl[j] \notin {"no", "oops", "returned"}

(* The finished fence of the job has signalled, with or without an error.  *)
Finished(j) == job[j] \in {"done", "failed", "released", "freed"}

ObjTypeOK ==
  /\ file \in [Files -> {"none", "open", "closing", "closed"}]
  /\ domRef \in [Files -> Nat]
  /\ bo \in [BOs -> {"none", "live", "failed", "freed"}]
  /\ boRef \in [BOs -> Nat]
  /\ handle \subseteq BOs
  /\ ioctl \in [Jobs -> {"no", "copy", "lookup", "push", "attach", "cleanup",
                         "put", "oops", "returned"}]
  /\ job \in [Jobs -> {"none", "building", "dropped", "queued", "killed",
                       "running", "done", "failed", "released", "freed"}]
  /\ jobRef \in [Jobs -> Nat]
  /\ fence \in [BOs -> Jobs \cup {None}]
  /\ queue \in [Files -> Seq(Jobs)]
  /\ rq \in [Files -> Cores]
  /\ running \in [Cores -> Jobs \cup {None}]
  /\ inFlight \in [Cores -> Jobs \cup {None}]
  /\ attached \in [Cores -> Files \cup {None}]
  /\ cpuOwns \subseteq BOs

Init ==
  /\ file = [f \in Files |-> "none"]
  /\ domRef = [f \in Files |-> 0]
  /\ bo = [b \in BOs |-> "none"]
  /\ boRef = [b \in BOs |-> 0]
  /\ handle = {}
  /\ ioctl = [j \in Jobs |-> "no"]
  /\ job = [j \in Jobs |-> "none"]
  /\ jobRef = [j \in Jobs |-> 0]
  /\ fence = [b \in BOs |-> None]
  /\ queue = [f \in Files |-> <<>>]
  /\ \E c \in Cores : rq = [f \in Files |-> c]
  /\ running = [c \in Cores |-> None]
  /\ inFlight = [c \in Cores |-> None]
  /\ attached = [c \in Cores |-> None]
  /\ cpuOwns = {}

-----------------------------------------------------------------------------
(***************************************************************************)
(* Dropping references: drops[b] of each BO, and d of file f's domain.  A  *)
(* BO whose last reference goes is freed by rocket_gem_bo_free(), which    *)
(* unmaps it and puts the BO's own domain reference.                       *)
(***************************************************************************)
DyingBos(drops) == {b \in BOs : drops[b] > 0 /\ boRef[b] = drops[b]}

FreedBosDomainRefs(drops) == Cardinality(DyingBos(drops))

Release(f, d, drops) ==
  /\ boRef' = [b \in BOs |-> boRef[b] - drops[b]]
  /\ bo' = [b \in BOs |-> IF b \in DyingBos(drops) THEN "freed" ELSE bo[b]]
  /\ domRef' = [domRef EXCEPT ![f] = @ - d - FreedBosDomainRefs(drops)]

(* rocket_job_cleanup(): the domain's reference and those of the BOs.      *)
CleanupInputs(j) == \* Mutant: the references to the outputs are kept
  Release(FileOf[j], 1, [b \in BOs |-> IF b \in InBos[j] THEN 1 ELSE 0])
CleanupOutputsTwice(j) == \* Mutant: both loops go over the outputs
  Release(FileOf[j], 1, [b \in BOs |-> IF b \in OutBos[j] THEN 2 ELSE 0])
JobCleanup(j) == Release(FileOf[j], 1, [b \in BOs |-> Uses(j, b)])

(* rocket_job_put(): the job's state is then last, or s if it has users.   *)
JobPut(j, last, s) ==
  /\ jobRef' = [jobRef EXCEPT ![j] = @ - 1]
  /\ IF jobRef[j] = 1
       THEN JobCleanup(j) /\ job' = [job EXCEPT ![j] = last]
       ELSE UNCHANGED <<bo, boRef, domRef>> /\ job' = [job EXCEPT ![j] = s]

-----------------------------------------------------------------------------
(* rocket_open(): its failures leave nothing behind and are left out.      *)
Open(f) ==
  /\ file[f] = "none"
  /\ file' = [file EXCEPT ![f] = "open"]
  /\ domRef' = [domRef EXCEPT ![f] = 1]
  /\ UNCHANGED <<boVars, jobVars, coreVars, cpuOwns>>

(***************************************************************************)
(* rocket_ioctl_create_bo().  The failures behind the point where the      *)
(* domain reference is taken free the object without putting it.           *)
(***************************************************************************)
CreateBo(b) ==
  /\ file[FileOf[b]] = "open" /\ bo[b] = "none"
  /\ domRef' = [domRef EXCEPT ![FileOf[b]] = @ + 1]
  /\ \/ /\ bo' = [bo EXCEPT ![b] = "live"]
        /\ boRef' = [boRef EXCEPT ![b] = 1]
        /\ handle' = handle \cup {b}
     \/ /\ "bo" \in Faults
        /\ bo' = [bo EXCEPT ![b] = "failed"]
        /\ UNCHANGED <<boRef, handle>>
  /\ UNCHANGED <<file, jobVars, coreVars, cpuOwns>>

(***************************************************************************)
(* DRM_IOCTL_GEM_CLOSE drops the handle's reference.  Userspace does not   *)
(* close what it is passing to a submit, unless submits may fail.          *)
(***************************************************************************)
CloseHandle(b) ==
  /\ file[FileOf[b]] = "open" /\ b \in handle
  /\ "early" \in Faults \/ \A j \in Jobs : b \in Bos(j) => ~InIoctl(j)
  /\ handle' = handle \ {b}
  /\ Release(FileOf[b], 0, [x \in BOs |-> IF x = b THEN 1 ELSE 0])
  /\ cpuOwns' = cpuOwns \ {b}
  /\ UNCHANGED <<file, jobVars, coreVars>>

(***************************************************************************)
(* rocket_ioctl_prep_bo() waits for the write fence of the BO, whatever    *)
(* its outcome, and hands the BO to the CPU.  Userspace asks once the      *)
(* submit ioctls of the BO's jobs have returned.                           *)
(***************************************************************************)
PrepReady(b) == fence[b] # None => Finished(fence[b])

PrepBo(b) ==
  /\ file[FileOf[b]] = "open" /\ b \in handle \ cpuOwns
  /\ \A j \in Jobs : b \in Bos(j) => ~InIoctl(j)
  /\ PrepReady(b)
  /\ cpuOwns' = cpuOwns \cup {b}
  /\ UNCHANGED <<file, domRef, boVars, jobVars, coreVars>>

(* rocket_ioctl_fini_bo() gives it back to the NPU.                        *)
FiniBo(b) ==
  /\ file[FileOf[b]] = "open" /\ b \in handle \cap cpuOwns
  /\ cpuOwns' = cpuOwns \ {b}
  /\ UNCHANGED <<file, domRef, boVars, jobVars, coreVars>>

-----------------------------------------------------------------------------
(* rocket_ioctl_submit_job(), one job per ioctl.                           *)
Go(j, pc) == ioctl' = [ioctl EXCEPT ![j] = pc]

(* The job is allocated; userspace has finished with its BOs.              *)
SubmitBegin(j) ==
  /\ file[FileOf[j]] = "open" /\ ioctl[j] = "no"
  /\ Bos(j) \cap cpuOwns = {}
  /\ "early" \in Faults \/ Bos(j) \subseteq handle
  /\ jobRef' = [jobRef EXCEPT ![j] = 1]
  /\ job' = [job EXCEPT ![j] = "building"]
  /\ Go(j, "copy")
  /\ UNCHANGED <<file, domRef, boVars, fence, coreVars, cpuOwns>>

(****************************************************************************)
(* drm_sched_job_init(), the lookup tables, rocket_copy_tasks().  A failure *)
(* here, or of the lookups, puts the job before it has a domain:            *)
(* rocket_iommu_domain_put(NULL) stops the caller there.                    *)
(****************************************************************************)
SubmitCopy(j) ==
  /\ ioctl[j] = "copy"
  /\ Go(j, "lookup") \/ ("early" \in Faults /\ Go(j, "oops"))
  /\ UNCHANGED <<file, domRef, boVars, job, jobRef, fence, coreVars, cpuOwns>>

(* The BOs looked up before one that is missing keep their reference.      *)
LookupFails(j) ==
  /\ "early" \in Faults
  /\ \E ins \in SUBSET (InBos[j] \cap handle), outs \in SUBSET (OutBos[j] \cap handle) :
       /\ (ins = InBos[j] /\ outs # OutBos[j]) \/ outs = {}
       /\ boRef' = [b \in BOs |-> boRef[b] + (IF b \in ins THEN 1 ELSE 0)
                                            + (IF b \in outs THEN 1 ELSE 0)]
  /\ Go(j, "oops")
  /\ UNCHANGED domRef

(* Both lists of handles are looked up, then the domain reference taken.   *)
SubmitLookup(j) ==
  /\ ioctl[j] = "lookup"
  /\ IF Bos(j) \subseteq handle
       THEN /\ boRef' = [b \in BOs |-> boRef[b] + Uses(j, b)]
            /\ domRef' = [domRef EXCEPT ![FileOf[j]] = @ + 1]
            /\ Go(j, "push")
       ELSE LookupFails(j)
  /\ UNCHANGED <<file, bo, handle, job, jobRef, fence, coreVars, cpuOwns>>

(* A BO in both lists cannot be locked twice.                              *)
LockFails(j) == InBos[j] \cap OutBos[j] # {}

(* rocket_acquire_object_fences(): no room for a fence, or no memory for   *)
(* the dependency on a writer.                                             *)
AcquireFails == "reserve" \in Faults

(* Another submit holds the reservation of one of the BOs.                 *)
NeverLocked(j) == FALSE \* Mutant: the BOs are unlocked before the fence is attached
Locked(j) == \E k \in Jobs : ioctl[k] = "attach" /\ Bos(j) \cap Bos(k) # {}

(* drm_sched_entity_select_rq(): an entity moves when it has no job left.  *)
MayMove(f) == /\ queue[f] = <<>>
              /\ \A c \in Cores : running[c] # None => FileOf[running[c]] # f

(* rocket_job_open() gives each file one entity over all cores: its next   *)
(* job goes to any of them, or follows those still queued or running.      *)
EntityPerCore(f) == Cores \* Mutant: an entity for each core
EntityCores(f) == IF MayMove(f) THEN Cores ELSE {rq[f]}

PushTakesNoRef(r) == r \* Mutant: kref_get() forgotten
PushRef(r) == r + 1

(***************************************************************************)
(* rocket_job_push() up to the push.  Its implicit dependencies are the    *)
(* writers of its BOs, jobs of the same entity, which the scheduler runs   *)
(* in order anyway.  The scheduler gets a reference of its own.            *)
(***************************************************************************)
SubmitPush(j) ==
  /\ ioctl[j] = "push" /\ ~Locked(j)
  /\ \/ /\ ~LockFails(j)
        /\ \E c \in EntityCores(FileOf[j]) : rq' = [rq EXCEPT ![FileOf[j]] = c]
        /\ queue' = [queue EXCEPT ![FileOf[j]] = Append(@, j)]
        /\ jobRef' = [jobRef EXCEPT ![j] = PushRef(@)]
        /\ job' = [job EXCEPT ![j] = "queued"]
        /\ Go(j, "attach")
     \/ /\ LockFails(j) \/ AcquireFails
        /\ Go(j, "cleanup")
        /\ UNCHANGED <<queue, rq, jobRef, job>>
  /\ UNCHANGED <<file, domRef, boVars, fence, running, inFlight, attached, cpuOwns>>

FenceInputs(j) == InBos[j] \* Mutant: the wrong list of BOs
FencedBos(j) == OutBos[j]

(* rocket_attach_object_fences(): the outputs get the job's fence, which   *)
(* replaces that of an earlier job of the entity.                          *)
SubmitAttach(j) ==
  /\ ioctl[j] = "attach"
  /\ fence' = [b \in BOs |-> IF b \in FencedBos(j) THEN j ELSE fence[b]]
  /\ Go(j, "put")
  /\ UNCHANGED <<file, domRef, boVars, job, jobRef, coreVars, cpuOwns>>

(* out_put_job, with or without out_cleanup_job.  rocket_ioctl_submit()    *)
(* ignores the error of a job and returns 0.                               *)
SubmitReturn(j) ==
  /\ ioctl[j] \in {"cleanup", "put"}
  /\ JobPut(j, IF ioctl[j] = "cleanup" THEN "dropped" ELSE "freed", job[j])
  /\ Go(j, "returned")
  /\ UNCHANGED <<file, handle, fence, coreVars, cpuOwns>>

-----------------------------------------------------------------------------
(***************************************************************************)
(* rocket_job_run(): the scheduler gives a core one job at a time.  The    *)
(* core keeps the domain of the job before, with a reference; another one  *)
(* is put, and the job's own attached with a reference instead.            *)
(***************************************************************************)
AttachOnlyFirst(c, f) == attached[c] = None \* Mutant
NeedsAttach(c, f) == attached[c] # f

AttachRefs(c, f) ==
  domRef' = [g \in Files |-> CASE g = f           -> domRef[g] + 1
                              [] g = attached[c] -> domRef[g] - 1
                              [] OTHER           -> domRef[g]]

(* The domain is attached, and the job becomes core->in_flight_job.        *)
RunStarts(c, j) ==
  LET f == FileOf[j] IN
  /\ running' = [running EXCEPT ![c] = j]
  /\ inFlight' = [inFlight EXCEPT ![c] = j]
  /\ job' = [job EXCEPT ![j] = "running"]
  /\ IF NeedsAttach(c, f)
       THEN attached' = [attached EXCEPT ![c] = f] /\ AttachRefs(c, f)
       ELSE UNCHANGED <<attached, domRef>>

(* An attach that fails comes after the other domain is detached and put.  *)
PutAttached(c) ==
  domRef' = [g \in Files |-> IF g = attached[c] THEN domRef[g] - 1 ELSE domRef[g]]
StaleAfterFailure(c) == \* Mutant: attached_domain is not set to NULL
  PutAttached(c) /\ UNCHANGED attached
AttachFails(c) ==
  PutAttached(c) /\ attached' = [attached EXCEPT ![c] = None]

(* A failed resume or attach returns the fence all the same: the job holds *)
(* the core, but is not in flight.                                         *)
RunGivesUp(c, j) ==
  /\ running' = [running EXCEPT ![c] = j]
  /\ job' = [job EXCEPT ![j] = "running"]
  /\ \/ "resume" \in Faults /\ UNCHANGED <<attached, domRef>>
     \/ "attach" \in Faults /\ NeedsAttach(c, FileOf[j]) /\ AttachFails(c)
  /\ UNCHANGED inFlight

(* Without a fence the scheduler finishes the job at once.                 *)
RunNoFence(j) ==
  /\ "alloc" \in Faults
  /\ job' = [job EXCEPT ![j] = "failed"]
  /\ UNCHANGED <<running, inFlight, attached, domRef>>

RunJob(c, j) ==
  LET f == FileOf[j] IN
  /\ rq[f] = c /\ running[c] = None
  /\ queue[f] # <<>> /\ Head(queue[f]) = j /\ job[j] = "queued"
  /\ queue' = [queue EXCEPT ![f] = Tail(@)]
  /\ RunStarts(c, j) \/ RunGivesUp(c, j) \/ RunNoFence(j)
  /\ UNCHANGED <<file, boVars, ioctl, jobRef, fence, rq, cpuOwns>>

(* The finished fence signals: with success if the NPU has done the job,   *)
(* with an error after a timeout, which is all that ends one that was not  *)
(* started.                                                                *)
FinishJob(c, j) ==
  /\ running[c] = j
  /\ running' = [running EXCEPT ![c] = None]
  /\ inFlight' = [inFlight EXCEPT ![c] = None]
  /\ \/ inFlight[c] = j /\ job' = [job EXCEPT ![j] = "done"]
     \/ /\ inFlight[c] # j \/ "timeout" \in Faults
        /\ job' = [job EXCEPT ![j] = "failed"]
  /\ UNCHANGED <<file, domRef, boVars, ioctl, jobRef, fence, queue, rq, attached, cpuOwns>>

(* A job killed with its entity finishes after those before it.            *)
BuryJob(j) ==
  LET f == FileOf[j] IN
  /\ job[j] = "killed" /\ queue[f] # <<>> /\ Head(queue[f]) = j
  /\ \A c \in Cores : running[c] # None => FileOf[running[c]] # f
  /\ queue' = [queue EXCEPT ![f] = Tail(@)]
  /\ job' = [job EXCEPT ![j] = "failed"]
  /\ UNCHANGED <<file, domRef, boVars, ioctl, jobRef, fence, rq, running, inFlight, attached,
                 cpuOwns>>

(* rocket_job_free(): the scheduler is done with the job.                  *)
FreeJob(j) ==
  /\ job[j] \in {"done", "failed"}
  /\ JobPut(j, "freed", "released")
  /\ UNCHANGED <<file, handle, ioctl, fence, coreVars, cpuOwns>>

-----------------------------------------------------------------------------
(* The last close of a file: no ioctl of it is running any more.  The DRM  *)
(* core closes its handles before it calls rocket_postclose().             *)
Closing(f) ==
  /\ file[f] = "open"
  /\ \A j \in Jobs : FileOf[j] = f => ~InIoctl(j)
  /\ file' = [file EXCEPT ![f] = "closing"]
  /\ handle' = {b \in handle : FileOf[b] # f}
  /\ cpuOwns' = {b \in cpuOwns : FileOf[b] # f}
  /\ Release(f, 0, [b \in BOs |-> IF b \in handle /\ FileOf[b] = f THEN 1 ELSE 0])
  /\ UNCHANGED <<jobVars, coreVars>>

(* rocket_job_close() kills what the entity still queues; then the domain  *)
(* is put and rocket_priv freed.  A running job goes on.                   *)
Postclose(f) ==
  /\ file[f] = "closing"
  /\ file' = [file EXCEPT ![f] = "closed"]
  /\ job' = [j \in Jobs |-> IF FileOf[j] = f /\ job[j] = "queued" THEN "killed"
                                                                 ELSE job[j]]
  /\ domRef' = [domRef EXCEPT ![f] = @ - 1]
  /\ UNCHANGED <<boVars, ioctl, jobRef, fence, coreVars, cpuOwns>>

Next ==
  \/ \E f \in Files : Open(f) \/ Closing(f) \/ Postclose(f)
  \/ \E b \in BOs : CreateBo(b) \/ CloseHandle(b) \/ PrepBo(b) \/ FiniBo(b)
  \/ \E j \in Jobs : \/ SubmitBegin(j) \/ SubmitCopy(j) \/ SubmitLookup(j)
                     \/ SubmitPush(j) \/ SubmitAttach(j) \/ SubmitReturn(j)
                     \/ \E c \in Cores : RunJob(c, j) \/ FinishJob(c, j)
                     \/ BuryJob(j) \/ FreeJob(j)

Spec == Init /\ [][Next]_vars

(* Ioctls go on, cores take jobs and finish them or let them time out, the *)
(* scheduler frees them.                                                   *)
FairSpec ==
  /\ Spec
  /\ \A j \in Jobs :
       /\ WF_vars(SubmitCopy(j)) /\ WF_vars(SubmitLookup(j)) /\ WF_vars(SubmitPush(j))
       /\ WF_vars(SubmitAttach(j)) /\ WF_vars(SubmitReturn(j))
       /\ \A c \in Cores : SF_vars(RunJob(c, j)) /\ WF_vars(FinishJob(c, j))
       /\ WF_vars(BuryJob(j)) /\ WF_vars(FreeJob(j))
  /\ \A f \in Files : WF_vars(Postclose(f))
=============================================================================
