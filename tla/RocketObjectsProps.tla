------------------------- MODULE RocketObjectsProps -------------------------
(***************************************************************************)
(* What must be true of the references among files, BOs and jobs, and of   *)
(* who may touch a BO's memory.                                            *)
(***************************************************************************)
EXTENDS RocketObjects

One(b) == IF b THEN 1 ELSE 0

(* The job has its domain and BOs, until rocket_job_cleanup().             *)
HoldsObjects(j) ==
  \/ job[j] = "building" /\ ioctl[j] \in {"push", "cleanup"}
  \/ job[j] \in {"queued", "killed", "running", "done", "failed", "released"}

(* What holds a reference to the domain of a file.                         *)
BosOf(f, s) == {b \in BOs : FileOf[b] = f /\ bo[b] = s}
HoldersOf(f) == {j \in Jobs : FileOf[j] = f /\ HoldsObjects(j)}
CoresOn(f) == {c \in Cores : attached[c] = f}

DomainUsers(f) ==
    One(file[f] \in {"open", "closing"})
  + Cardinality(BosOf(f, "live")) + Cardinality(HoldersOf(f)) + Cardinality(CoresOn(f))

(* The kref of a domain counts its file, BOs, jobs and the cores it is     *)
(* attached to, through every error path and in any order of their ends;   *)
(* each BO whose creation failed late holds one for ever (gem.c:87-142).   *)
DomainRefsMatch ==
  \A f \in Files : domRef[f] = DomainUsers(f) + Cardinality(BosOf(f, "failed"))

(* The jobs that hold the BO, by one of their lists.                       *)
HoldBo(b, list) == {j \in Jobs : HoldsObjects(j) /\ b \in list[j]}

BoUsers(b) ==
  One(b \in handle) + Cardinality(HoldBo(b, InBos)) + Cardinality(HoldBo(b, OutBos))

(* A BO has a reference for its handle and one for each time a job names it; *)
(* lookups that fail midway may leave more (job.c:893-903), never less.      *)
BoRefsMatch ==
  \A b \in BOs : /\ boRef[b] >= BoUsers(b)
                 /\ "early" \notin Faults => boRef[b] = BoUsers(b)
                 /\ bo[b] = "live" <=> boRef[b] > 0

(* While the NPU has a job in flight, it translates with the domain of the *)
(* job's file and no other, whatever resumes and attaches have failed on   *)
(* the core before; a job that holds the core has its BOs mapped, even if  *)
(* the file is closed meanwhile; an attached domain is never freed ("holds *)
(* a kref so the domain cannot be freed while attached", core.h:49-50;     *)
(* job.c:470-508).                                                         *)
MappedWhileRunning ==
  \A c \in Cores :
    /\ inFlight[c] # None => attached[c] = FileOf[inFlight[c]]
    /\ running[c] # None => \A b \in Bos(running[c]) : bo[b] = "live"
    /\ attached[c] # None => domRef[attached[c]] > 0

(* The scheduler may run, finish and free a job while the ioctl that pushed *)
(* it is still at rocket_attach_object_fences(): the job is there for it    *)
(* (job.c:364, "put by scheduler job completion").                          *)
IoctlHoldsJob ==
  \A j \in Jobs : InIoctl(j) => jobRef[j] > 0 /\ job[j] \notin {"freed", "dropped"}

(* A BO that PREP_BO has given to the CPU is not being written, and is not   *)
(* going to be by a job already accepted, though its dma_resv holds only the *)
(* last writer's fence (accel.h:56, gem.c:162).                              *)
CpuOwnsOutput ==
  \A b \in cpuOwns, j \in Jobs :
    b \in OutBos[j] => job[j] \in {"none", "dropped"} \/ ioctl[j] = "oops" \/ Finished(j)

(* Two cores never run jobs of which one writes a BO the other uses, though *)
(* reads leave no fence (job.c:331-339): a file's jobs follow one another.  *)
NoConflict ==
  \A c, d \in Cores :
    running[c] # None /\ running[d] # None /\ c # d
      => OutBos[running[c]] \cap Bos(running[d]) = {}

(* Once a file is closed, its BOs, its jobs and its domain all go, except  *)
(* for the reference of a core it is still attached to (drv.c:121-131).    *)
FileGivesBackAll ==
  \A f \in Files :
    file[f] = "closed" ~>
      /\ \A b \in BOs : FileOf[b] = f => bo[b] # "live"
      /\ \A j \in Jobs : FileOf[j] = f => job[j] \in {"none", "dropped", "freed"}
      /\ domRef[f] = Cardinality(CoresOn(f))
=============================================================================
