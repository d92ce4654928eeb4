---------------------------- MODULE RocketObjInv ----------------------------
(***************************************************************************)
(* The inductive invariant behind the properties of RocketObjectsProps.    *)
(***************************************************************************)
EXTENDS RocketObjectsProps

(* The types but for the counts of references to domains and BOs.          *)
FileShape ==
  /\ file \in [Files -> {"none", "open", "closing", "closed"}]
  /\ bo \in [BOs -> {"none", "live", "failed", "freed"}]
  /\ handle \subseteq BOs
  /\ cpuOwns \subseteq BOs

JobShape ==
  /\ ioctl \in [Jobs -> {"no", "copy", "lookup", "push", "attach", "cleanup",
                         "put", "oops", "returned"}]
  /\ job \in [Jobs -> {"none", "building", "dropped", "queued", "killed",
                       "running", "done", "failed", "released", "freed"}]
  /\ jobRef \in [Jobs -> Int]
  /\ fence \in [BOs -> Jobs \cup {None}]

CoreShape ==
  /\ queue \in [Files -> Seq(Jobs)]
  /\ rq \in [Files -> Cores]
  /\ running \in [Cores -> Jobs \cup {None}]
  /\ inFlight \in [Cores -> Jobs \cup {None}]
  /\ attached \in [Cores -> Files \cup {None}]

ShapeOK == FileShape /\ JobShape /\ CoreShape

Waiting(j) == job[j] \in {"queued", "killed"}
Unfinished(j) == Waiting(j) \/ job[j] = "running"

(* The references of a job: the ioctl's until it returns, the scheduler's  *)
(* from the push to rocket_job_free().                                     *)
JobsOK ==
  \A j \in Jobs :
    /\ ioctl[j] = "no" => job[j] = "none" /\ jobRef[j] = 0
    /\ ioctl[j] \in {"copy", "lookup", "push", "cleanup", "oops"} =>
         job[j] = "building" /\ jobRef[j] = 1
    /\ ioctl[j] \in {"attach", "put"} =>
         \/ (Unfinished(j) \/ job[j] \in {"done", "failed"}) /\ jobRef[j] = 2
         \/ job[j] = "released" /\ jobRef[j] = 1
    /\ ioctl[j] = "returned" =>
         \/ (Unfinished(j) \/ job[j] \in {"done", "failed"}) /\ jobRef[j] = 1
         \/ job[j] \in {"dropped", "freed"} /\ jobRef[j] = 0

(* Nothing refers to a file that was never opened; the CPU owns BOs of     *)
(* open files only.                                                        *)
FilesOK ==
  /\ \A j \in Jobs : job[j] # "none" => file[FileOf[j]] # "none"
  /\ \A c \in Cores : attached[c] # None => file[attached[c]] # "none"
  /\ \A b \in cpuOwns : file[FileOf[b]] = "open"

BosOK == \A b \in BOs : bo[b] # "none" => file[FileOf[b]] # "none"

(* A file's jobs run on the core its entity is on, and those in flight run *)
(* under its domain.                                                       *)
CoresOK ==
  /\ \A c \in Cores : running[c] # None =>
       /\ job[running[c]] = "running"
       /\ rq[FileOf[running[c]]] = c
  /\ \A c \in Cores : inFlight[c] # None =>
       /\ inFlight[c] = running[c]
       /\ attached[c] = FileOf[inFlight[c]]
  /\ \A j \in Jobs : job[j] = "running" => running[rq[FileOf[j]]] = j

(* The entity of a file holds its waiting jobs, each once.                 *)
QueueOK ==
  /\ \A f \in Files : \A m \in DOMAIN queue[f] :
       /\ FileOf[queue[f][m]] = f /\ Waiting(queue[f][m])
       /\ \A n \in DOMAIN queue[f] : queue[f][m] = queue[f][n] => m = n
  /\ \A j \in Jobs : Waiting(j) => \E m \in DOMAIN queue[FileOf[j]] : queue[FileOf[j]][m] = j

(* Job k waits behind job i of the same file.                              *)
Behind(k, i) ==
  /\ FileOf[k] = FileOf[i] /\ Waiting(k)
  /\ \/ job[i] = "running"
     \/ \E m, n \in DOMAIN queue[FileOf[i]] :
          m < n /\ queue[FileOf[i]][m] = i /\ queue[FileOf[i]][n] = k

Fenced(i) == ioctl[i] \in {"put", "returned"} /\ Unfinished(i)

(* The fence of a BO is that of its unfinished writer or of a job behind   *)
(* it, as a job that is still to leave its fence stays behind those that   *)
(* have left theirs.                                                       *)
FencesOK ==
  /\ \A i \in Jobs : Fenced(i) => \A b \in OutBos[i] :
       /\ fence[b] # None
       /\ fence[b] = i \/ Behind(fence[b], i)
  /\ \A i, k \in Jobs : Fenced(i) /\ ioctl[k] = "attach" /\ Bos(i) \cap Bos(k) # {} =>
       Behind(k, i)
  /\ \A i, k \in Jobs : ioctl[i] = "attach" /\ ioctl[k] = "attach"
                        /\ Bos(i) \cap Bos(k) # {} => i = k

(* The invariant: with it the references match, IoctlHoldsJob, NoConflict, *)
(* CpuOwnsOutput and MappedWhileRunning hold in every state (job.c:362-389, *)
(* 479-503, gem.c:21-46).                                                  *)
ObjInv ==
  /\ ObjTypeOK
  /\ JobsOK /\ FilesOK /\ BosOK /\ CoresOK /\ QueueOK /\ FencesOK
  /\ DomainRefsMatch /\ BoRefsMatch
  /\ CpuOwnsOutput
=============================================================================
