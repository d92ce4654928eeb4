--------------------------- MODULE RocketObjOrder ---------------------------
(***************************************************************************)
(* Proofs about RocketObjects, for every set of files, BOs, jobs and       *)
(* cores, whatever lists the jobs name and whatever fails: the order of a  *)
(* file's jobs, the fences they leave and who may touch a BO.  What does   *)
(* not rest on the counts of references is here.                           *)
(***************************************************************************)
EXTENDS RocketObjInv, TLAPS

USE ObjectAssumption DEF boVars, jobVars, coreVars

(* What is proved here by induction.                                       *)
OrderInv == ShapeOK /\ JobsOK /\ FilesOK /\ CoresOK /\ QueueOK /\ FencesOK /\ CpuOwnsOutput

(* A job put once more becomes what it is told, by its last reference or   *)
(* another.                                                                *)
LEMMA PutStep ==
  ASSUME ShapeOK, NEW j \in Jobs, NEW last, NEW s, JobPut(j, last, s)
  PROVE  /\ jobRef' = [jobRef EXCEPT ![j] = @ - 1]
         /\ job' = [job EXCEPT ![j] = IF jobRef[j] = 1 THEN last ELSE s]
         /\ bo' \in [BOs -> {"none", "live", "failed", "freed"}]
<1>1. CASE jobRef[j] = 1
  <2>1. bo' = [b \in BOs |-> IF b \in DyingBos([c \in BOs |-> Uses(j, c)])
                              THEN "freed" ELSE bo[b]]
    BY <1>1 DEF JobPut, JobCleanup, Release
  <2> QED BY <1>1, <2>1 DEF JobPut, ShapeOK, FileShape
<1>2. CASE jobRef[j] # 1
  BY <1>2 DEF JobPut, ShapeOK, FileShape
<1> QED BY <1>1, <1>2

(* What a push does to the queue.                                          *)
LEMMA PushStep ==
  ASSUME ShapeOK, NEW j \in Jobs, SubmitPush(j)
  PROVE  \/ /\ ~LockFails(j) /\ ~Locked(j)
            /\ \E c \in EntityCores(FileOf[j]) : rq' = [rq EXCEPT ![FileOf[j]] = c]
            /\ queue' = [queue EXCEPT ![FileOf[j]] = Append(@, j)]
            /\ queue' \in [Files -> Seq(Jobs)]
            /\ rq' \in [Files -> Cores]
            /\ jobRef' = [jobRef EXCEPT ![j] = @ + 1]
            /\ job' = [job EXCEPT ![j] = "queued"]
            /\ ioctl' = [ioctl EXCEPT ![j] = "attach"]
         \/ /\ ioctl' = [ioctl EXCEPT ![j] = "cleanup"]
            /\ UNCHANGED <<queue, rq, jobRef, job>>
<1>1. FileOf[j] \in Files
  OBVIOUS
<1>2. \A c \in EntityCores(FileOf[j]) : c \in Cores
  BY <1>1 DEF EntityCores, ShapeOK, CoreShape
<1>3. Append(queue[FileOf[j]], j) \in Seq(Jobs)
  BY <1>1 DEF ShapeOK, CoreShape
<1>4. CASE ioctl' = [ioctl EXCEPT ![j] = "cleanup"] /\ UNCHANGED <<queue, rq, jobRef, job>>
  BY <1>4
<1>5. ASSUME ~LockFails(j), NEW c \in EntityCores(FileOf[j]),
             rq' = [rq EXCEPT ![FileOf[j]] = c],
             queue' = [queue EXCEPT ![FileOf[j]] = Append(@, j)]
      PROVE  queue' \in [Files -> Seq(Jobs)] /\ rq' \in [Files -> Cores]
  BY <1>1, <1>2, <1>3, <1>5 DEF ShapeOK, CoreShape
<1> QED BY <1>4, <1>5 DEF SubmitPush, Go, PushRef

(* What rocket_job_run() does: the job starts, or holds the core without     *)
(* being in flight, or is finished at once.                                 *)
LEMMA RunFacts ==
  ASSUME ShapeOK, NEW j \in Jobs, NEW c \in Cores, RunJob(c, j)
  PROVE  /\ rq[FileOf[j]] = c /\ running[c] = None
         /\ queue[FileOf[j]] # <<>> /\ Head(queue[FileOf[j]]) = j /\ job[j] = "queued"
         /\ queue' = [queue EXCEPT ![FileOf[j]] = Tail(@)]
         /\ UNCHANGED <<file, boVars, ioctl, jobRef, fence, rq, cpuOwns>>
         /\ \E a \in {attached[c], FileOf[j], None} :
              /\ attached' = [attached EXCEPT ![c] = a]
              /\ \/ /\ running' = [running EXCEPT ![c] = j]
                    /\ job' = [job EXCEPT ![j] = "running"]
                    /\ \/ a = FileOf[j] /\ inFlight' = [inFlight EXCEPT ![c] = j]
                       \/ UNCHANGED inFlight
                 \/ /\ UNCHANGED <<running, inFlight, attached>>
                    /\ job' = [job EXCEPT ![j] = "failed"]
<1>1. /\ rq[FileOf[j]] = c /\ running[c] = None
      /\ queue[FileOf[j]] # <<>> /\ Head(queue[FileOf[j]]) = j /\ job[j] = "queued"
      /\ queue' = [queue EXCEPT ![FileOf[j]] = Tail(@)]
      /\ UNCHANGED <<file, boVars, ioctl, jobRef, fence, rq, cpuOwns>>
      /\ RunStarts(c, j) \/ RunGivesUp(c, j) \/ RunNoFence(j)
  BY DEF RunJob
<1>2. attached = [attached EXCEPT ![c] = attached[c]]
  BY DEF ShapeOK, CoreShape
<1>3. CASE RunStarts(c, j)
  BY <1>1, <1>2, <1>3 DEF RunStarts, NeedsAttach
<1>4. CASE RunGivesUp(c, j)
  BY <1>1, <1>2, <1>4 DEF RunGivesUp, AttachFails
<1>5. CASE RunNoFence(j)
  BY <1>1, <1>2, <1>5 DEF RunNoFence
<1> QED BY <1>1, <1>3, <1>4, <1>5

-----------------------------------------------------------------------------
LEMMA ShapeStep ==
  ASSUME ShapeOK, [Next]_vars
  PROVE  ShapeOK'
<1> USE DEF ShapeOK
<1>1. FileShape'
  <2> USE DEF FileShape
  <2>1. ASSUME NEW f \in Files, Open(f) \/ Postclose(f) PROVE FileShape'
    BY <2>1 DEF Open, Postclose
  <2>2. ASSUME NEW f \in Files, Closing(f) PROVE FileShape'
    BY <2>2 DEF Closing, Release
  <2>3. ASSUME NEW b \in BOs, CreateBo(b) PROVE FileShape'
    BY <2>3 DEF CreateBo
  <2>4. ASSUME NEW b \in BOs, CloseHandle(b) PROVE FileShape'
    BY <2>4 DEF CloseHandle, Release
  <2>5. ASSUME NEW b \in BOs, PrepBo(b) \/ FiniBo(b) PROVE FileShape'
    BY <2>5 DEF PrepBo, FiniBo
  <2>6. ASSUME NEW j \in Jobs, SubmitReturn(j) \/ FreeJob(j) PROVE FileShape'
    <3>1. \E last, s : JobPut(j, last, s)
      BY <2>6 DEF SubmitReturn, FreeJob
    <3> QED BY <2>6, <3>1, PutStep DEF SubmitReturn, FreeJob
  <2>7. ASSUME UNCHANGED <<file, bo, handle, cpuOwns>> PROVE FileShape'
    BY <2>7
  <2>8. ASSUME NEW j \in Jobs, SubmitBegin(j) \/ SubmitCopy(j) \/ SubmitLookup(j)
                              \/ SubmitPush(j) \/ SubmitAttach(j) \/ BuryJob(j)
        PROVE  FileShape'
    BY <2>7, <2>8 DEF SubmitBegin, SubmitCopy, SubmitLookup, SubmitPush, SubmitAttach,
      BuryJob
  <2>9. ASSUME NEW j \in Jobs, NEW c \in Cores, RunJob(c, j) \/ FinishJob(c, j)
        PROVE  FileShape'
    BY <2>7, <2>9, RunFacts DEF FinishJob
  <2>10. CASE UNCHANGED vars
    BY <2>7, <2>10 DEF vars
  <2> QED
    BY <2>1, <2>2, <2>3, <2>4, <2>5, <2>6, <2>8, <2>9, <2>10 DEF Next
<1>2. JobShape'
  <2> USE DEF JobShape
  <2>1. ASSUME UNCHANGED jobVars PROVE JobShape'
    BY <2>1
  <2>2. ASSUME NEW f \in Files, Open(f) \/ Closing(f) PROVE JobShape'
    BY <2>1, <2>2 DEF Open, Closing
  <2>3. ASSUME NEW f \in Files, Postclose(f) PROVE JobShape'
    BY <2>3 DEF Postclose
  <2>4. ASSUME NEW b \in BOs, CreateBo(b) \/ CloseHandle(b) \/ PrepBo(b) \/ FiniBo(b)
        PROVE  JobShape'
    BY <2>1, <2>4 DEF CreateBo, CloseHandle, PrepBo, FiniBo
  <2>5. ASSUME NEW j \in Jobs, SubmitBegin(j) PROVE JobShape'
    BY <2>5 DEF SubmitBegin, Go
  <2>6. ASSUME NEW j \in Jobs, SubmitCopy(j) \/ SubmitLookup(j) PROVE JobShape'
    BY <2>6 DEF SubmitCopy, SubmitLookup, LookupFails, Go
  <2>7. ASSUME NEW j \in Jobs, SubmitPush(j) PROVE JobShape'
    <3>1. fence' = fence
      BY <2>7 DEF SubmitPush
    <3>2. CASE ioctl' = [ioctl EXCEPT ![j] = "cleanup"] /\ UNCHANGED <<queue, rq, jobRef, job>>
      BY <3>1, <3>2
    <3>3. CASE /\ jobRef' = [jobRef EXCEPT ![j] = @ + 1]
               /\ job' = [job EXCEPT ![j] = "queued"]
               /\ ioctl' = [ioctl EXCEPT ![j] = "attach"]
      BY <3>1, <3>3
    <3> QED BY <2>7, <3>2, <3>3, PushStep
  <2>8. ASSUME NEW j \in Jobs, SubmitAttach(j) PROVE JobShape'
    BY <2>8 DEF SubmitAttach, Go
  <2>9. ASSUME NEW j \in Jobs, SubmitReturn(j) \/ FreeJob(j) PROVE JobShape'
    <3>1. PICK last \in {"dropped", "freed"}, s \in {job[j], "released"} : JobPut(j, last, s)
      BY <2>9 DEF SubmitReturn, FreeJob
    <3>2. jobRef' \in [Jobs -> Int]
      BY <3>1, PutStep
    <3>3. job' \in [Jobs -> {"none", "building", "dropped", "queued", "killed",
                            "running", "done", "failed", "released", "freed"}]
      BY <3>1, PutStep
    <3>4. UNCHANGED fence /\ (ioctl' = ioctl \/ ioctl' = [ioctl EXCEPT ![j] = "returned"])
      BY <2>9 DEF SubmitReturn, FreeJob, Go
    <3> QED BY <3>2, <3>3, <3>4
  <2>10. ASSUME NEW j \in Jobs, BuryJob(j) PROVE JobShape'
    BY <2>10 DEF BuryJob
  <2>11. ASSUME NEW j \in Jobs, NEW c \in Cores, RunJob(c, j) \/ FinishJob(c, j)
         PROVE  JobShape'
    <3>1. \E s \in {"running", "done", "failed"} : job' = [job EXCEPT ![j] = s]
      BY <2>11, RunFacts DEF FinishJob
    <3>2. UNCHANGED <<ioctl, jobRef, fence>>
      BY <2>11, RunFacts DEF FinishJob
    <3> QED BY <3>1, <3>2
  <2>12. CASE UNCHANGED vars
    BY <2>1, <2>12 DEF vars
  <2> QED
    BY <2>2, <2>3, <2>4, <2>5, <2>6, <2>7, <2>8, <2>9, <2>10, <2>11, <2>12 DEF Next
<1>3. CoreShape'
  <2> USE DEF CoreShape
  <2>1. ASSUME UNCHANGED coreVars PROVE CoreShape'
    BY <2>1
  <2>2. ASSUME NEW f \in Files, Open(f) \/ Closing(f) \/ Postclose(f) PROVE CoreShape'
    BY <2>1, <2>2 DEF Open, Closing, Postclose
  <2>3. ASSUME NEW b \in BOs, CreateBo(b) \/ CloseHandle(b) \/ PrepBo(b) \/ FiniBo(b)
        PROVE  CoreShape'
    BY <2>1, <2>3 DEF CreateBo, CloseHandle, PrepBo, FiniBo
  <2>4. ASSUME NEW j \in Jobs, SubmitBegin(j) \/ SubmitCopy(j) \/ SubmitLookup(j)
                              \/ SubmitAttach(j) \/ SubmitReturn(j) \/ FreeJob(j)
        PROVE  CoreShape'
    BY <2>1, <2>4 DEF SubmitBegin, SubmitCopy, SubmitLookup, SubmitAttach, SubmitReturn,
      FreeJob
  <2>5. ASSUME NEW j \in Jobs, SubmitPush(j) PROVE CoreShape'
    <3>1. UNCHANGED <<running, inFlight, attached>>
      BY <2>5 DEF SubmitPush
    <3> QED BY <2>5, <3>1, PushStep
  <2>6. ASSUME NEW j \in Jobs, BuryJob(j) PROVE CoreShape'
    <3>1. Tail(queue[FileOf[j]]) \in Seq(Jobs)
      BY <2>6 DEF BuryJob
    <3> QED BY <2>6, <3>1 DEF BuryJob
  <2>7. ASSUME NEW j \in Jobs, NEW c \in Cores, RunJob(c, j) PROVE CoreShape'
    <3>1. Tail(queue[FileOf[j]]) \in Seq(Jobs)
      BY <2>7 DEF RunJob
    <3>2. /\ queue' = [queue EXCEPT ![FileOf[j]] = Tail(@)] /\ rq' = rq
          /\ \E a \in Files \cup {None} : attached' = [attached EXCEPT ![c] = a]
      BY <2>7, RunFacts
    <3>3. /\ running' = running \/ running' = [running EXCEPT ![c] = j]
          /\ inFlight' = inFlight \/ inFlight' = [inFlight EXCEPT ![c] = j]
      BY <2>7, RunFacts
    <3>4. queue' \in [Files -> Seq(Jobs)] /\ rq' \in [Files -> Cores]
      BY <3>1, <3>2
    <3>5. attached' \in [Cores -> Files \cup {None}]
      BY <3>2
    <3>6. running' \in [Cores -> Jobs \cup {None}]
      BY <3>3
    <3>7. inFlight' \in [Cores -> Jobs \cup {None}]
      BY <3>3
    <3> QED BY <3>4, <3>5, <3>6, <3>7
  <2>8. ASSUME NEW j \in Jobs, NEW c \in Cores, FinishJob(c, j) PROVE CoreShape'
    BY <2>8 DEF FinishJob
  <2>9. CASE UNCHANGED vars
    BY <2>1, <2>9 DEF vars
  <2> QED
    BY <2>2, <2>3, <2>4, <2>5, <2>6, <2>7, <2>8, <2>9 DEF Next
<1> QED BY <1>1, <1>2, <1>3

(* The job states change in the order of the job's life.                   *)
LEMMA JobsStep ==
  ASSUME ShapeOK, JobsOK, CoresOK, [Next]_vars
  PROVE  JobsOK'
<1> USE DEF ShapeOK, JobShape, JobsOK, Unfinished, Waiting
<1>1. ASSUME UNCHANGED <<ioctl, job, jobRef>> PROVE JobsOK'
  BY <1>1
<1>2. ASSUME NEW f \in Files, Open(f) \/ Closing(f) PROVE JobsOK'
  BY <1>1, <1>2 DEF Open, Closing
<1>3. ASSUME NEW f \in Files, Postclose(f) PROVE JobsOK'
  BY <1>3 DEF Postclose
<1>4. ASSUME NEW b \in BOs, CreateBo(b) \/ CloseHandle(b) \/ PrepBo(b) \/ FiniBo(b)
      PROVE  JobsOK'
  BY <1>1, <1>4 DEF CreateBo, CloseHandle, PrepBo, FiniBo
<1>5. ASSUME NEW j \in Jobs, SubmitBegin(j) \/ SubmitCopy(j) PROVE JobsOK'
  BY <1>5 DEF SubmitBegin, SubmitCopy, Go
<1>6. ASSUME NEW j \in Jobs, SubmitLookup(j) PROVE JobsOK'
  BY <1>6 DEF SubmitLookup, LookupFails, Go
<1>7. ASSUME NEW j \in Jobs, SubmitPush(j) PROVE JobsOK'
  <2>1. ioctl[j] = "push"
    BY <1>7 DEF SubmitPush
  <2>2. CASE ioctl' = [ioctl EXCEPT ![j] = "cleanup"] /\ UNCHANGED <<queue, rq, jobRef, job>>
    BY <2>1, <2>2
  <2>3. CASE /\ jobRef' = [jobRef EXCEPT ![j] = @ + 1]
             /\ job' = [job EXCEPT ![j] = "queued"]
             /\ ioctl' = [ioctl EXCEPT ![j] = "attach"]
    BY <2>1, <2>3
  <2> QED BY <1>7, <2>2, <2>3, PushStep
<1>8. ASSUME NEW j \in Jobs, SubmitAttach(j) PROVE JobsOK'
  BY <1>8 DEF SubmitAttach, Go
<1>9. ASSUME NEW j \in Jobs, SubmitReturn(j) PROVE JobsOK'
  <2>1. JobPut(j, IF ioctl[j] = "cleanup" THEN "dropped" ELSE "freed", job[j])
    BY <1>9 DEF SubmitReturn
  <2>2. /\ jobRef' = [jobRef EXCEPT ![j] = @ - 1]
        /\ job' = [job EXCEPT ![j] =
             IF jobRef[j] = 1 THEN IF ioctl[j] = "cleanup" THEN "dropped" ELSE "freed"
                              ELSE job[j]]
    BY <2>1, PutStep
  <2>3. DOMAIN jobRef' = DOMAIN jobRef
    BY <2>2
  <2> QED BY <1>9, <2>2 DEF SubmitReturn, Go
<1>10. ASSUME NEW j \in Jobs, NEW c \in Cores, RunJob(c, j) \/ FinishJob(c, j) PROVE JobsOK'
  <2>1. job[j] \in {"queued", "running"}
    BY <1>10 DEF RunJob, FinishJob, CoresOK, CoreShape
  <2>2. \E s \in {"running", "done", "failed"} : job' = [job EXCEPT ![j] = s]
    BY <1>10, RunFacts DEF FinishJob
  <2>3. UNCHANGED <<ioctl, jobRef>>
    BY <1>10 DEF RunJob, FinishJob
  <2> QED BY <2>1, <2>2, <2>3
<1>11. ASSUME NEW j \in Jobs, BuryJob(j) PROVE JobsOK'
  BY <1>11 DEF BuryJob
<1>12. ASSUME NEW j \in Jobs, FreeJob(j) PROVE JobsOK'
  <2>1. JobPut(j, "freed", "released")
    BY <1>12 DEF FreeJob
  <2>2. /\ jobRef' = [jobRef EXCEPT ![j] = @ - 1]
        /\ job' = [job EXCEPT ![j] = IF jobRef[j] = 1 THEN "freed" ELSE "released"]
    BY <2>1, PutStep
  <2> QED BY <1>12, <2>2 DEF FreeJob
<1>13. CASE UNCHANGED vars
  BY <1>1, <1>13 DEF vars
<1> QED
  BY <1>2, <1>3, <1>4, <1>5, <1>6, <1>7, <1>8, <1>9, <1>10, <1>11, <1>12, <1>13 DEF Next

-----------------------------------------------------------------------------
(* What is done to a file that is open reaches no other.                    *)
LEMMA FilesStep ==
  ASSUME ShapeOK, FilesOK, JobsOK, CoresOK, [Next]_vars
  PROVE  FilesOK'
<1> USE DEF ShapeOK, FileShape, FilesOK
<1>1. \A f \in Files : file[f] # "none" => file'[f] # "none"
  <2>1. ASSUME NEW f \in Files, Open(f) \/ Closing(f) \/ Postclose(f)
        PROVE  \A g \in Files : file[g] # "none" => file'[g] # "none"
    BY <2>1 DEF Open, Closing, Postclose
  <2>2. (\A f \in Files : ~Open(f) /\ ~Closing(f) /\ ~Postclose(f)) => file' = file
    BY DEF Next, CreateBo, CloseHandle, PrepBo, FiniBo, SubmitBegin, SubmitCopy,
      SubmitLookup, SubmitPush, SubmitAttach, SubmitReturn, RunJob, FinishJob, BuryJob,
      FreeJob, vars
  <2> QED BY <2>1, <2>2
<1>2. \A j \in Jobs : job'[j] # "none" => file'[FileOf[j]] # "none"
  <2> USE DEF JobShape
  <2>1. ASSUME NEW j \in Jobs, SubmitReturn(j) \/ FreeJob(j)
        PROVE  \A k \in Jobs : job'[k] # "none" => job[k] # "none"
    <3>1. PICK last, s : JobPut(j, last, s)
      BY <2>1 DEF SubmitReturn, FreeJob
    <3>2. job[j] # "none"
      BY <2>1 DEF SubmitReturn, FreeJob, JobsOK, Unfinished, Waiting
    <3> QED BY <3>1, <3>2, PutStep
  <2>2. ASSUME NEW j \in Jobs, SubmitPush(j)
        PROVE  \A k \in Jobs : job'[k] # "none" => job[k] # "none"
    <3>1. job[j] # "none"
      BY <2>2 DEF SubmitPush, JobsOK
    <3> QED BY <2>2, <3>1, PushStep
  <2>3. ASSUME NEW j \in Jobs, NEW c \in Cores, RunJob(c, j) \/ FinishJob(c, j)
        PROVE  \A k \in Jobs : job'[k] # "none" => job[k] # "none"
    <3>1. job[j] # "none"
      BY <2>3 DEF RunJob, FinishJob, CoresOK
    <3>2. \A k \in Jobs \ {j} : job'[k] = job[k]
      BY <2>3, RunFacts DEF FinishJob
    <3> QED BY <3>1, <3>2
  <2>4. ASSUME NEW j \in Jobs, SubmitBegin(j)
        PROVE  \A k \in Jobs : job'[k] # "none" => file[FileOf[k]] # "none"
    BY <2>4 DEF SubmitBegin
  <2>5. ASSUME NEW j \in Jobs, BuryJob(j)
        PROVE  \A k \in Jobs : job'[k] # "none" => job[k] # "none"
    BY <2>5 DEF BuryJob
  <2>6. ASSUME NEW f \in Files, Postclose(f)
        PROVE  \A k \in Jobs : job'[k] # "none" => job[k] # "none"
    BY <2>6 DEF Postclose
  <2>7. \/ \E f \in Files : Postclose(f)
        \/ \E j \in Jobs : \/ SubmitBegin(j) \/ SubmitPush(j) \/ SubmitReturn(j)
                           \/ BuryJob(j) \/ FreeJob(j)
                           \/ \E c \in Cores : RunJob(c, j) \/ FinishJob(c, j)
        \/ job' = job
    BY DEF Next, Open, Closing, CreateBo, CloseHandle, PrepBo, FiniBo, SubmitCopy,
      SubmitLookup, SubmitAttach, vars
  <2>8. \A k \in Jobs : FileOf[k] \in Files
    OBVIOUS
  <2> QED BY <1>1, <2>1, <2>2, <2>3, <2>4, <2>5, <2>6, <2>7, <2>8
<1>3. \A c \in Cores : attached'[c] # None => file'[attached'[c]] # "none"
  <2>1. ASSUME NEW j \in Jobs, NEW c \in Cores, RunJob(c, j)
        PROVE  \A d \in Cores : attached'[d] # None => file[attached'[d]] # "none"
    <3>1. file[FileOf[j]] # "none"
      BY <2>1 DEF RunJob
    <3>2. \E a \in {attached[c], FileOf[j], None} : attached' = [attached EXCEPT ![c] = a]
      BY <2>1, RunFacts
    <3> QED BY <3>1, <3>2 DEF CoreShape
  <2>2. (\E c \in Cores, j \in Jobs : RunJob(c, j)) \/ attached' = attached
    BY DEF Next, Open, Closing, Postclose, CreateBo, CloseHandle, PrepBo, FiniBo,
      SubmitBegin, SubmitCopy, SubmitLookup, SubmitPush, SubmitAttach, SubmitReturn,
      FinishJob, BuryJob, FreeJob, vars
  <2>3. CoreShape'
    BY ShapeStep
  <2> QED BY <1>1, <2>1, <2>2, <2>3 DEF CoreShape
<1>4. \A b \in cpuOwns' : file'[FileOf[b]] = "open"
  <2>1. ASSUME NEW f \in Files, Open(f) \/ Closing(f) \/ Postclose(f)
        PROVE  \A b \in cpuOwns' : file'[FileOf[b]] = "open"
    BY <2>1 DEF Open, Closing, Postclose
  <2>2. ASSUME NEW b \in BOs, CloseHandle(b) \/ PrepBo(b) \/ FiniBo(b)
        PROVE  \A x \in cpuOwns' : file'[FileOf[x]] = "open"
    BY <2>2 DEF CloseHandle, PrepBo, FiniBo
  <2>3. \/ \E f \in Files : Open(f) \/ Closing(f) \/ Postclose(f)
        \/ \E b \in BOs : CloseHandle(b) \/ PrepBo(b) \/ FiniBo(b)
        \/ UNCHANGED <<file, cpuOwns>>
    BY DEF Next, CreateBo, SubmitBegin, SubmitCopy, SubmitLookup, SubmitPush,
      SubmitAttach, SubmitReturn, RunJob, FinishJob, BuryJob, FreeJob, vars
  <2> QED BY <2>1, <2>2, <2>3
<1> QED BY <1>2, <1>3, <1>4

(* The entity of a file with a job on a core stays with that core.          *)
LEMMA CoresStep ==
  ASSUME ShapeOK, JobsOK, CoresOK, [Next]_vars
  PROVE  CoresOK'
<1> USE DEF ShapeOK, CoreShape, CoresOK
<1>1. ASSUME UNCHANGED <<rq, running, inFlight, attached>>,
             \A j \in Jobs : job'[j] = "running" <=> job[j] = "running"
      PROVE  CoresOK'
  BY <1>1
<1>2. ASSUME NEW f \in Files, Open(f) \/ Closing(f) \/ Postclose(f) PROVE CoresOK'
  BY <1>1, <1>2 DEF Open, Closing, Postclose, JobShape
<1>3. ASSUME NEW b \in BOs, CreateBo(b) \/ CloseHandle(b) \/ PrepBo(b) \/ FiniBo(b)
      PROVE  CoresOK'
  BY <1>1, <1>3 DEF CreateBo, CloseHandle, PrepBo, FiniBo
<1>4. ASSUME NEW j \in Jobs, SubmitCopy(j) \/ SubmitLookup(j) \/ SubmitAttach(j)
      PROVE  CoresOK'
  BY <1>1, <1>4 DEF SubmitCopy, SubmitLookup, SubmitAttach
<1>5. ASSUME NEW j \in Jobs, SubmitBegin(j) \/ BuryJob(j) PROVE CoresOK'
  <2>1. job[j] # "running" /\ \E s \in {"building", "failed"} : job' = [job EXCEPT ![j] = s]
    BY <1>5 DEF SubmitBegin, BuryJob, JobsOK
  <2>2. UNCHANGED <<rq, running, inFlight, attached>>
    BY <1>5 DEF SubmitBegin, BuryJob
  <2> QED BY <1>1, <2>1, <2>2 DEF JobShape
<1>6. ASSUME NEW j \in Jobs, SubmitReturn(j) \/ FreeJob(j) PROVE CoresOK'
  <2>1. PICK last \in {"dropped", "freed"}, s \in {job[j], "released"} :
          JobPut(j, last, s) /\ (s = job[j] \/ job[j] \in {"done", "failed"})
    BY <1>6 DEF SubmitReturn, FreeJob
  <2>2. jobRef[j] = 1 /\ s = job[j] => job[j] \in {"building", "released", "done", "failed"}
    BY <1>6, <2>1 DEF SubmitReturn, FreeJob, JobsOK
  <2>3. UNCHANGED <<rq, running, inFlight, attached>>
    BY <1>6 DEF SubmitReturn, FreeJob
  <2>4. job' = [job EXCEPT ![j] = IF jobRef[j] = 1 THEN last ELSE s]
    BY <2>1, PutStep
  <2> QED BY <1>1, <2>1, <2>2, <2>3, <2>4 DEF JobShape
<1>7. ASSUME NEW j \in Jobs, SubmitPush(j) PROVE CoresOK'
  <2>1. /\ job[j] = "building" /\ UNCHANGED <<running, inFlight, attached>>
        /\ FileOf[j] \in Files
    BY <1>7 DEF SubmitPush, JobsOK
  <2>2. CASE UNCHANGED <<rq, job>>
    BY <1>1, <2>1, <2>2
  <2>3. ASSUME NEW c \in EntityCores(FileOf[j]),
               rq' = [rq EXCEPT ![FileOf[j]] = c], job' = [job EXCEPT ![j] = "queued"]
        PROVE  CoresOK'
    <3>1. \A d \in Cores : running[d] # None => rq'[FileOf[running[d]]] = rq[FileOf[running[d]]]
      BY <2>1, <2>3 DEF EntityCores, MayMove
    <3>2. \A k \in Jobs : job[k] = "running" => rq'[FileOf[k]] = rq[FileOf[k]]
      <4> SUFFICES ASSUME NEW k \in Jobs, job[k] = "running"
                   PROVE  rq'[FileOf[k]] = rq[FileOf[k]]
        OBVIOUS
      <4>1. rq[FileOf[k]] \in Cores /\ running[rq[FileOf[k]]] = k /\ k # None
        OBVIOUS
      <4> QED BY <3>1, <4>1
    <3>3. \A k \in Jobs : job'[k] = "running" <=> job[k] = "running"
      BY <2>1, <2>3 DEF JobShape
    <3> QED BY <2>1, <3>1, <3>2, <3>3
  <2> QED BY <1>7, <2>2, <2>3, PushStep
<1>8. ASSUME NEW j \in Jobs, NEW c \in Cores, RunJob(c, j) PROVE CoresOK'
  <2>1. rq[FileOf[j]] = c /\ running[c] = None /\ rq' = rq /\ job[j] = "queued"
    BY <1>8, RunFacts
  <2>2. inFlight[c] = None
    BY <2>1
  <2>3. PICK a \in {attached[c], FileOf[j], None} :
          /\ attached' = [attached EXCEPT ![c] = a]
          /\ \/ /\ running' = [running EXCEPT ![c] = j]
                /\ job' = [job EXCEPT ![j] = "running"]
                /\ \/ a = FileOf[j] /\ inFlight' = [inFlight EXCEPT ![c] = j]
                   \/ UNCHANGED inFlight
             \/ /\ UNCHANGED <<running, inFlight, attached>>
                /\ job' = [job EXCEPT ![j] = "failed"]
    BY <1>8, RunFacts
  <2>4. CASE UNCHANGED <<running, inFlight, attached>> /\ job' = [job EXCEPT ![j] = "failed"]
    <3>1. \A k \in Jobs : job'[k] = "running" <=> job[k] = "running"
      BY <2>1, <2>4 DEF JobShape
    <3> QED BY <1>1, <2>1, <2>4, <3>1
  <2>5. CASE /\ running' = [running EXCEPT ![c] = j]
             /\ job' = [job EXCEPT ![j] = "running"]
             /\ \/ a = FileOf[j] /\ inFlight' = [inFlight EXCEPT ![c] = j]
                \/ UNCHANGED inFlight
    <3>1. \A d \in Cores : running[d] # j
      BY <2>1, j # None
    <3>2. \A k \in Jobs : job[k] = "running" => rq[FileOf[k]] # c
      BY <2>1
    <3>3. ASSUME NEW d \in Cores, inFlight'[d] # None
          PROVE  inFlight'[d] = running'[d] /\ attached'[d] = FileOf[inFlight'[d]]
      <4>1. CASE d # c
        BY <2>3, <2>5, <3>3, <4>1
      <4>2. CASE d = c
        BY <2>2, <2>3, <2>5, <3>3, <4>2
      <4> QED BY <4>1, <4>2
    <3> QED BY <2>1, <2>5, <3>1, <3>2, <3>3 DEF JobShape
  <2> QED BY <2>3, <2>4, <2>5
<1>9. ASSUME NEW j \in Jobs, NEW c \in Cores, FinishJob(c, j) PROVE CoresOK'
  <2>1. /\ running[c] = j /\ UNCHANGED <<rq, attached>>
        /\ running' = [running EXCEPT ![c] = None]
        /\ inFlight' = [inFlight EXCEPT ![c] = None]
        /\ \E s \in {"done", "failed"} : job' = [job EXCEPT ![j] = s]
    BY <1>9 DEF FinishJob
  <2>2. \A d \in Cores \ {c} : running[d] # j
    BY <2>1
  <2>3. \A k \in Jobs \ {j} : job[k] = "running" => rq[FileOf[k]] # c
    BY <2>1
  <2> QED BY <2>1, <2>2, <2>3 DEF JobShape
<1>10. CASE UNCHANGED vars
  BY <1>1, <1>10 DEF vars
<1> QED
  BY <1>2, <1>3, <1>4, <1>5, <1>6, <1>7, <1>8, <1>9, <1>10 DEF Next

-----------------------------------------------------------------------------
(* Positions in a queue after its head is taken or a job put at its end.    *)
LEMMA TailAt ==
  ASSUME NEW q \in Seq(Jobs), q # <<>>
  PROVE  /\ 1 \in DOMAIN q /\ Head(q) = q[1]
         /\ \A m \in DOMAIN q : m \in Int /\ m >= 1
         /\ \A m \in DOMAIN Tail(q) :
              /\ m \in Int /\ m >= 1
              /\ m + 1 \in DOMAIN q /\ Tail(q)[m] = q[m + 1]
         /\ \A m \in DOMAIN q :
              m > 1 => m - 1 \in DOMAIN Tail(q) /\ Tail(q)[m - 1] = q[m]
OBVIOUS

LEMMA AppendAt ==
  ASSUME NEW q \in Seq(Jobs), NEW j \in Jobs
  PROVE  /\ Len(q) + 1 \in DOMAIN Append(q, j) /\ Append(q, j)[Len(q) + 1] = j
         /\ Len(q) + 1 \notin DOMAIN q
         /\ \A m \in DOMAIN q :
              m \in DOMAIN Append(q, j) /\ m < Len(q) + 1 /\ Append(q, j)[m] = q[m]
         /\ \A m \in DOMAIN Append(q, j) : m \in DOMAIN q \/ m = Len(q) + 1
OBVIOUS

(* A job leaves the queue of its file by the head.                          *)
Pops(j) ==
  LET f == FileOf[j] IN
  /\ queue[f] # <<>> /\ Head(queue[f]) = j /\ Waiting(j)
  /\ queue' = [queue EXCEPT ![f] = Tail(@)]
  /\ job[j] # "running" /\ \E s \in {"running", "failed"} : job' = [job EXCEPT ![j] = s]

LEMMA PopQueue ==
  ASSUME ShapeOK, QueueOK, NEW j \in Jobs, Pops(j)
  PROVE  QueueOK'
<1> USE DEF ShapeOK, CoreShape, JobShape
<1> DEFINE f == FileOf[j]
           q == queue[f]
<1>1. f \in Files /\ q \in Seq(Jobs) /\ q # <<>>
  BY DEF Pops
<1>2. q[1] = j /\ queue'[f] = Tail(q) /\ \A g \in Files \ {f} : queue'[g] = queue[g]
  BY <1>1, TailAt DEF Pops
<1>3. \A k \in Jobs : job'[k] \in {"queued", "killed"} <=> Waiting(k) /\ k # j
  BY DEF Pops, Waiting
<1>4. ASSUME NEW g \in Files, NEW m \in DOMAIN queue'[g]
      PROVE  /\ FileOf[queue'[g][m]] = g /\ job'[queue'[g][m]] \in {"queued", "killed"}
             /\ \A n \in DOMAIN queue'[g] : queue'[g][m] = queue'[g][n] => m = n
  <2>1. CASE g = f
    <3>1. /\ m + 1 \in DOMAIN q /\ Tail(q)[m] = q[m + 1] /\ m + 1 # 1 /\ 1 \in DOMAIN q
          /\ m \in Int
      BY <1>1, <1>2, <1>4, <2>1, TailAt
    <3>2. q[m + 1] # j /\ q[m + 1] \in Jobs
      BY <1>1, <1>2, <3>1 DEF QueueOK
    <3>3. \A n \in DOMAIN Tail(q) :
            n \in Int /\ n + 1 \in DOMAIN q /\ Tail(q)[n] = q[n + 1]
      BY <1>1, TailAt
    <3>4. \A n \in DOMAIN Tail(q) : q[m + 1] = q[n + 1] => m + 1 = n + 1
      BY <1>1, <3>1, <3>3 DEF QueueOK
    <3>5. queue'[g] = Tail(q) /\ queue'[g][m] = q[m + 1]
      BY <1>2, <2>1, <3>1
    <3>6. FileOf[q[m + 1]] = f /\ Waiting(q[m + 1])
      BY <1>1, <3>1 DEF QueueOK
    <3>7. \A n \in DOMAIN queue'[g] : queue'[g][m] = queue'[g][n] => m = n
      BY <3>1, <3>3, <3>4, <3>5
    <3> QED BY <1>3, <2>1, <3>2, <3>5, <3>6, <3>7
  <2>2. CASE g # f
    <3>1. queue'[g] = queue[g] /\ queue[g][m] \in Jobs /\ queue[g][m] # j
      BY <1>2, <1>4, <2>2 DEF QueueOK
    <3> QED BY <1>3, <1>4, <3>1 DEF QueueOK
  <2> QED BY <2>1, <2>2
<1>5. ASSUME NEW k \in Jobs, job'[k] \in {"queued", "killed"}
      PROVE  \E m \in DOMAIN queue'[FileOf[k]] : queue'[FileOf[k]][m] = k
  <2>1. PICK m \in DOMAIN queue[FileOf[k]] : queue[FileOf[k]][m] = k
    BY <1>3, <1>5 DEF QueueOK
  <2>2. FileOf[k] \in Files /\ k # j
    BY <1>3, <1>5
  <2>3. CASE FileOf[k] = f
    <3>1. m \in Int /\ m > 1
      BY <1>1, <1>2, <2>1, <2>2, <2>3, TailAt
    <3>2. m - 1 \in DOMAIN Tail(q) /\ Tail(q)[m - 1] = q[m]
      BY <1>1, <2>1, <2>3, <3>1, TailAt
    <3>3. queue'[FileOf[k]] = Tail(q) /\ q[m] = k
      BY <1>2, <2>1, <2>3
    <3> QED BY <3>2, <3>3
  <2> QED BY <1>2, <2>1, <2>2, <2>3
<1> QED BY <1>4, <1>5 DEF QueueOK, Waiting

(* Who is behind whom, among those still unfinished.                        *)
KeepsOrder ==
  \A i, k \in Jobs : Behind(k, i) /\ Unfinished(i)' => Behind(k, i)'

LEMMA PopOrder ==
  ASSUME ShapeOK, QueueOK, NEW j \in Jobs, Pops(j),
         \A i \in Jobs : FileOf[i] = FileOf[j] => job[i] # "running"
  PROVE  KeepsOrder
<1> USE DEF ShapeOK, CoreShape, JobShape
<1> SUFFICES ASSUME NEW i \in Jobs, NEW k \in Jobs, Behind(k, i), Unfinished(i)'
             PROVE  Behind(k, i)'
  BY DEF KeepsOrder
<1> DEFINE f == FileOf[j]
           q == queue[f]
<1>1. f \in Files /\ q \in Seq(Jobs) /\ q # <<>>
  BY DEF Pops
<1>2. q[1] = j /\ queue'[f] = Tail(q) /\ \A g \in Files \ {f} : queue'[g] = queue[g]
  BY <1>1, TailAt DEF Pops
<1>3. \A x \in Jobs \ {j} : job'[x] = job[x]
  BY DEF Pops
<1>4. FileOf[k] = FileOf[i] /\ Waiting(k) /\ FileOf[i] \in Files
  BY DEF Behind
<1>5. CASE FileOf[i] # f
  <2>1. queue'[FileOf[i]] = queue[FileOf[i]] /\ job'[i] = job[i] /\ job'[k] = job[k]
    BY <1>2, <1>3, <1>4, <1>5
  <2> QED BY <1>4, <2>1 DEF Behind, Waiting
<1>6. CASE FileOf[i] = f
  <2>1. PICK m \in DOMAIN q, n \in DOMAIN q : m < n /\ q[m] = i /\ q[n] = k
    BY <1>6 DEF Behind
  <2>2. m \in Int /\ n \in Int /\ m >= 1 /\ n > 1 /\ 1 \in DOMAIN q
    BY <1>1, <2>1, TailAt
  <2>3. k # j
    BY <1>1, <1>2, <2>1, <2>2 DEF QueueOK
  <2>4. Waiting(k)'
    BY <1>3, <1>4, <2>3 DEF Waiting
  <2>5. n - 1 \in DOMAIN Tail(q) /\ Tail(q)[n - 1] = k
    BY <1>1, <2>1, <2>2, TailAt
  <2>6. CASE m = 1
    <3>1. i = j
      BY <1>2, <2>1, <2>6
    <3>2. job'[i] = "running"
      BY <3>1 DEF Pops, Unfinished, Waiting
    <3> QED BY <1>4, <2>4, <3>2 DEF Behind
  <2>7. CASE m # 1
    <3>1. m > 1 /\ m - 1 < n - 1
      BY <2>1, <2>2, <2>7
    <3>2. m - 1 \in DOMAIN Tail(q) /\ Tail(q)[m - 1] = i
      BY <1>1, <2>1, <3>1, TailAt
    <3> QED BY <1>2, <1>4, <1>6, <2>4, <2>5, <3>1, <3>2 DEF Behind
  <2> QED BY <2>6, <2>7
<1> QED BY <1>5, <1>6

(* A job joins the queue of its file at the end.                            *)
Pushes(j) ==
  /\ queue' = [queue EXCEPT ![FileOf[j]] = Append(@, j)]
  /\ job[j] = "building" /\ job' = [job EXCEPT ![j] = "queued"]

LEMMA PushQueue ==
  ASSUME ShapeOK, QueueOK, NEW j \in Jobs, Pushes(j)
  PROVE  QueueOK' /\ KeepsOrder
<1> USE DEF ShapeOK, CoreShape, JobShape
<1> DEFINE f == FileOf[j]
           q == queue[f]
           l == Len(q) + 1
<1>1. f \in Files /\ q \in Seq(Jobs)
  OBVIOUS
<1>2. /\ queue'[f] = Append(q, j)
      /\ \A g \in Files \ {f} : queue'[g] = queue[g]
  BY <1>1 DEF Pushes
<1>3. \A k \in Jobs : job'[k] \in {"queued", "killed"} <=> Waiting(k) \/ k = j
  BY DEF Pushes, Waiting
<1>4. ~Waiting(j)
  BY DEF Pushes, Waiting
<1>5. /\ l \in DOMAIN queue'[f] /\ queue'[f][l] = j /\ l \notin DOMAIN q
      /\ \A m \in DOMAIN q : m \in DOMAIN queue'[f] /\ m < l /\ queue'[f][m] = q[m]
      /\ \A m \in DOMAIN queue'[f] : m \in DOMAIN q \/ m = l
  <2> HIDE DEF q
  <2> QED BY <1>1, <1>2, AppendAt
<1>6. \A m \in DOMAIN q : q[m] \in Jobs /\ q[m] # j /\ FileOf[q[m]] = f /\ Waiting(q[m])
  BY <1>1, <1>4 DEF QueueOK
<1>7. ASSUME NEW g \in Files, NEW m \in DOMAIN queue'[g]
      PROVE  /\ FileOf[queue'[g][m]] = g /\ job'[queue'[g][m]] \in {"queued", "killed"}
             /\ \A n \in DOMAIN queue'[g] : queue'[g][m] = queue'[g][n] => m = n
  <2>1. CASE g # f
    <3>1. queue'[g] = queue[g] /\ queue[g][m] \in Jobs
      BY <1>2, <1>7, <2>1
    <3> QED BY <1>3, <1>7, <3>1 DEF QueueOK
  <2>2. CASE g = f /\ m = l
    <3>1. queue'[g][m] = j
      BY <1>5, <2>2
    <3>2. \A n \in DOMAIN queue'[g] : j = queue'[g][n] => m = n
      BY <1>5, <1>6, <2>2
    <3> QED BY <1>3, <2>2, <3>1, <3>2
  <2>3. CASE g = f /\ m \in DOMAIN q
    <3>1. queue'[g][m] = q[m]
      BY <1>5, <2>3
    <3>2. \A n \in DOMAIN q : q[m] = q[n] => m = n
      BY <1>1, <2>3 DEF QueueOK
    <3>3. \A n \in DOMAIN queue'[g] : q[m] = queue'[g][n] => m = n
      BY <1>5, <1>6, <2>3, <3>2
    <3> QED BY <1>3, <1>6, <2>3, <3>1, <3>3
  <2> QED BY <1>5, <1>7, <2>1, <2>2, <2>3
<1>8. ASSUME NEW k \in Jobs, job'[k] \in {"queued", "killed"}
      PROVE  \E m \in DOMAIN queue'[FileOf[k]] : queue'[FileOf[k]][m] = k
  <2>1. CASE k = j
    BY <1>5, <2>1
  <2>2. CASE k # j
    <3>1. PICK m \in DOMAIN queue[FileOf[k]] : queue[FileOf[k]][m] = k
      BY <1>3, <1>8, <2>2 DEF QueueOK
    <3>2. FileOf[k] \in Files
      OBVIOUS
    <3> QED BY <1>2, <1>5, <3>1, <3>2
  <2> QED BY <2>1, <2>2
<1>9. ASSUME NEW i \in Jobs, NEW k \in Jobs, Behind(k, i)
      PROVE  Behind(k, i)'
  <2>1. FileOf[k] = FileOf[i] /\ Waiting(k) /\ FileOf[i] \in Files
    BY <1>9 DEF Behind
  <2>2. Waiting(k)'
    BY <1>3, <2>1 DEF Waiting
  <2>3. CASE job[i] = "running"
    BY <2>1, <2>2, <2>3 DEF Pushes, Behind
  <2>4. ASSUME NEW m \in DOMAIN queue[FileOf[i]], NEW n \in DOMAIN queue[FileOf[i]],
               m < n, queue[FileOf[i]][m] = i, queue[FileOf[i]][n] = k
        PROVE  Behind(k, i)'
    <3>1. /\ m \in DOMAIN queue'[FileOf[i]] /\ n \in DOMAIN queue'[FileOf[i]]
          /\ queue'[FileOf[i]][m] = i /\ queue'[FileOf[i]][n] = k
      BY <1>2, <1>5, <2>1, <2>4
    <3> QED BY <2>1, <2>2, <2>4, <3>1 DEF Behind
  <2> QED BY <1>9, <2>3, <2>4 DEF Behind
<1>10. QueueOK'
  BY <1>7, <1>8 DEF QueueOK, Waiting
<1>11. KeepsOrder
  BY <1>9 DEF KeepsOrder
<1> QED BY <1>10, <1>11

(* Nothing happens to the queues, and a job stops running for good.         *)
LEMMA SameQueue ==
  ASSUME ShapeOK, QueueOK, queue' = queue,
         \A k \in Jobs : job'[k] \in {"queued", "killed"} <=> Waiting(k),
         \A k \in Jobs : job[k] = "running" => job'[k] \in {"running", "done", "failed"}
  PROVE  QueueOK' /\ KeepsOrder
<1> USE DEF ShapeOK, CoreShape
<1>1. ASSUME NEW g \in Files, NEW m \in DOMAIN queue[g]
      PROVE  job'[queue[g][m]] \in {"queued", "killed"}
  <2>1. queue[g][m] \in Jobs
    BY <1>1
  <2> QED BY <1>1, <2>1 DEF QueueOK
<1>2. QueueOK'
  BY <1>1 DEF QueueOK, Waiting
<1>3. KeepsOrder
  BY DEF KeepsOrder, Behind, Unfinished, Waiting
<1> QED BY <1>2, <1>3

(* Whatever happens, the queues are in order and nobody overtakes.          *)
LEMMA QueueStep ==
  ASSUME ShapeOK, JobsOK, CoresOK, QueueOK, [Next]_vars
  PROVE  QueueOK' /\ KeepsOrder
<1> USE DEF ShapeOK, JobShape
<1>1. ASSUME UNCHANGED <<queue, job>> PROVE QueueOK' /\ KeepsOrder
  BY <1>1, SameQueue DEF Waiting
<1>2. ASSUME NEW f \in Files, Open(f) \/ Closing(f) PROVE QueueOK' /\ KeepsOrder
  BY <1>1, <1>2 DEF Open, Closing
<1>3. ASSUME NEW f \in Files, Postclose(f) PROVE QueueOK' /\ KeepsOrder
  BY <1>3, SameQueue DEF Postclose, Waiting
<1>4. ASSUME NEW b \in BOs, CreateBo(b) \/ CloseHandle(b) \/ PrepBo(b) \/ FiniBo(b)
      PROVE  QueueOK' /\ KeepsOrder
  BY <1>1, <1>4 DEF CreateBo, CloseHandle, PrepBo, FiniBo
<1>5. ASSUME NEW j \in Jobs, SubmitCopy(j) \/ SubmitLookup(j) \/ SubmitAttach(j)
      PROVE  QueueOK' /\ KeepsOrder
  BY <1>1, <1>5 DEF SubmitCopy, SubmitLookup, SubmitAttach
<1>6. ASSUME NEW j \in Jobs, SubmitBegin(j) PROVE QueueOK' /\ KeepsOrder
  <2>1. job[j] = "none"
    BY <1>6 DEF SubmitBegin, JobsOK
  <2> QED BY <1>6, <2>1, SameQueue DEF SubmitBegin, Waiting
<1>7. ASSUME NEW j \in Jobs, SubmitReturn(j) \/ FreeJob(j) PROVE QueueOK' /\ KeepsOrder
  <2>1. PICK last \in {"dropped", "freed"}, s \in {job[j], "released"} :
          JobPut(j, last, s) /\ (s = job[j] \/ job[j] \in {"done", "failed"})
    BY <1>7 DEF SubmitReturn, FreeJob
  <2>2. jobRef[j] = 1 /\ s = job[j] => job[j] \in {"building", "released", "done", "failed"}
    BY <1>7, <2>1 DEF SubmitReturn, FreeJob, JobsOK
  <2>3. UNCHANGED queue
    BY <1>7 DEF SubmitReturn, FreeJob
  <2>4. job' = [job EXCEPT ![j] = IF jobRef[j] = 1 THEN last ELSE s]
    BY <2>1, PutStep
  <2> QED BY <2>1, <2>2, <2>3, <2>4, SameQueue DEF Waiting
<1>8. ASSUME NEW j \in Jobs, SubmitPush(j) PROVE QueueOK' /\ KeepsOrder
  <2>1. job[j] = "building"
    BY <1>8 DEF SubmitPush, JobsOK
  <2> QED BY <1>1, <1>8, <2>1, PushStep, PushQueue DEF Pushes
<1>9. ASSUME NEW j \in Jobs, NEW c \in Cores, RunJob(c, j) PROVE QueueOK' /\ KeepsOrder
  <2>1. Pops(j)
    BY <1>9, RunFacts DEF Pops, Waiting
  <2>2. \A i \in Jobs : FileOf[i] = FileOf[j] => job[i] # "running"
    BY <1>9 DEF RunJob, CoresOK
  <2> QED BY <2>1, <2>2, PopQueue, PopOrder
<1>10. ASSUME NEW j \in Jobs, BuryJob(j) PROVE QueueOK' /\ KeepsOrder
  <2>1. Pops(j)
    BY <1>10 DEF BuryJob, Pops, Waiting
  <2>2. ASSUME NEW i \in Jobs, FileOf[i] = FileOf[j] PROVE job[i] # "running"
    <3>1. rq[FileOf[i]] \in Cores /\ i # None
      BY DEF CoreShape
    <3> QED BY <1>10, <2>2, <3>1 DEF BuryJob, CoresOK
  <2> QED BY <2>1, <2>2, PopQueue, PopOrder
<1>11. ASSUME NEW j \in Jobs, NEW c \in Cores, FinishJob(c, j) PROVE QueueOK' /\ KeepsOrder
  <2>1. job[j] = "running"
    BY <1>11 DEF FinishJob, CoresOK
  <2> QED BY <1>11, <2>1, SameQueue DEF FinishJob, Waiting
<1>12. CASE UNCHANGED vars
  BY <1>1, <1>12 DEF vars
<1> QED
  BY <1>2, <1>3, <1>4, <1>5, <1>6, <1>7, <1>8, <1>9, <1>10, <1>11, <1>12 DEF Next

-----------------------------------------------------------------------------
(* Fewer unfinished jobs with a fence, and no new ones between push and      *)
(* attach.                                                                  *)
LEMMA FencesKept ==
  ASSUME ShapeOK, FencesOK, KeepsOrder, fence' = fence,
         \A i \in Jobs : Fenced(i)' => Fenced(i),
         \A k \in Jobs : ioctl'[k] = "attach" => ioctl[k] = "attach"
  PROVE  FencesOK'
<1> USE DEF ShapeOK, JobShape
<1>1. ASSUME NEW i \in Jobs, Fenced(i)', NEW b \in OutBos[i]
      PROVE  /\ fence[b] # None
             /\ fence[b] = i \/ Behind(fence[b], i)'
  <2>1. fence[b] # None /\ (fence[b] = i \/ Behind(fence[b], i))
    BY <1>1 DEF FencesOK
  <2>2. PICK k \in Jobs : fence[b] = k
    BY <2>1
  <2>3. Behind(k, i) => Behind(k, i)'
    BY <1>1 DEF KeepsOrder, Fenced
  <2> QED BY <2>1, <2>2, <2>3 DEF Behind, Waiting
<1>2. ASSUME NEW i \in Jobs, NEW k \in Jobs, Fenced(i)', ioctl'[k] = "attach",
             Bos(i) \cap Bos(k) # {}
      PROVE  Behind(k, i)'
  <2>1. Behind(k, i)
    BY <1>2 DEF FencesOK
  <2> QED BY <1>2, <2>1 DEF KeepsOrder, Fenced
<1>3. \A i, k \in Jobs : ioctl'[i] = "attach" /\ ioctl'[k] = "attach"
                         /\ Bos(i) \cap Bos(k) # {} => i = k
  BY DEF FencesOK
<1> QED BY <1>1, <1>2, <1>3 DEF FencesOK, Bos, Behind, Waiting

(* Jobs that share a BO are of one file.                                    *)
LEMMA SameFile ==
  ASSUME NEW i \in Jobs, NEW k \in Jobs, Bos(i) \cap Bos(k) # {}
  PROVE  FileOf[i] = FileOf[k]
BY DEF Bos

LEMMA FencesStep ==
  ASSUME ShapeOK, JobsOK, CoresOK, QueueOK, FencesOK, [Next]_vars
  PROVE  FencesOK'
<1> USE DEF ShapeOK, JobShape
<1>1. KeepsOrder /\ QueueOK' /\ ShapeOK'
  BY QueueStep, ShapeStep
<1>2. ASSUME UNCHANGED <<fence, ioctl>>, \A i \in Jobs : Unfinished(i)' => Unfinished(i)
      PROVE  FencesOK'
  BY <1>1, <1>2, FencesKept DEF Fenced
<1>3. ASSUME NEW f \in Files, Open(f) \/ Closing(f) \/ Postclose(f) PROVE FencesOK'
  BY <1>2, <1>3 DEF Open, Closing, Postclose, Unfinished, Waiting
<1>4. ASSUME NEW b \in BOs, CreateBo(b) \/ CloseHandle(b) \/ PrepBo(b) \/ FiniBo(b)
      PROVE  FencesOK'
  BY <1>2, <1>4 DEF CreateBo, CloseHandle, PrepBo, FiniBo, Unfinished, Waiting
<1>5. ASSUME NEW j \in Jobs, NEW s \in {"copy", "lookup", "push", "oops", "cleanup"},
             ioctl' = [ioctl EXCEPT ![j] = s], fence' = fence,
             \A i \in Jobs \ {j} : job'[i] = job[i]
      PROVE  FencesOK'
  <2>1. \A i \in Jobs : Fenced(i)' => Fenced(i)
    BY <1>5 DEF Fenced, Unfinished, Waiting
  <2>2. \A k \in Jobs : ioctl'[k] = "attach" => ioctl[k] = "attach"
    BY <1>5
  <2> QED BY <1>1, <1>5, <2>1, <2>2, FencesKept
<1>6. ASSUME NEW j \in Jobs, SubmitBegin(j) PROVE FencesOK'
  BY <1>5, <1>6 DEF SubmitBegin, Go
<1>7. ASSUME NEW j \in Jobs, SubmitCopy(j) \/ SubmitLookup(j) PROVE FencesOK'
  <2>1. \E s \in {"lookup", "push", "oops"} : ioctl' = [ioctl EXCEPT ![j] = s]
    BY <1>7 DEF SubmitCopy, SubmitLookup, LookupFails, Go
  <2>2. UNCHANGED <<fence, job>>
    BY <1>7 DEF SubmitCopy, SubmitLookup
  <2> QED BY <1>5, <2>1, <2>2
<1>8. ASSUME NEW j \in Jobs, SubmitPush(j) PROVE FencesOK'
  <2>1. ioctl[j] = "push" /\ fence' = fence
    BY <1>8 DEF SubmitPush
  <2>2. CASE ioctl' = [ioctl EXCEPT ![j] = "cleanup"] /\ UNCHANGED job
    BY <1>5, <2>1, <2>2
  <2>3. CASE /\ ~Locked(j)
             /\ queue' = [queue EXCEPT ![FileOf[j]] = Append(@, j)]
             /\ job' = [job EXCEPT ![j] = "queued"]
             /\ ioctl' = [ioctl EXCEPT ![j] = "attach"]
    <3>1. \A i \in Jobs : Fenced(i)' => Fenced(i) /\ i # j
      BY <2>1, <2>3 DEF Fenced, Unfinished, Waiting
    <3>2. ASSUME NEW i \in Jobs, Fenced(i)', NEW b \in OutBos[i]
          PROVE  /\ fence[b] # None
                 /\ \E k \in Jobs : fence[b] = k /\ (k = i \/ Behind(k, i)')
      <4>1. fence[b] # None /\ (fence[b] = i \/ Behind(fence[b], i))
        BY <3>1, <3>2 DEF FencesOK
      <4>2. PICK k \in Jobs : fence[b] = k
        BY <4>1
      <4>3. Behind(k, i) => Behind(k, i)'
        BY <1>1, <3>2 DEF KeepsOrder, Fenced
      <4> QED BY <4>1, <4>2, <4>3
    <3>3. ASSUME NEW i \in Jobs, Fenced(i)', Bos(i) \cap Bos(j) # {}
          PROVE  Behind(j, i)'
      <4>1. FileOf[i] = FileOf[j] /\ FileOf[i] \in Files /\ i # j
        BY <3>1, <3>3, SameFile
      <4>2. Waiting(j)' /\ job'[i] = job[i]
        BY <2>3, <4>1 DEF Waiting
      <4>3. CASE job[i] = "running"
        BY <4>1, <4>2, <4>3 DEF Behind
      <4>4. CASE Waiting(i)
        <5>1. PICK m \in DOMAIN queue[FileOf[i]] : queue[FileOf[i]][m] = i
          BY <4>4 DEF QueueOK
        <5> DEFINE q == queue[FileOf[i]]
                   l == Len(q) + 1
        <5>2. queue'[FileOf[i]] = Append(q, j) /\ q \in Seq(Jobs)
          BY <2>3, <4>1 DEF CoreShape
        <5>3. /\ m \in DOMAIN queue'[FileOf[i]] /\ l \in DOMAIN queue'[FileOf[i]]
              /\ m < l /\ queue'[FileOf[i]][m] = i /\ queue'[FileOf[i]][l] = j
          <6> HIDE DEF q
          <6>1. m \in DOMAIN q /\ q[m] = i
            BY <5>1 DEF q
          <6> QED BY <5>2, <6>1, AppendAt
        <5> HIDE DEF l
        <5> QED BY <4>1, <4>2, <5>3 DEF Behind
      <4> QED BY <3>1, <3>3, <4>3, <4>4 DEF Fenced, Unfinished
    <3>4. ASSUME NEW i \in Jobs, NEW k \in Jobs, Fenced(i)', ioctl'[k] = "attach",
                 Bos(i) \cap Bos(k) # {}
          PROVE  Behind(k, i)'
      <4>1. CASE k = j
        BY <3>3, <3>4, <4>1
      <4>2. CASE k # j
        <5>1. Behind(k, i)
          BY <2>3, <3>1, <3>4, <4>2 DEF FencesOK
        <5> QED BY <1>1, <3>4, <5>1 DEF KeepsOrder, Fenced
      <4> QED BY <4>1, <4>2
    <3>5. ASSUME NEW i \in Jobs, NEW k \in Jobs, ioctl'[i] = "attach",
                 ioctl'[k] = "attach", Bos(i) \cap Bos(k) # {}
          PROVE  i = k
      <4>1. \A x \in Jobs : ioctl[x] = "attach" => Bos(j) \cap Bos(x) = {}
        BY <2>3 DEF Locked
      <4>2. Bos(i) \cap Bos(k) = Bos(k) \cap Bos(i)
        OBVIOUS
      <4>3. i = j \/ ioctl[i] = "attach"
        BY <2>3, <3>5
      <4>4. k = j \/ ioctl[k] = "attach"
        BY <2>3, <3>5
      <4> QED BY <3>5, <4>1, <4>2, <4>3, <4>4 DEF FencesOK
    <3> QED BY <2>1, <3>2, <3>4, <3>5 DEF FencesOK, Bos, Behind, Waiting
  <2> QED BY <1>8, <2>2, <2>3, PushStep
<1>9. ASSUME NEW j \in Jobs, SubmitAttach(j) PROVE FencesOK'
  <2>1. /\ ioctl[j] = "attach" /\ ioctl' = [ioctl EXCEPT ![j] = "put"]
        /\ fence' = [b \in BOs |-> IF b \in OutBos[j] THEN j ELSE fence[b]]
        /\ UNCHANGED <<job, queue>>
    BY <1>9 DEF SubmitAttach, Go, FencedBos
  <2>2. \A i, k \in Jobs : Behind(k, i) => Behind(k, i)'
    BY <2>1 DEF Behind, Waiting
  <2>3. \A i \in Jobs : Fenced(i)' => Fenced(i) \/ i = j
    BY <2>1 DEF Fenced, Unfinished, Waiting
  <2>4. ASSUME NEW i \in Jobs, Fenced(i)', NEW b \in OutBos[i]
        PROVE  /\ fence'[b] # None
               /\ \E k \in Jobs : fence'[b] = k /\ (k = i \/ Behind(k, i)')
    <3>1. b \in BOs /\ b \in Bos(i) /\ j # None
      BY <2>4 DEF Bos
    <3>2. CASE b \in OutBos[j]
      <4>1. fence'[b] = j
        BY <2>1, <3>1, <3>2
      <4>2. i # j => Behind(j, i)
        <5>1. Bos(i) \cap Bos(j) # {}
          BY <3>1, <3>2 DEF Bos
        <5> QED BY <2>1, <2>3, <2>4, <5>1 DEF FencesOK
      <4> QED BY <2>2, <3>1, <4>1, <4>2
    <3>3. CASE b \notin OutBos[j]
      <4>1. fence'[b] = fence[b] /\ Fenced(i)
        BY <2>1, <2>3, <2>4, <3>1, <3>3
      <4>2. fence[b] # None /\ (fence[b] = i \/ Behind(fence[b], i))
        BY <2>4, <4>1 DEF FencesOK
      <4>3. PICK k \in Jobs : fence[b] = k
        BY <3>1, <4>2
      <4> QED BY <2>2, <4>1, <4>2, <4>3
    <3> QED BY <3>2, <3>3
  <2>5. ASSUME NEW i \in Jobs, NEW k \in Jobs, Fenced(i)', ioctl'[k] = "attach",
               Bos(i) \cap Bos(k) # {}
        PROVE  Behind(k, i)'
    <3>1. k # j /\ ioctl[k] = "attach"
      BY <2>1, <2>5
    <3>2. i # j
      BY <2>1, <2>5, <3>1 DEF FencesOK
    <3>3. Behind(k, i)
      BY <2>3, <2>5, <3>1, <3>2 DEF FencesOK
    <3> QED BY <2>2, <3>3
  <2>6. \A i, k \in Jobs : ioctl'[i] = "attach" /\ ioctl'[k] = "attach"
                           /\ Bos(i) \cap Bos(k) # {} => i = k
    BY <2>1 DEF FencesOK
  <2> QED BY <2>4, <2>5, <2>6 DEF FencesOK, Bos, Behind, Waiting
<1>10. ASSUME NEW j \in Jobs, SubmitReturn(j) PROVE FencesOK'
  <2>1. PICK last \in {"dropped", "freed"} :
          JobPut(j, last, job[j]) /\ (last = "freed" \/ ioctl[j] = "cleanup")
    BY <1>10 DEF SubmitReturn
  <2>2. /\ ioctl[j] \in {"cleanup", "put"} /\ fence' = fence
        /\ ioctl' = [ioctl EXCEPT ![j] = "returned"]
    BY <1>10 DEF SubmitReturn, Go
  <2>3. job' = [job EXCEPT ![j] = IF jobRef[j] = 1 THEN last ELSE job[j]]
    BY <2>1, PutStep
  <2>4. \A i \in Jobs : Fenced(i)' => Fenced(i)
    BY <2>2, <2>3 DEF JobsOK, Fenced, Unfinished, Waiting
  <2>5. \A k \in Jobs : ioctl'[k] = "attach" => ioctl[k] = "attach"
    BY <2>2
  <2> QED BY <1>1, <2>2, <2>4, <2>5, FencesKept
<1>11. ASSUME NEW j \in Jobs, FreeJob(j) PROVE FencesOK'
  <2>1. JobPut(j, "freed", "released") /\ UNCHANGED <<fence, ioctl>>
    BY <1>11 DEF FreeJob
  <2>2. job' = [job EXCEPT ![j] = IF jobRef[j] = 1 THEN "freed" ELSE "released"]
    BY <2>1, PutStep
  <2> QED BY <1>2, <2>1, <2>2 DEF Unfinished, Waiting
<1>12. ASSUME NEW j \in Jobs, NEW c \in Cores, RunJob(c, j) \/ FinishJob(c, j) PROVE FencesOK'
  <2>1. job[j] \in {"queued", "running"}
    BY <1>12 DEF RunJob, FinishJob, CoresOK, CoreShape
  <2>2. UNCHANGED <<fence, ioctl>> /\ \A i \in Jobs \ {j} : job'[i] = job[i]
    BY <1>12, RunFacts DEF FinishJob
  <2> QED BY <1>2, <2>1, <2>2 DEF Unfinished, Waiting
<1>13. ASSUME NEW j \in Jobs, BuryJob(j) PROVE FencesOK'
  BY <1>2, <1>13 DEF BuryJob, Unfinished, Waiting
<1>14. CASE UNCHANGED vars
  BY <1>2, <1>14 DEF vars, Unfinished, Waiting
<1> QED
  BY <1>3, <1>4, <1>6, <1>7, <1>8, <1>9, <1>10, <1>11, <1>12, <1>13, <1>14 DEF Next

-----------------------------------------------------------------------------
(* The job will write to none of its BOs any more, or never has.            *)
Settled(j) == job[j] \in {"none", "dropped"} \/ ioctl[j] = "oops" \/ Finished(j)

(* A job that is settled stays so until it is submitted.                    *)
LEMMA SettledStep ==
  ASSUME ShapeOK, JobsOK, CoresOK, [Next]_vars, NEW j \in Jobs, Settled(j), ~SubmitBegin(j)
  PROVE  Settled(j)'
<1> USE DEF ShapeOK, JobShape, Settled, Finished
<1>1. ASSUME UNCHANGED <<ioctl, job>> PROVE Settled(j)'
  BY <1>1
<1>2. ASSUME NEW f \in Files, Open(f) \/ Closing(f) PROVE Settled(j)'
  BY <1>1, <1>2 DEF Open, Closing
<1>3. ASSUME NEW f \in Files, Postclose(f) PROVE Settled(j)'
  BY <1>3 DEF Postclose
<1>4. ASSUME NEW b \in BOs, CreateBo(b) \/ CloseHandle(b) \/ PrepBo(b) \/ FiniBo(b)
      PROVE  Settled(j)'
  BY <1>1, <1>4 DEF CreateBo, CloseHandle, PrepBo, FiniBo
<1>5. ASSUME NEW k \in Jobs, SubmitBegin(k) PROVE Settled(j)'
  <2>1. k # j
    BY <1>5
  <2> QED BY <1>5, <2>1 DEF SubmitBegin, Go
<1>6. ASSUME NEW k \in Jobs, SubmitCopy(k) \/ SubmitLookup(k) \/ SubmitAttach(k)
      PROVE  Settled(j)'
  <2>1. ioctl[k] # "oops" /\ job' = job /\ \E s : ioctl' = [ioctl EXCEPT ![k] = s]
    BY <1>6 DEF SubmitCopy, SubmitLookup, LookupFails, SubmitAttach, Go
  <2> QED BY <2>1
<1>7. ASSUME NEW k \in Jobs, SubmitPush(k) PROVE Settled(j)'
  <2>1. ioctl[k] = "push" /\ job[k] = "building"
    BY <1>7 DEF SubmitPush, JobsOK
  <2>2. k # j
    BY <2>1
  <2> QED BY <1>7, <2>2, PushStep
<1>8. ASSUME NEW k \in Jobs, SubmitReturn(k) PROVE Settled(j)'
  <2>1. PICK last \in {"dropped", "freed"} : JobPut(k, last, job[k])
    BY <1>8 DEF SubmitReturn
  <2>2. ioctl[k] # "oops" /\ ioctl' = [ioctl EXCEPT ![k] = "returned"]
    BY <1>8 DEF SubmitReturn, Go
  <2> QED BY <2>1, <2>2, PutStep
<1>9. ASSUME NEW k \in Jobs, FreeJob(k) PROVE Settled(j)'
  <2>1. JobPut(k, "freed", "released") /\ ioctl' = ioctl
    BY <1>9 DEF FreeJob
  <2> QED BY <2>1, PutStep
<1>10. ASSUME NEW k \in Jobs, NEW c \in Cores, RunJob(c, k) \/ FinishJob(c, k)
       PROVE  Settled(j)'
  <2>1. job[k] \in {"queued", "running"} /\ ioctl[k] # "oops"
    BY <1>10 DEF RunJob, FinishJob, CoresOK, CoreShape, JobsOK
  <2>2. ioctl' = ioctl /\ \A i \in Jobs \ {k} : job'[i] = job[i]
    BY <1>10, RunFacts DEF FinishJob
  <2>3. k # j
    BY <2>1
  <2> QED BY <2>2, <2>3
<1>11. ASSUME NEW k \in Jobs, BuryJob(k) PROVE Settled(j)'
  BY <1>11 DEF BuryJob
<1>12. CASE UNCHANGED vars
  BY <1>1, <1>12 DEF vars
<1> QED
  BY <1>2, <1>3, <1>4, <1>5, <1>6, <1>7, <1>8, <1>9, <1>10, <1>11, <1>12 DEF Next

(* A BO is given to the CPU only after its last writer: the jobs before it   *)
(* in the file are finished too.                                            *)
LEMMA CpuStep ==
  ASSUME ShapeOK, JobsOK, CoresOK, QueueOK, FencesOK, CpuOwnsOutput, [Next]_vars
  PROVE  CpuOwnsOutput'
<1> SUFFICES ASSUME NEW b \in cpuOwns', NEW j \in Jobs, b \in OutBos[j]
             PROVE  Settled(j)'
  BY DEF CpuOwnsOutput, Settled, Finished
<1>1. CASE b \in cpuOwns
  <2>1. Settled(j)
    BY <1>1 DEF CpuOwnsOutput, Settled
  <2>2. ~SubmitBegin(j)
    BY <1>1 DEF SubmitBegin, Bos
  <2> QED BY <2>1, <2>2, SettledStep
<1>2. CASE b \notin cpuOwns
  <2>1. b \in BOs /\ b \in Bos(j)
    BY DEF Bos
  <2>2. PrepBo(b)
    <3>1. (\E x \in BOs : PrepBo(x)) \/ cpuOwns' \subseteq cpuOwns
      BY DEF Next, Open, Closing, Postclose, CreateBo, CloseHandle, FiniBo, SubmitBegin,
        SubmitCopy, SubmitLookup, SubmitPush, SubmitAttach, SubmitReturn, RunJob, FinishJob,
        BuryJob, FreeJob, vars
    <3>2. ASSUME NEW x \in BOs, PrepBo(x) PROVE x = b
      BY <1>2, <3>2 DEF PrepBo
    <3> QED BY <1>2, <3>1, <3>2
  <2>3. ioctl[j] \in {"no", "oops", "returned"} /\ UNCHANGED <<ioctl, job>>
    BY <2>1, <2>2 DEF PrepBo, InIoctl
  <2>4. fence[b] # None => Finished(fence[b])
    BY <2>2 DEF PrepBo, PrepReady
  <2>5. ~Fenced(j)
    <3>1. SUFFICES ASSUME Fenced(j), fence[b] # None,
                          fence[b] = j \/ (fence[b] \in Jobs /\ Behind(fence[b], j))
                   PROVE  FALSE
      BY <2>1 DEF FencesOK, ShapeOK, JobShape
    <3> QED BY <2>4, <3>1 DEF Fenced, Unfinished, Waiting, Behind, Finished
  <2>6. Settled(j)
    BY <2>3, <2>5 DEF JobsOK, Fenced, Settled, Finished, ShapeOK, JobShape
  <2> QED BY <2>3, <2>6 DEF Settled, Finished
<1> QED BY <1>1, <1>2

-----------------------------------------------------------------------------
LEMMA OrderInit == Init => OrderInv
<1> SUFFICES ASSUME Init PROVE OrderInv
  OBVIOUS
<1>1. ShapeOK
  BY DEF Init, ShapeOK, FileShape, JobShape, CoreShape
<1>2. JobsOK /\ FilesOK /\ CoresOK /\ QueueOK
  BY <1>1 DEF Init, JobsOK, FilesOK, CoresOK, QueueOK, Waiting, ShapeOK, CoreShape
<1>3. FencesOK /\ CpuOwnsOutput
  BY DEF Init, FencesOK, Fenced, CpuOwnsOutput
<1> QED BY <1>1, <1>2, <1>3 DEF OrderInv

LEMMA OrderStep == OrderInv /\ [Next]_vars => OrderInv'
BY ShapeStep, JobsStep, FilesStep, CoresStep, QueueStep, FencesStep, CpuStep DEF OrderInv

(* Whatever fails, and however jobs, ioctls and closes are interleaved: the *)
(* order of a file's jobs and of the fences they leave.                     *)
THEOREM OrderInvariant == Spec => []OrderInv
<1>1. Init => OrderInv
  BY OrderInit
<1>2. OrderInv /\ [Next]_vars => OrderInv'
  BY OrderStep
<1> QED BY <1>1, <1>2, PTL DEF Spec

(* The CPU never owns a BO that an accepted job is still to write, though   *)
(* the dma_resv of the BO holds only the fence of the last writer, and that *)
(* job may run before it has left it (gem.c:162, job.c:362-389).            *)
THEOREM CpuOwnsOutputAlways == Spec => []CpuOwnsOutput
<1>1. OrderInv => CpuOwnsOutput
  BY DEF OrderInv
<1> QED BY <1>1, OrderInvariant, PTL

(* Jobs of which one writes what another uses never run together, on any    *)
(* number of cores.                                                         *)
THEOREM NoConflictAlways == Spec => []NoConflict
<1>1. OrderInv => NoConflict
  <2> SUFFICES ASSUME OrderInv, NEW c \in Cores, NEW d \in Cores, running[c] # None,
                      running[d] # None, OutBos[running[c]] \cap Bos(running[d]) # {}
               PROVE  c = d
    BY DEF NoConflict
  <2>1. running[c] \in Jobs /\ running[d] \in Jobs
    BY DEF OrderInv, ShapeOK, CoreShape
  <2>2. FileOf[running[c]] = FileOf[running[d]]
    BY <2>1, SameFile DEF Bos
  <2> QED BY <2>2 DEF OrderInv, CoresOK
<1> QED BY <1>1, OrderInvariant, PTL

(* A job is there for the ioctl that pushed it, however early the scheduler *)
(* runs, finishes and frees it.                                             *)
THEOREM IoctlHoldsJobAlways == Spec => []IoctlHoldsJob
<1>1. OrderInv => IoctlHoldsJob
  BY DEF OrderInv, ShapeOK, JobShape, JobsOK, IoctlHoldsJob, InIoctl, Unfinished, Waiting
<1> QED BY <1>1, OrderInvariant, PTL
=============================================================================
