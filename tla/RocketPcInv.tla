----------------------------- MODULE RocketPcInv -----------------------------
(***************************************************************************)
(* The inductive invariant of RocketPc.  What is left of a program is      *)
(* known from its length alone: the writes are numbered from the end, 1    *)
(* starts the unit and 0 takes OP_EN back, so that an interrupted program  *)
(* says what has been written already and what has not.                    *)
(***************************************************************************)
EXTENDS RocketPcProps

Registers == {"OPERATION_ENABLE", "BASE_ADDRESS", "REGISTER_AMOUNTS", "TASK_CON", "TASK_DMA_BASE_ADDR",
              "CNA", "CORE", "DPU"}
Words == (0 .. 2^16 - 1) \cup {None}

(* Threads that hold job_lock or may write to registers.                   *)
Locked == {"clear", "reopen", "disable", "complete", "write"}
Unlocked == {"idle", "stop", "clearall", "step"}

RegTypes ==
  /\ reg = [r \in Registers |-> reg[r]]
  /\ reg.TASK_CON.TASK_NUMBER \in 0 .. 2^12 - 1
  /\ reg.REGISTER_AMOUNTS.PC_DATA_AMOUNT \in 0 .. 2^16 - 1
  /\ executer \in 0 .. 1

BitTypes ==
  /\ raw \subseteq CLEAR_ALL
  /\ mask \subseteq CLEAR_ALL
  /\ irqRaw \subseteq CLEAR_ALL
  /\ thrSt \subseteq CLEAR_ALL

TableTypes ==
  /\ sram \in [Tables -> [0 .. LutWords - 1 -> Words]]
  /\ lutAt \in Tables \X (0 .. 1023)

JobTypes ==
  /\ runJob \in ValidJobs \cup {None}
  /\ inFlight \in ValidJobs \cup {None}
  /\ nextTask \in [ValidJobs -> Nat]
  /\ \A j \in ValidJobs : nextTask[j] <= Job[j].task_count
  /\ left \in Seq(Jobs)

(* Who holds job_lock, and what that keeps still: the job whose program is *)
(* being written is current as long as something of it is left.            *)
LockInv ==
  /\ runPc \in {"idle", "submit", "write"} /\ thrPc \in Locked \cup Unlocked
  /\ holder \in {"run", "thread", None}
  /\ tdrPc \in {"idle", "clear", "reset"}
  /\ holder = "run" <=> runPc = "write"
  /\ holder = "thread" <=> thrPc \in Locked
  /\ holder # None => inFlight # None
  /\ todo # <<>> => holder = "run" \/ thrPc = "write"
  /\ thrPc \in {"clear", "reopen", "disable"} => Chain(inFlight)

(* A reset finds nothing current and nobody at work.                       *)
ResetInv ==
  /\ pending <=> tdrPc # "idle"
  /\ runPc = "submit" => runJob \in ValidJobs /\ nextTask[runJob] = 0 /\ inFlight = None /\ tdrPc = "idle"
  /\ tdrPc = "reset" => inFlight = None /\ runPc = "idle"

-----------------------------------------------------------------------------
(* The number of the next write.                                           *)
Back == IF Chain(inFlight) /\ ~PulseKeep THEN 1 ELSE 0
Ahead == Len(todo) - Back

(* Word a of table t, the selection of the table being word -1.            *)
WordAt(t, a) == IF t = 1 THEN 9 + LutWords - a ELSE 10 + 2 * LutWords - a

TableWrite(j, k) ==
  LET t == IF k <= WordAt(1, -1) THEN 1 ELSE 0
      a == WordAt(t, 0) - k IN
  IF a = -1 THEN W("LUT_ACCESS_CFG", LUT_ACCESS_CFG(t, 0))
  ELSE W("LUT_ACCESS_DATA", LUT_ACCESS_DATA(LutWord(j, t, a)))

(* The task a program of job j starts when n are counted as started.       *)
TaskOf(j, n) == Job[j].tasks[IF Chain(j) THEN 1 ELSE n]
MaskOf(j) == IF Chain(j) THEN Reopened(j) ELSE CLEAR_ALL
DmaOf(j) == IF Chain(j) /\ Walk THEN Job[j].task_desc_addr ELSE 0

StartWrite(j, n, k) ==
  CASE k = 0 -> W("OPERATION_ENABLE", OPERATION_ENABLE(0))
    [] k = 1 -> W("OPERATION_ENABLE", OPERATION_ENABLE(1))
    [] k = 2 -> W("TASK_DMA_BASE_ADDR", TASK_DMA_BASE_ADDR(DmaOf(j)))
    [] k = 3 -> W("TASK_CON", TASK_CON(1, 1, Steps(j)))
    [] k = 4 -> W("INTERRUPT_CLEAR", CLEAR_ALL)
    [] k = 5 -> W("INTERRUPT_MASK", MaskOf(j))
    [] k = 6 -> W("REGISTER_AMOUNTS", Amount(TaskOf(j, n)))
    [] k = 7 -> W("BASE_ADDRESS", BASE_ADDRESS(TaskOf(j, n).regcmd))

(* Write k of that program.                                                *)
Due(j, n, k) ==
  CASE k < 8 -> StartWrite(j, n, k)
    [] k = 8 /\ Chain(j) -> W("BASE_ADDRESS", BASE_ADDRESS(1))
    [] k = 9 /\ Chain(j) -> W("LUT_SETTLED", Job[j].lut)
    [] k > 9 /\ Chain(j) -> TableWrite(j, k)
    [] k = 8 /\ ~Chain(j) -> W("CORE", CORE_S_POINTER(Index))
    [] k = 9 /\ ~Chain(j) -> W("CNA", CNA_S_POINTER(Index))
    [] k = 10 /\ ~Chain(j) -> W("BASE_ADDRESS", BASE_ADDRESS(1))
    [] k = 11 /\ ~Chain(j) -> W("RESET", 0)

OfLength(s, n) == s = [i \in 1 .. n |-> s[i]]

ProgramInv ==
  /\ Len(todo) \in Nat
  /\ OfLength(todo, Len(todo))
  /\ todo # <<>> =>
       /\ \A i \in 1 .. Len(todo) : todo[i] = Due(inFlight, nextTask[inFlight], Ahead + 1 - i)
       /\ IF Chain(inFlight)
            THEN Ahead <= WordAt(0, -1) /\ (Ahead >= 9 => Job[inFlight].lut # None)
            ELSE Ahead <= 11 /\ nextTask[inFlight] # 0

(* What the writes before number k have left, for the unit to take over.   *)
Written ==
  todo # <<>> =>
    LET j == inFlight
        task == TaskOf(j, nextTask[j]) IN
    /\ Ahead < 7 => reg.BASE_ADDRESS = BASE_ADDRESS(task.regcmd)
    /\ Ahead < 6 => reg.REGISTER_AMOUNTS = Amount(task)
    /\ Ahead < 5 => mask \subseteq MaskOf(j)
    /\ Ahead < 3 => reg.TASK_CON = TASK_CON(1, 1, Steps(j))
    /\ Ahead < 8 /\ ~Chain(j) => reg.CORE # None
    /\ Ahead < 9 /\ ~Chain(j) => reg.CNA # None

(* Tables are filled word by word, and the cache says what is in them      *)
(* unless they are being filled.                                           *)
Loading == todo # <<>> /\ Chain(inFlight) /\ Ahead >= 9

LoadInv ==
  Loading =>
    /\ \A t \in Tables : \A a \in 0 .. LutWords - 1 :
         Ahead < WordAt(t, a) => sram[t][a] = LutWord(inFlight, t, a)
    /\ Ahead < WordAt(1, -1) => lutAt = <<1, WordAt(1, 0) - Ahead>>
    /\ Ahead \in WordAt(1, -1) .. WordAt(0, 0) => lutAt = <<0, WordAt(0, 0) - Ahead>>

CacheInv ==
  /\ lutValid /\ ~Loading => sram = TableWords(lutCache)
  /\ todo # <<>> /\ Chain(inFlight) /\ Ahead < 9 /\ Job[inFlight].lut # None =>
       lutValid /\ lutCache = Job[inFlight].lut

(* What the unit took over.                                                *)
UnitInv ==
  unit # None =>
    LET j == unit.job
        task == Job[j].tasks[Number(unit) + 1] IN
    /\ j \in ValidJobs /\ Number(unit) \in 0 .. Job[j].task_count - 1
    /\ unit.reg.BASE_ADDRESS = BASE_ADDRESS(task.regcmd)
    /\ unit.reg.REGISTER_AMOUNTS = Amount(task)
    /\ unit.reg.TASK_CON = TASK_CON(1, 1, Steps(j))
    /\ unit.mask \subseteq MaskOf(j)
    /\ ~Chain(j) => unit.reg.CNA # None /\ unit.reg.CORE # None
    /\ Chain(j) /\ Job[j].lut # None => unit.sram = TableWords(Job[j].lut)

(* Once a chain's mask has been written, it is open for the last task or   *)
(* the irq thread is woken or deals with it.                               *)
MaskInv ==
  inFlight # None /\ Chain(inFlight) /\ ~pending /\ (todo = <<>> \/ Ahead < 5)
    /\ Job[inFlight].last_int_mask \cap mask = {}
  => thrWake \/ thrPc \notin {"idle", "write"}

PcInv ==
  /\ RegTypes /\ BitTypes /\ TableTypes /\ JobTypes
  /\ LockInv /\ ResetInv
  /\ ProgramInv /\ Written /\ LoadInv /\ CacheInv
  /\ UnitInv /\ MaskInv
=============================================================================
