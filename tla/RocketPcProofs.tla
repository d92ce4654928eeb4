--------------------------- MODULE RocketPcProofs ---------------------------
(***************************************************************************)
(* Proofs about RocketPc, for every job, table size and variant: what the  *)
(* unit is started with is the current job, whatever interrupts the        *)
(* writing, the lookup tables are those of the chain, and a chain is not   *)
(* left with its interrupts closed.                                        *)
(***************************************************************************)
EXTENDS RocketPcInv, SequenceTheorems, TLAPS

(* The fields of a job as userspace passes them.                           *)
LEMMA JobNumbers ==
  ASSUME NEW x \in DrmRocketJob
  PROVE  x.task_count \in Nat /\ x.task_struct_size \in Nat /\ x.lut_count \in Nat
<1>1. U32 \in Nat
  BY SubmitAssumption
<1>2. x.task_count \in 0 .. U32 - 1 /\ x.task_struct_size \in 0 .. U32 - 1 /\ x.lut_count \in 0 .. U32 - 1
  BY <1>1 DEF DrmRocketJob
<1> QED
  BY <1>1, <1>2

LEMMA JobMask ==
  ASSUME NEW x \in DrmRocketJob
  PROVE  x.last_int_mask \subseteq 0 .. 16
<1>1. U32 \in Nat
  BY SubmitAssumption
<1> QED
  BY <1>1 DEF DrmRocketJob

LEMMA JobLut ==
  ASSUME NEW x \in DrmRocketJob
  PROVE  x.lut_data \in Seq(0 .. 2^16 - 1)
<1>1. U32 \in Nat
  BY SubmitAssumption
<1> QED
  BY <1>1 DEF DrmRocketJob

(* The job structure of an accepted job, and what rocket_copy_tasks() and  *)
(* rocket_ioctl_submit_job() have checked of it.                           *)
LEMMA JobFacts ==
  ASSUME NEW j \in ValidJobs
  PROVE  /\ j \in Jobs /\ j # None /\ Job[j] = RocketJobOf(Args[j]) /\ Args[j] \in DrmRocketJob
         /\ Job[j].task_count = Args[j].task_count /\ Job[j].task_count \in Nat \ {0}
         /\ Job[j].last_int_mask \subseteq CLEAR_ALL /\ Job[j].last_int_mask # {}
<1>1. j \in Jobs /\ Valid(Args[j]) /\ Job[j] = RocketJobOf(Args[j])
  BY DEF ValidJobs, Job
<1>2. Args[j] \in DrmRocketJob /\ j # None /\ U32 \in Nat
  BY <1>1, SubmitAssumption
<1>3. Args[j].task_count \in Nat /\ Args[j].last_int_mask \subseteq 0 .. 16
  BY <1>2, JobNumbers, JobMask
<1>4. Args[j].task_count # 0
  BY <1>1 DEF Valid
<1>5. Job[j].task_count = Args[j].task_count
  BY <1>1 DEF RocketJobOf
<1>6. Job[j].last_int_mask \subseteq CLEAR_ALL /\ Job[j].last_int_mask # {}
  BY <1>1, <1>3 DEF RocketJobOf, CLEAR_ALL, MASK_DEFAULT
<1> QED
  BY <1>1, <1>2, <1>3, <1>4, <1>5, <1>6

(* The tasks are the ones at the addresses userspace means, and none is    *)
(* empty.                                                                  *)
LEMMA TaskFacts ==
  ASSUME NEW j \in ValidJobs, NEW n \in 1 .. Job[j].task_count
  PROVE  /\ Job[j].tasks[n] = UserTasks[TaskAddress(Args[j], n - 1)]
         /\ Job[j].tasks[n] \in DrmRocketTask
         /\ Job[j].tasks[n].regcmd_count \in Nat \ {0}
<1>1. Valid(Args[j]) /\ Job[j].tasks = CopiedTasks(Args[j]) /\ n \in 1 .. Args[j].task_count
  <2>1. Job[j] = RocketJobOf(Args[j]) /\ Job[j].task_count = Args[j].task_count
    BY JobFacts
  <2>2. Job[j].tasks = CopiedTasks(Args[j])
    BY <2>1 DEF RocketJobOf
  <2> QED
    BY <2>1, <2>2 DEF ValidJobs
<1>2. CopiedTasks(Args[j])[n] = UserTasks[TaskAddress(Args[j], n - 1)]
  BY <1>1 DEF CopiedTasks
<1>3. TaskAddress(Args[j], n - 1) \in DOMAIN UserTasks
  BY <1>1 DEF Valid, Readable
<1>4. CopiedTasks(Args[j])[n] \in DrmRocketTask
  BY <1>2, <1>3, SubmitAssumption
<1>5. CopiedTasks(Args[j])[n].regcmd_count # 0
  <2>1. n \in DOMAIN CopiedTasks(Args[j])
    BY <1>1 DEF CopiedTasks
  <2> QED
    BY <1>1, <2>1 DEF Valid, NoEmptyTask
<1>6. CopiedTasks(Args[j])[n].regcmd_count \in Nat
  BY <1>4, SubmitAssumption DEF DrmRocketTask
<1> QED
  BY <1>1, <1>2, <1>4, <1>5, <1>6

LEMMA LutWordsNat == LutWords \in Nat \ {0} /\ LutWords <= 1023
BY SubmitAssumption

(* A job brings two tables of the right length, or none.                   *)
LEMMA LutFacts ==
  ASSUME NEW j \in ValidJobs
  PROVE  /\ Args[j].lut_count # 0 => Job[j].lut = Args[j].lut_data /\ Job[j].lut # None
         /\ Job[j].lut # None =>
              \A t \in Tables : \A a \in 0 .. LutWords - 1 : LutWord(j, t, a) \in 0 .. 2^16 - 1
<1>1. j \in Jobs /\ Job[j] = RocketJobOf(Args[j]) /\ Args[j] \in DrmRocketJob
  BY JobFacts
<1>2. Args[j].lut_data # None
  BY <1>1, SubmitAssumption
<1>3. Args[j].lut_count # 0 => Job[j].lut = Args[j].lut_data
  BY <1>1 DEF RocketJobOf
<1>4. ASSUME Job[j].lut # None, NEW t \in Tables, NEW a \in 0 .. LutWords - 1
      PROVE  LutWord(j, t, a) \in 0 .. 2^16 - 1
  <2>1. Args[j].lut_count # 0 /\ Job[j].lut = Args[j].lut_data
    BY <1>1, <1>4 DEF RocketJobOf
  <2>2. Args[j].lut_count = 2 * LutWords
    BY <2>1 DEF ValidJobs, Valid
  <2>3. Len(Args[j].lut_data) = 2 * LutWords /\ Args[j].lut_data \in Seq(0 .. 2^16 - 1)
    <3>1. Len(Args[j].lut_data) = Args[j].lut_count
      BY <1>1, SubmitAssumption
    <3> QED
      BY <1>1, <2>2, <3>1, JobLut
  <2>4. t * LutWords + a + 1 \in 1 .. 2 * LutWords
    <3> DEFINE L == LutWords
    <3>1. L \in Nat /\ a \in Nat /\ a < L
      BY LutWordsNat
    <3>2. t = 0 \/ t = 1
      BY DEF Tables
    <3>3. CASE t = 0
      BY <3>1, <3>3
    <3>4. CASE t = 1
      BY <3>1, <3>4
    <3> QED
      BY <3>2, <3>3, <3>4
  <2>5. Args[j].lut_data[t * LutWords + a + 1] \in 0 .. 2^16 - 1
    <3> DEFINE s == Args[j].lut_data
               i == t * LutWords + a + 1
    <3> HIDE DEF s, i
    <3>1. s \in Seq(0 .. 2^16 - 1) /\ i \in 1 .. Len(s)
      BY <2>3, <2>4 DEF s, i
    <3>2. s[i] \in 0 .. 2^16 - 1
      BY <3>1, ElementOfSeq
    <3> QED
      BY <3>2 DEF s, i
  <2> QED
    BY <2>1, <2>5 DEF LutWord
<1> QED
  BY <1>1, <1>2, <1>3, <1>4

-----------------------------------------------------------------------------
(* What the fields of the registers can hold.                              *)
LEMMA Powers == 2^0 = 1
OBVIOUS

LEMMA Field12 ==
  ASSUME NEW v \in Int
  PROVE  Field(v, 0, 12) \in 0 .. 2^12 - 1 /\ (v \in 0 .. 2^12 - 1 => Field(v, 0, 12) = v)
<1>1. v \div 1 = v
  OBVIOUS
<1>2. Field(v, 0, 12) = v % 2^12
  BY <1>1, Powers DEF Field
<1>3. v % 2^12 \in 0 .. 2^12 - 1
  OBVIOUS
<1>4. v \in 0 .. 2^12 - 1 => v % 2^12 = v
  OBVIOUS
<1> QED
  BY <1>2, <1>3, <1>4

LEMMA Field16 ==
  ASSUME NEW v \in Int
  PROVE  Field(v, 0, 16) \in 0 .. 2^16 - 1 /\ (v \in 0 .. 2^16 - 1 => Field(v, 0, 16) = v)
<1>1. v \div 1 = v
  OBVIOUS
<1>2. Field(v, 0, 16) = v % 2^16
  BY <1>1, Powers DEF Field
<1>3. v % 2^16 \in 0 .. 2^16 - 1
  OBVIOUS
<1>4. v \in 0 .. 2^16 - 1 => v % 2^16 = v
  OBVIOUS
<1> QED
  BY <1>2, <1>3, <1>4

LEMMA NumberFits ==
  ASSUME NEW n \in Int, NEW a, NEW b
  PROVE  /\ TASK_CON(a, b, n).TASK_NUMBER \in 0 .. 2^12 - 1
         /\ n \in 0 .. 2^12 - 1 => TASK_CON(a, b, n).TASK_NUMBER = n
<1>1. TASK_CON(a, b, n).TASK_NUMBER = Field(n, 0, 12)
  BY DEF TASK_CON, TaskNumber
<1> QED
  BY <1>1, Field12

LEMMA AmountFits ==
  ASSUME NEW task, task.regcmd_count \in Nat \ {0}
  PROVE  /\ DIV_ROUND_UP(task.regcmd_count, Scale) \in Nat \ {0}
         /\ Amount(task).PC_DATA_AMOUNT \in 0 .. 2^16 - 1
         /\ Amount(task).PC_DATA_AMOUNT = Field(DIV_ROUND_UP(task.regcmd_count, Scale) - 1, 0, 16)
<1> DEFINE n == task.regcmd_count
<1>1. Scale = 1 \/ Scale = 2
  BY PcAssumption DEF Scales
<1>2. DIV_ROUND_UP(n, Scale) \in Nat \ {0}
  <2>1. CASE Scale = 1
    BY <2>1 DEF DIV_ROUND_UP
  <2>2. CASE Scale = 2
    BY <2>2 DEF DIV_ROUND_UP
  <2> QED
    BY <1>1, <2>1, <2>2
<1>3. Amount(task).PC_DATA_AMOUNT = Field(DIV_ROUND_UP(n, Scale) - 1, 0, 16)
  BY DEF Amount, REGISTER_AMOUNTS
<1>4. DIV_ROUND_UP(n, Scale) - 1 \in Int
  BY <1>2
<1>5. Field(DIV_ROUND_UP(n, Scale) - 1, 0, 16) \in 0 .. 2^16 - 1
  BY <1>4, Field16
<1> QED
  BY <1>2, <1>3, <1>5
-----------------------------------------------------------------------------
(* Sequences by their elements.                                            *)
LEMMA IsSeq ==
  ASSUME NEW s, NEW n \in Nat, OfLength(s, n)
  PROVE  s \in Seq({s[i] : i \in 1 .. n}) /\ Len(s) = n
BY DEF OfLength

LEMMA TailOf ==
  ASSUME NEW s, NEW n \in Nat, OfLength(s, n), s # <<>>
  PROVE  /\ n > 0 /\ Head(s) = s[1]
         /\ Len(Tail(s)) = n - 1
         /\ OfLength(Tail(s), n - 1)
         /\ \A i \in 1 .. n - 1 : Tail(s)[i] = s[i + 1]
<1> DEFINE S == {s[i] : i \in 1 .. n}
<1>1. s \in Seq(S) /\ Len(s) = n
  BY IsSeq DEF OfLength
<1> HIDE DEF S
<1>2. n > 0
  BY <1>1, EmptySeq
<1>3. Tail(s) \in Seq(S) /\ Len(Tail(s)) = n - 1 /\ \A i \in 1 .. n - 1 : Tail(s)[i] = s[i + 1]
  BY <1>1, HeadTailProperties
<1> QED
  BY <1>1, <1>2, <1>3, LenProperties DEF OfLength

-----------------------------------------------------------------------------
(* A program by the numbers of its writes.                                 *)
LEMMA StartChainDue ==
  ASSUME NEW j \in ValidJobs, Chain(j), NEW n
  PROVE  /\ OfLength(StartChain(j), 8)
         /\ \A i \in 1 .. 8 : StartChain(j)[i] = Due(j, n, 9 - i)
<1>1. OfLength(StartChain(j), 8)
  BY DEF StartChain, OfLength
<1>2. StartChain(j)[1] = Due(j, n, 8)
  BY DEF StartChain, Due
<1>3. StartChain(j)[2] = Due(j, n, 7)
  BY DEF StartChain, Due, StartWrite, TaskOf
<1>4. StartChain(j)[3] = Due(j, n, 6)
  BY DEF StartChain, Due, StartWrite, TaskOf
<1>5. StartChain(j)[4] = Due(j, n, 5)
  BY DEF StartChain, Due, StartWrite, MaskOf, Reopened
<1>6. StartChain(j)[5] = Due(j, n, 4)
  BY DEF StartChain, Due, StartWrite
<1>7. StartChain(j)[6] = Due(j, n, 3)
  BY JobFacts DEF StartChain, Due, StartWrite, Steps
<1>8. StartChain(j)[7] = Due(j, n, 2)
  BY DEF StartChain, Due, StartWrite, DmaOf
<1>9. StartChain(j)[8] = Due(j, n, 1)
  BY DEF StartChain, Due, StartWrite
<1> QED
  BY <1>1, <1>2, <1>3, <1>4, <1>5, <1>6, <1>7, <1>8, <1>9

LEMMA StartTaskDue ==
  ASSUME NEW j, ~Chain(j), NEW n
  PROVE  LET p == StartTask(Job[j].tasks[n]) IN
         /\ OfLength(p, 10)
         /\ \A i \in 1 .. 10 : p[i] = Due(j, n, 11 - i)
<1> DEFINE p == StartTask(Job[j].tasks[n])
<1>1. OfLength(p, 10)
  BY DEF StartTask, OfLength
<1>2. p[1] = Due(j, n, 10)
  BY DEF StartTask, Due
<1>3. p[2] = Due(j, n, 9)
  BY DEF StartTask, Due
<1>4. p[3] = Due(j, n, 8)
  BY DEF StartTask, Due
<1>5. p[4] = Due(j, n, 7)
  BY DEF StartTask, Due, StartWrite, TaskOf
<1>6. p[5] = Due(j, n, 6)
  BY DEF StartTask, Due, StartWrite, TaskOf
<1>7. p[6] = Due(j, n, 5)
  BY DEF StartTask, Due, StartWrite, MaskOf
<1>8. p[7] = Due(j, n, 4)
  BY DEF StartTask, Due, StartWrite
<1>9. p[8] = Due(j, n, 3)
  BY DEF StartTask, Due, StartWrite, Steps
<1>10. p[9] = Due(j, n, 2)
  BY DEF StartTask, Due, StartWrite, DmaOf
<1>11. p[10] = Due(j, n, 1)
  BY DEF StartTask, Due, StartWrite
<1> HIDE DEF p
<1> QED
  BY <1>1, <1>2, <1>3, <1>4, <1>5, <1>6, <1>7, <1>8, <1>9, <1>10, <1>11 DEF p

LEMMA WordPlaces ==
  ASSUME NEW t \in Tables, NEW a \in -1 .. LutWords - 1
  PROVE  /\ WordAt(t, a) \in 10 .. WordAt(0, -1)
         /\ WordAt(t, 0) - WordAt(t, a) = a
         /\ WordAt(t, a) = WordAt(t, -1) - 1 - a
         /\ WordAt(t, a) <= WordAt(1, -1) <=> t = 1
<1>1. LutWords \in Nat /\ LutWords > 0
  BY LutWordsNat
<1>2. t = 0 \/ t = 1
  BY DEF Tables
<1>3. CASE t = 0
  BY <1>1, <1>3 DEF WordAt
<1>4. CASE t = 1
  BY <1>1, <1>4 DEF WordAt
<1> QED
  BY <1>2, <1>3, <1>4

LEMMA PlaceOfWord ==
  ASSUME NEW k \in Int, k > 9, k <= WordAt(0, -1)
  PROVE  \E t \in Tables : \E a \in -1 .. LutWords - 1 : k = WordAt(t, a)
<1>1. LutWords \in Nat /\ LutWords > 0
  BY LutWordsNat
<1>2. CASE k <= 10 + LutWords
  <2>1. 9 + LutWords - k \in -1 .. LutWords - 1 /\ k = WordAt(1, 9 + LutWords - k)
    BY <1>1, <1>2 DEF WordAt
  <2> QED
    BY <2>1 DEF Tables
<1>3. CASE k > 10 + LutWords
  <2>1. 10 + 2 * LutWords - k \in -1 .. LutWords - 1 /\ k = WordAt(0, 10 + 2 * LutWords - k)
    BY <1>1, <1>3 DEF WordAt
  <2> QED
    BY <2>1 DEF Tables
<1> QED
  BY <1>1, <1>2, <1>3

LEMMA TableWriteIs ==
  ASSUME NEW j, NEW t \in Tables, NEW a \in -1 .. LutWords - 1
  PROVE  TableWrite(j, WordAt(t, a)) =
           IF a = -1 THEN W("LUT_ACCESS_CFG", LUT_ACCESS_CFG(t, 0))
           ELSE W("LUT_ACCESS_DATA", LUT_ACCESS_DATA(LutWord(j, t, a)))
<1> DEFINE k == WordAt(t, a)
<1>1. (IF k <= WordAt(1, -1) THEN 1 ELSE 0) = t
  BY WordPlaces DEF Tables
<1>2. WordAt(t, 0) - k = a
  BY WordPlaces
<1> HIDE DEF k
<1> QED
  BY <1>1, <1>2 DEF TableWrite, k

LEMMA LoadTableDue ==
  ASSUME NEW j, Chain(j), NEW n, NEW t \in Tables
  PROVE  /\ OfLength(LoadTable(j, t), LutWords + 1)
         /\ \A i \in 1 .. LutWords + 1 : LoadTable(j, t)[i] = Due(j, n, WordAt(t, -1) + 1 - i)
<1> DEFINE L == LutWords
           c == <<W("LUT_ACCESS_CFG", LUT_ACCESS_CFG(t, 0))>>
           d == [i \in 1 .. L |-> W("LUT_ACCESS_DATA", LUT_ACCESS_DATA(LutWord(j, t, i - 1)))]
           cd == c \o d
<1>1. L \in Nat
  BY LutWordsNat
<1>2. OfLength(c, 1) /\ OfLength(d, L)
  BY DEF OfLength
<1>3. LoadTable(j, t) = cd
  BY DEF LoadTable
<1> HIDE DEF L, c, d, cd
<1>4. /\ OfLength(cd, 1 + L)
      /\ cd[1] = c[1]
      /\ \A i \in 2 .. 1 + L : cd[i] = d[i - 1]
  <2>1. cd = c \o d /\ 1 \in Nat
    BY DEF cd
  <2> QED
    BY <1>1, <1>2, <2>1 DEF OfLength
<1>5. ASSUME NEW i \in 1 .. 1 + L
      PROVE  cd[i] = Due(j, n, WordAt(t, -1) + 1 - i)
  <2>1. i - 2 \in -1 .. LutWords - 1
    BY <1>1 DEF L
  <2>2. WordAt(t, i - 2) = WordAt(t, -1) + 1 - i /\ WordAt(t, i - 2) > 9
    <3>1. WordAt(t, -1) \in Int
      BY LutWordsNat DEF WordAt
    <3>2. WordAt(t, i - 2) = WordAt(t, -1) - 1 - (i - 2) /\ WordAt(t, i - 2) \in 10 .. WordAt(0, -1)
      BY <2>1, WordPlaces
    <3> QED
      BY <3>1, <3>2, LutWordsNat DEF WordAt
  <2>3. Due(j, n, WordAt(t, i - 2)) = TableWrite(j, WordAt(t, i - 2))
    <3> DEFINE k == WordAt(t, i - 2)
    <3>1. k \in Int
      BY <2>1, LutWordsNat DEF WordAt
    <3> HIDE DEF k
    <3> QED
      BY <2>2, <3>1 DEF Due, k
  <2>4. TableWrite(j, WordAt(t, i - 2)) = IF i = 1 THEN c[1] ELSE d[i - 1]
    <3>1. CASE i = 1
      BY <2>1, <3>1, TableWriteIs DEF c
    <3>2. CASE i # 1
      <4>1. i - 1 \in 1 .. L /\ i - 2 # -1 /\ (i - 1) - 1 = i - 2
        BY <1>1, <3>2
      <4>2. d[i - 1] = W("LUT_ACCESS_DATA", LUT_ACCESS_DATA(LutWord(j, t, i - 2)))
        BY <4>1 DEF d
      <4> QED
        BY <2>1, <3>2, <4>1, <4>2, TableWriteIs
    <3> QED
      BY <3>1, <3>2
  <2>5. cd[i] = IF i = 1 THEN c[1] ELSE d[i - 1]
    <3>1. CASE i = 1
      BY <1>4, <3>1
    <3>2. CASE i # 1
      <4>1. i \in 2 .. 1 + L
        BY <1>1, <3>2
      <4> QED
        BY <1>4, <3>2, <4>1
    <3> QED
      BY <3>1, <3>2
  <2> QED
    BY <2>2, <2>3, <2>4, <2>5
<1> QED
  BY <1>1, <1>3, <1>4, <1>5 DEF L

LEMMA LoadTablesDue ==
  ASSUME NEW j, Chain(j), NEW n
  PROVE  LET N == 2 * LutWords + 3 IN
         /\ N \in Nat
         /\ OfLength(LoadTables(j), N)
         /\ \A i \in 1 .. N : LoadTables(j)[i] = Due(j, n, N + 9 - i)
<1> DEFINE L == LutWords + 1
           a == LoadTable(j, 0)
           b == LoadTable(j, 1)
           c == <<W("LUT_SETTLED", Job[j].lut)>>
           ab == a \o b
           s == ab \o c
<1>1. L \in Nat /\ L > 0 /\ WordAt(1, -1) = L + 9 /\ WordAt(0, -1) = 2 * L + 9
  BY LutWordsNat DEF WordAt
<1>2. /\ OfLength(a, L)
      /\ \A i \in 1 .. L : a[i] = Due(j, n, WordAt(0, -1) + 1 - i)
  BY LoadTableDue DEF Tables
<1>3. /\ OfLength(b, L)
      /\ \A i \in 1 .. L : b[i] = Due(j, n, WordAt(1, -1) + 1 - i)
  BY LoadTableDue DEF Tables
<1>4. OfLength(c, 1) /\ c[1] = Due(j, n, 9)
  BY DEF Due, OfLength
<1>5. LoadTables(j) = s
  BY DEF LoadTables
<1> HIDE DEF L, a, b, c, ab, s
<1>6. /\ OfLength(ab, L + L)
      /\ \A i \in 1 .. L : ab[i] = a[i]
      /\ \A i \in L + 1 .. L + L : ab[i] = b[i - L]
  <2>1. ab = a \o b /\ L \in Nat /\ OfLength(a, L) /\ OfLength(b, L)
    BY <1>1, <1>2, <1>3 DEF ab
  <2> QED
    BY <2>1 DEF OfLength
<1>7. /\ OfLength(s, L + L + 1)
      /\ \A i \in 1 .. L + L : s[i] = ab[i]
      /\ s[L + L + 1] = c[1]
  <2>1. s = ab \o c /\ L + L \in Nat /\ 1 \in Nat
    BY <1>1 DEF s
  <2>2. /\ OfLength(s, L + L + 1)
        /\ \A i \in 1 .. L + L : s[i] = ab[i]
        /\ \A i \in L + L + 1 .. L + L + 1 : s[i] = c[i - (L + L)]
    BY <1>4, <1>6, <2>1 DEF OfLength
  <2>3. s[L + L + 1] = c[L + L + 1 - (L + L)]
    BY <1>1, <2>2
  <2>4. L + L + 1 - (L + L) = 1
    BY <1>1
  <2> QED
    BY <2>2, <2>3, <2>4
<1>8. ASSUME NEW i \in 1 .. L + L + 1
      PROVE  s[i] = Due(j, n, L + L + 10 - i)
  <2>1. CASE i \in 1 .. L
    <3>1. i \in 1 .. L + L /\ WordAt(0, -1) + 1 - i = L + L + 10 - i
      BY <1>1, <2>1
    <3> QED
      BY <1>2, <1>6, <1>7, <2>1, <3>1
  <2>2. CASE i \in L + 1 .. L + L
    <3>1. i \in 1 .. L + L /\ i - L \in 1 .. L /\ WordAt(1, -1) + 1 - (i - L) = L + L + 10 - i
      BY <1>1, <2>2
    <3> QED
      BY <1>3, <1>6, <1>7, <2>2, <3>1
  <2>3. CASE i = L + L + 1
    <3>1. L + L + 10 - i = 9
      BY <1>1, <2>3
    <3> QED
      BY <1>4, <1>7, <2>3, <3>1
  <2> QED
    BY <1>1, <2>1, <2>2, <2>3
<1>9. 2 * LutWords + 3 = L + L + 1 /\ L + L + 1 \in Nat
  BY LutWordsNat DEF L
<1>10. \A i \in 1 .. L + L + 1 : L + L + 1 + 9 - i = L + L + 10 - i
  BY <1>1
<1> QED
  BY <1>5, <1>7, <1>8, <1>9, <1>10

(* The program of a chain: the tables if they are to be loaded, the start, *)
(* and OP_EN taken back unless it is kept.                                 *)
LEMMA ChainDue ==
  ASSUME NEW j \in ValidJobs, Chain(j), NEW n
  PROVE  LET p == ChainProgram(j)
             b == IF PulseKeep THEN 0 ELSE 1 IN
         /\ Len(p) \in Nat /\ OfLength(p, Len(p))
         /\ \A i \in 1 .. Len(p) : p[i] = Due(j, n, Len(p) - b + 1 - i)
         /\ IF LutLoad(j) THEN Len(p) - b = WordAt(0, -1) ELSE Len(p) - b = 8
<1> DEFINE b == IF PulseKeep THEN 0 ELSE 1
           h == IF LutLoad(j) THEN 2 * LutWords + 3 ELSE 0
           u == IF LutLoad(j) THEN LoadTables(j) ELSE <<>>
           v == StartChain(j)
           w == IF PulseKeep THEN <<>> ELSE <<W("OPERATION_ENABLE", OPERATION_ENABLE(0))>>
           uv == u \o v
           p == uv \o w
<1>1. /\ h \in Nat /\ OfLength(u, h)
      /\ \A i \in 1 .. h : u[i] = Due(j, n, h + 9 - i)
  <2>1. CASE LutLoad(j)
    BY <2>1, LoadTablesDue
  <2>2. CASE ~LutLoad(j)
    BY <2>2 DEF OfLength
  <2> QED
    BY <2>1, <2>2
<1>2. OfLength(v, 8) /\ \A i \in 1 .. 8 : v[i] = Due(j, n, 9 - i)
  BY StartChainDue
<1>3. /\ b \in 0 .. 1 /\ OfLength(w, b)
      /\ \A i \in 1 .. b : w[i] = Due(j, n, 0)
  BY DEF Due, StartWrite, OfLength
<1>4. ChainProgram(j) = p
  BY DEF ChainProgram
<1>5. IF LutLoad(j) THEN h + 8 = WordAt(0, -1) ELSE h + 8 = 8
  BY LutWordsNat DEF WordAt
<1> HIDE DEF b, h, u, v, w, uv, p
<1>6. /\ OfLength(uv, h + 8)
      /\ \A i \in 1 .. h : uv[i] = u[i]
      /\ \A i \in h + 1 .. h + 8 : uv[i] = v[i - h]
  <2>1. uv = u \o v /\ h \in Nat /\ OfLength(u, h) /\ OfLength(v, 8)
    BY <1>1, <1>2 DEF uv
  <2> QED
    BY <2>1 DEF OfLength
<1>7. /\ Len(p) = h + 8 + b
      /\ OfLength(p, h + 8 + b)
      /\ \A i \in 1 .. h + 8 : p[i] = uv[i]
      /\ \A i \in h + 9 .. h + 8 + b : p[i] = w[i - (h + 8)]
  <2>1. h + 8 \in Nat /\ b \in Nat /\ h + 8 + 1 = h + 9 /\ p = uv \o w
    BY <1>1, <1>3 DEF p
  <2> QED
    BY <1>3, <1>6, <2>1 DEF OfLength
<1>8. ASSUME NEW i \in 1 .. h + 8 + b
      PROVE  p[i] = Due(j, n, h + 9 - i)
  <2>1. CASE i \in 1 .. h
    <3>1. i \in 1 .. h + 8
      BY <1>1, <2>1
    <3> QED
      BY <1>1, <1>6, <1>7, <2>1, <3>1
  <2>2. CASE i \in h + 1 .. h + 8
    <3>1. i - h \in 1 .. 8 /\ 9 - (i - h) = h + 9 - i /\ i \in 1 .. h + 8
      BY <1>1, <2>2
    <3> QED
      BY <1>2, <1>6, <1>7, <2>2, <3>1
  <2>3. CASE i \in h + 9 .. h + 8 + b
    <3>1. i - (h + 8) \in 1 .. b /\ h + 9 - i = 0
      BY <1>1, <1>3, <2>3
    <3> QED
      BY <1>3, <1>7, <2>3, <3>1
  <2> QED
    BY <1>1, <1>3, <2>1, <2>2, <2>3
<1>9. Len(p) \in Nat /\ Len(p) - b = h + 8 /\ \A i \in 1 .. Len(p) : Len(p) - b + 1 - i = h + 9 - i
  BY <1>1, <1>3, <1>7
<1>10. \A i \in 1 .. Len(p) : p[i] = Due(j, n, Len(p) - b + 1 - i)
  BY <1>7, <1>8, <1>9
<1> QED
  BY <1>4, <1>5, <1>7, <1>9, <1>10 DEF b

(* The program of one task.                                                *)
LEMMA TaskDue ==
  ASSUME NEW j \in ValidJobs, ~Chain(j), nextTask[j] \in Nat
  PROVE  LET p == TaskProgram(j) IN
         /\ Len(p) \in Nat /\ Len(p) >= 10 /\ Len(p) <= 11 /\ OfLength(p, Len(p))
         /\ \A i \in 1 .. Len(p) : p[i] = Due(j, nextTask[j] + 1, Len(p) + 1 - i)
<1> DEFINE n == nextTask[j] + 1
           h == IF executer = 1 THEN 1 ELSE 0
           u == IF executer = 1 THEN <<W("RESET", 0)>> ELSE <<>>
           v == StartTask(Job[j].tasks[n])
           p == u \o v
<1>1. /\ h \in 0 .. 1 /\ OfLength(u, h)
      /\ \A i \in 1 .. h : u[i] = Due(j, n, 11)
  BY DEF Due, OfLength
<1>2. OfLength(v, 10) /\ \A i \in 1 .. 10 : v[i] = Due(j, n, 11 - i)
  BY StartTaskDue
<1>3. TaskProgram(j) = p
  BY DEF TaskProgram
<1> HIDE DEF n, h, u, v, p
<1>4. /\ Len(p) = h + 10
      /\ OfLength(p, h + 10)
      /\ \A i \in 1 .. h : p[i] = u[i]
      /\ \A i \in h + 1 .. h + 10 : p[i] = v[i - h]
  <2>1. p = u \o v /\ h \in Nat /\ OfLength(u, h) /\ OfLength(v, 10)
    BY <1>1, <1>2 DEF p
  <2>2. OfLength(p, h + 10)
    <3>1. h = 0 \/ h = 1
      BY <1>1
    <3>2. CASE h = 0
      BY <2>1, <3>2 DEF OfLength
    <3>3. CASE h = 1
      BY <2>1, <3>3 DEF OfLength
    <3> QED
      BY <3>1, <3>2, <3>3
  <2>3. \A i \in 1 .. h : p[i] = u[i]
    BY <2>1 DEF OfLength
  <2>4. \A i \in h + 1 .. h + 10 : p[i] = v[i - h]
    BY <2>1 DEF OfLength
  <2>5. h + 10 \in Nat
    BY <2>1
  <2> QED
    BY <2>2, <2>3, <2>4, <2>5, IsSeq
<1>5. ASSUME NEW i \in 1 .. h + 10
      PROVE  p[i] = Due(j, n, h + 11 - i)
  <2>1. CASE i \in 1 .. h
    <3>1. h + 11 - i = 11
      BY <1>1, <2>1
    <3> QED
      BY <1>1, <1>4, <2>1, <3>1
  <2>2. CASE i \in h + 1 .. h + 10
    <3>1. i - h \in 1 .. 10 /\ 11 - (i - h) = h + 11 - i
      BY <1>1, <2>2
    <3> QED
      BY <1>2, <1>4, <2>2, <3>1
  <2> QED
    BY <1>1, <2>1, <2>2
<1>6. Len(p) \in Nat /\ Len(p) >= 10 /\ Len(p) <= 11 /\ \A i \in 1 .. Len(p) : Len(p) + 1 - i = h + 11 - i
  BY <1>1, <1>4
<1> QED
  BY <1>3, <1>4, <1>5, <1>6 DEF n

-----------------------------------------------------------------------------
(* The steps, one lemma for each.                                          *)
LEMMA InitInv == Init => PcInv
<1> SUFFICES ASSUME Init PROVE PcInv
  OBVIOUS
<1>1. todo = <<>> /\ inFlight = None /\ unit = None /\ lutValid = FALSE
  BY DEF Init
<1>2. RegTypes
  <2>1. reg.TASK_CON = TASK_CON(0, 0, 0) /\ reg.REGISTER_AMOUNTS = REGISTER_AMOUNTS(0)
    BY DEF Init
  <2>2. reg.TASK_CON.TASK_NUMBER \in 0 .. 2^12 - 1
    BY <2>1, NumberFits
  <2>3. reg.REGISTER_AMOUNTS.PC_DATA_AMOUNT \in 0 .. 2^16 - 1
    BY <2>1, Field16 DEF REGISTER_AMOUNTS
  <2>4. reg = [r \in Registers |-> reg[r]]
    BY DEF Init, Registers
  <2> QED
    BY <2>2, <2>3, <2>4 DEF RegTypes, Init
<1>3. BitTypes
  BY DEF BitTypes, Init
<1>4. TableTypes
  BY LutWordsNat DEF TableTypes, Init, Blank, Words, Tables
<1>5. JobTypes
  <2>1. left \in Seq(Jobs)
    <3>1. PICK args \in Submits : left = JobArray(args)
      BY DEF Init
    <3>2. args \in DrmRocketSubmit
      BY <3>1, PcAssumption
    <3>3. U32 \in Nat
      BY SubmitAssumption
    <3>4. args.job_count \in Nat
      BY <3>2, <3>3 DEF DrmRocketSubmit
    <3>5. CASE left = <<>>
      BY <3>5
    <3>6. CASE left # <<>>
      <4>1. /\ {JobAddress(args, n - 1) : n \in 1 .. args.job_count} \subseteq DOMAIN UserJobs
            /\ left = [n \in 1 .. args.job_count |-> UserJobs[JobAddress(args, n - 1)]]
        BY <3>1, <3>6 DEF JobArray
      <4>2. \A n \in 1 .. args.job_count : UserJobs[JobAddress(args, n - 1)] \in Jobs
        BY <4>1, SubmitAssumption
      <4> QED
        BY <3>4, <4>1, <4>2
    <3> QED
      BY <3>5, <3>6
  <2>2. \A j \in ValidJobs : Job[j].task_count \in Nat
    BY JobFacts
  <2> QED
    BY <2>1, <2>2 DEF JobTypes, Init
<1>6. LockInv /\ ResetInv
  BY PcAssumption DEF LockInv, ResetInv, Locked, Unlocked, Init
<1>7. ProgramInv
  BY <1>1 DEF ProgramInv, OfLength
<1>8. Written /\ LoadInv /\ CacheInv /\ UnitInv /\ MaskInv
  BY <1>1 DEF Written, LoadInv, CacheInv, Loading, UnitInv, MaskInv
<1> QED
  BY <1>2, <1>3, <1>4, <1>5, <1>6, <1>7, <1>8 DEF PcInv

(* A step that writes nothing the program has written, takes no new job    *)
(* and starts nothing.                                                     *)
LEMMA ProgramKept ==
  ASSUME PcInv,
         UNCHANGED <<todo, inFlight, nextTask, sram, lutAt, lutValid, lutCache>>,
         reg'.BASE_ADDRESS = reg.BASE_ADDRESS, reg'.REGISTER_AMOUNTS = reg.REGISTER_AMOUNTS,
         reg'.TASK_CON = reg.TASK_CON, reg'.CNA = reg.CNA, reg'.CORE = reg.CORE,
         mask' \subseteq mask,
         unit' \in {unit, None}
  PROVE  ProgramInv' /\ Written' /\ LoadInv' /\ CacheInv' /\ UnitInv'
<1>1. Back' = Back /\ Ahead' = Ahead /\ (Loading' <=> Loading)
  BY DEF Back, Ahead, Loading
<1>2. ProgramInv'
  BY <1>1 DEF PcInv, ProgramInv, OfLength
<1>3. Written'
  BY <1>1 DEF PcInv, Written
<1>4. LoadInv'
  BY <1>1 DEF PcInv, LoadInv
<1>5. CacheInv'
  BY <1>1 DEF PcInv, CacheInv
<1>6. UnitInv'
  BY DEF PcInv, UnitInv, Number
<1> QED
  BY <1>2, <1>3, <1>4, <1>5, <1>6

(* A step while no program is being written.                               *)
LEMMA NoProgramKept ==
  ASSUME PcInv, todo = <<>>, todo' = <<>>,
         UNCHANGED <<sram, lutValid, lutCache>> \/ lutValid' = FALSE,
         unit' \in {unit, None}
  PROVE  ProgramInv' /\ Written' /\ LoadInv' /\ CacheInv' /\ UnitInv'
<1>1. ProgramInv'
  BY DEF ProgramInv, OfLength
<1>2. Written' /\ LoadInv'
  BY DEF Written, LoadInv, Loading
<1>3. CacheInv'
  BY DEF PcInv, CacheInv, Loading
<1>4. UnitInv'
  BY DEF PcInv, UnitInv, Number
<1> QED
  BY <1>1, <1>2, <1>3, <1>4

(* Nothing is being written while nobody has job_lock.                     *)
LEMMA NothingWritten ==
  ASSUME PcInv
  PROVE  holder = None \/ inFlight = None \/ thrPc \in Locked \ {"write"} => todo = <<>>
<1>1. None # "run" /\ None # "thread"
  BY PcAssumption
<1>2. LockInv
  BY DEF PcInv
<1> QED
  BY <1>1, <1>2 DEF LockInv, Locked

LEMMA RefuseStep == ASSUME PcInv, Refuse PROVE PcInv'
<1> USE DEF Refuse, hwVars, irqVars, thrVars, jobVars
<1>1. RegTypes' /\ BitTypes' /\ TableTypes'
  BY DEF PcInv, RegTypes, BitTypes, TableTypes
<1>2. JobTypes'
  <2>1. left \in Seq(Jobs) /\ left # <<>>
    BY DEF PcInv, JobTypes
  <2>2. left' \in Seq(Jobs)
    BY <2>1, HeadTailProperties
  <2> QED
    BY <2>2 DEF PcInv, JobTypes
<1>3. LockInv' /\ ResetInv'
  BY DEF PcInv, LockInv, ResetInv
<1>4. ProgramInv' /\ Written' /\ LoadInv' /\ CacheInv' /\ UnitInv'
  BY ProgramKept
<1>5. MaskInv'
  BY DEF PcInv, MaskInv, Ahead, Back
<1> QED
  BY <1>1, <1>2, <1>3, <1>4, <1>5 DEF PcInv

LEMMA RunBeginStep == ASSUME PcInv, RunBegin PROVE PcInv'
<1> USE DEF RunBegin, hwVars, irqVars, thrVars
<1>1. RegTypes' /\ BitTypes' /\ TableTypes'
  BY DEF PcInv, RegTypes, BitTypes, TableTypes
<1>2. JobTypes'
  <2>1. left \in Seq(Jobs) /\ left # <<>> /\ nextTask \in [ValidJobs -> Nat]
    BY DEF PcInv, JobTypes
  <2>2. left' \in Seq(Jobs)
    BY <2>1, HeadTailProperties
  <2>3. nextTask' \in [ValidJobs -> Nat] /\ \A j \in ValidJobs : nextTask'[j] \in {0, nextTask[j]}
    BY <2>1
  <2>4. \A j \in ValidJobs : Job[j].task_count \in Nat
    BY JobFacts
  <2>5. \A j \in ValidJobs : nextTask'[j] <= Job[j].task_count
    BY <2>3, <2>4 DEF PcInv, JobTypes
  <2> QED
    BY <2>2, <2>3, <2>5 DEF PcInv, JobTypes
<1>3. LockInv'
  BY DEF PcInv, LockInv
<1>4. ResetInv'
  BY DEF PcInv, ResetInv, JobTypes
<1>5. ProgramInv' /\ Written' /\ LoadInv' /\ CacheInv' /\ UnitInv'
  BY NothingWritten, NoProgramKept
<1>6. MaskInv'
  BY DEF MaskInv
<1> QED
  BY <1>1, <1>2, <1>3, <1>4, <1>5, <1>6 DEF PcInv

LEMMA RunReturnStep == ASSUME PcInv, RunReturn PROVE PcInv'
<1> USE DEF RunReturn, hwVars, irqVars, thrVars, jobVars
<1>1. RegTypes' /\ BitTypes' /\ TableTypes' /\ JobTypes'
  BY DEF PcInv, RegTypes, BitTypes, TableTypes, JobTypes
<1>2. LockInv'
  BY PcAssumption DEF PcInv, LockInv
<1>3. ResetInv'
  BY DEF PcInv, ResetInv
<1>4. ProgramInv' /\ Written' /\ LoadInv' /\ CacheInv' /\ UnitInv'
  BY NoProgramKept
<1>5. MaskInv'
  BY DEF PcInv, MaskInv, Ahead, Back
<1> QED
  BY <1>1, <1>2, <1>3, <1>4, <1>5 DEF PcInv

-----------------------------------------------------------------------------
(* The hard handler.                                                       *)
LEMMA IrqEnterStep == ASSUME PcInv, IrqEnter PROVE PcInv'
<1> USE DEF IrqEnter, hwVars, runVars, thrVars, jobVars
<1>1. RegTypes' /\ BitTypes' /\ TableTypes' /\ JobTypes'
  BY DEF PcInv, RegTypes, BitTypes, TableTypes, JobTypes
<1>2. LockInv' /\ ResetInv'
  BY DEF PcInv, LockInv, ResetInv
<1>3. ProgramInv' /\ Written' /\ LoadInv' /\ CacheInv' /\ UnitInv'
  BY ProgramKept
<1>4. MaskInv'
  BY DEF PcInv, MaskInv, Ahead, Back
<1> QED
  BY <1>1, <1>2, <1>3, <1>4 DEF PcInv

LEMMA IrqLookStep == ASSUME PcInv, IrqLook PROVE PcInv'
<1> USE DEF IrqLook, hwVars, runVars, thrVars, jobVars
<1>1. RegTypes' /\ BitTypes' /\ TableTypes' /\ JobTypes'
  BY DEF PcInv, RegTypes, BitTypes, TableTypes, JobTypes
<1>2. LockInv' /\ ResetInv'
  BY DEF PcInv, LockInv, ResetInv
<1>3. ProgramInv' /\ Written' /\ LoadInv' /\ CacheInv' /\ UnitInv'
  BY ProgramKept
<1>4. MaskInv'
  BY DEF PcInv, MaskInv, Ahead, Back
<1> QED
  BY <1>1, <1>2, <1>3, <1>4 DEF PcInv

(* It writes the bank of the DPU only, which no program writes.            *)
LEMMA IrqBankStep == ASSUME PcInv, IrqBank PROVE PcInv'
<1> USE DEF IrqBank, runVars, thrVars, jobVars
<1>1. reg' = reg \/ reg' = [reg EXCEPT !.DPU = DPU_S_POINTER(0)]
  OBVIOUS
<1>2. reg = [r \in Registers |-> reg[r]]
  BY DEF PcInv, RegTypes
<1>3. /\ reg' = [r \in Registers |-> reg'[r]]
      /\ reg'.BASE_ADDRESS = reg.BASE_ADDRESS /\ reg'.REGISTER_AMOUNTS = reg.REGISTER_AMOUNTS
      /\ reg'.TASK_CON = reg.TASK_CON /\ reg'.CNA = reg.CNA /\ reg'.CORE = reg.CORE
  BY <1>1, <1>2 DEF Registers
<1>4. RegTypes'
  BY <1>3 DEF PcInv, RegTypes
<1>5. BitTypes' /\ TableTypes' /\ JobTypes'
  BY DEF PcInv, BitTypes, TableTypes, JobTypes
<1>6. LockInv' /\ ResetInv'
  BY DEF PcInv, LockInv, ResetInv
<1>7. ProgramInv' /\ Written' /\ LoadInv' /\ CacheInv' /\ UnitInv'
  BY <1>3, ProgramKept
<1>8. MaskInv'
  BY DEF PcInv, MaskInv, Ahead, Back
<1> QED
  BY <1>4, <1>5, <1>6, <1>7, <1>8 DEF PcInv

(* It closes the mask and wakes the thread, or clears what it has read.    *)
LEMMA IrqActStep == ASSUME PcInv, IrqAct PROVE PcInv'
<1> USE DEF IrqAct, runVars, thrVars, jobVars
<1>1. mask' \subseteq mask /\ raw' \subseteq raw
  OBVIOUS
<1>2. RegTypes' /\ TableTypes' /\ JobTypes'
  BY DEF PcInv, RegTypes, TableTypes, JobTypes
<1>3. BitTypes'
  BY <1>1 DEF PcInv, BitTypes
<1>4. LockInv' /\ ResetInv'
  BY DEF PcInv, LockInv, ResetInv
<1>5. ProgramInv' /\ Written' /\ LoadInv' /\ CacheInv' /\ UnitInv'
  BY <1>1, ProgramKept
<1>6. MaskInv'
  <2>1. thrWake' \/ (mask' = mask /\ thrWake' = thrWake)
    OBVIOUS
  <2> QED
    BY <2>1 DEF PcInv, MaskInv, Ahead, Back
<1> QED
  BY <1>2, <1>3, <1>4, <1>5, <1>6 DEF PcInv

-----------------------------------------------------------------------------
(* The irq thread.                                                         *)
LEMMA ThrCheckStep == ASSUME PcInv, ThrCheck PROVE PcInv'
<1> USE DEF ThrCheck, hwVars, runVars, irqVars, jobVars
<1>1. todo = <<>>
  BY NothingWritten
<1>2. RegTypes' /\ TableTypes' /\ JobTypes'
  BY DEF PcInv, RegTypes, TableTypes, JobTypes
<1>3. BitTypes'
  BY DEF PcInv, BitTypes
<1>4. LockInv'
  BY <1>1, PcAssumption DEF PcInv, LockInv, Locked, Unlocked
<1>5. ResetInv'
  BY DEF PcInv, ResetInv
<1>6. ProgramInv' /\ Written' /\ LoadInv' /\ CacheInv' /\ UnitInv'
  BY ProgramKept
<1>7. MaskInv'
  BY DEF MaskInv
<1> QED
  BY <1>2, <1>3, <1>4, <1>5, <1>6, <1>7 DEF PcInv

LEMMA ThrClearStep == ASSUME PcInv, ThrClear PROVE PcInv'
<1> USE DEF ThrClear, runVars, irqVars, jobVars
<1>1. RegTypes' /\ TableTypes' /\ JobTypes'
  BY DEF PcInv, RegTypes, TableTypes, JobTypes
<1>2. BitTypes'
  BY DEF PcInv, BitTypes
<1>3. LockInv'
  <2>1. thrPc' \in {"reopen", "disable"}
    OBVIOUS
  <2> QED
    BY <2>1, PcAssumption DEF PcInv, LockInv, Locked, Unlocked
<1>4. ResetInv'
  BY DEF PcInv, ResetInv
<1>5. ProgramInv' /\ Written' /\ LoadInv' /\ CacheInv' /\ UnitInv'
  BY ProgramKept
<1>6. MaskInv'
  BY DEF MaskInv
<1> QED
  BY <1>1, <1>2, <1>3, <1>4, <1>5, <1>6 DEF PcInv

(* The mask of the last task is open again.                                *)
LEMMA ThrReopenStep == ASSUME PcInv, ThrReopen PROVE PcInv'
<1> USE DEF ThrReopen, ThrGo, runVars, irqVars, jobVars
<1>1. todo = <<>>
  BY NothingWritten DEF Locked
<1>2. inFlight \in ValidJobs /\ Chain(inFlight)
  BY PcAssumption DEF PcInv, JobTypes, LockInv, Locked
<1>3. mask' \subseteq CLEAR_ALL /\ Job[inFlight].last_int_mask \cap mask' # {}
  BY <1>2, JobFacts DEF Reopened
<1>4. RegTypes' /\ TableTypes' /\ JobTypes'
  BY DEF PcInv, RegTypes, TableTypes, JobTypes
<1>5. BitTypes'
  BY <1>3 DEF PcInv, BitTypes
<1>6. LockInv'
  BY <1>1, PcAssumption DEF PcInv, LockInv, Locked, Unlocked
<1>7. ResetInv'
  BY DEF PcInv, ResetInv
<1>8. ProgramInv' /\ Written' /\ LoadInv' /\ CacheInv' /\ UnitInv'
  BY <1>1, NoProgramKept
<1>9. MaskInv'
  BY <1>3 DEF MaskInv
<1> QED
  BY <1>4, <1>5, <1>6, <1>7, <1>8, <1>9 DEF PcInv

(* OP_EN is taken back, with the lock for a chain and without it otherwise. *)
LEMMA DisableKept ==
  ASSUME PcInv, Disable
  PROVE  /\ reg' = [r \in Registers |-> reg'[r]]
         /\ reg'.BASE_ADDRESS = reg.BASE_ADDRESS /\ reg'.REGISTER_AMOUNTS = reg.REGISTER_AMOUNTS
         /\ reg'.TASK_CON = reg.TASK_CON /\ reg'.CNA = reg.CNA /\ reg'.CORE = reg.CORE
<1>1. RegTypes
  BY DEF PcInv
<1>2. reg = [r \in Registers |-> reg[r]]
  BY <1>1 DEF RegTypes
<1>3. reg' = [reg EXCEPT !.OPERATION_ENABLE = OPERATION_ENABLE(0)]
  BY DEF Disable
<1> QED
  BY <1>1, <1>2, <1>3 DEF Registers

LEMMA ThrDisableStep == ASSUME PcInv, ThrDisable PROVE PcInv'
<1> USE DEF ThrDisable, ThrGo, runVars, irqVars, jobVars
<1>1. RegTypes'
  BY DisableKept DEF PcInv, RegTypes
<1>2. BitTypes' /\ TableTypes' /\ JobTypes'
  BY DEF PcInv, BitTypes, TableTypes, JobTypes
<1>3. LockInv'
  BY PcAssumption DEF PcInv, LockInv, Locked, Unlocked
<1>4. ResetInv'
  BY DEF PcInv, ResetInv
<1>5. ProgramInv' /\ Written' /\ LoadInv' /\ CacheInv' /\ UnitInv'
  BY DisableKept, ProgramKept
<1>6. MaskInv'
  BY DEF MaskInv
<1> QED
  BY <1>1, <1>2, <1>3, <1>4, <1>5, <1>6 DEF PcInv

LEMMA ThrStopStep == ASSUME PcInv, ThrStop PROVE PcInv'
<1> USE DEF ThrStop, ThrGo, runVars, irqVars, jobVars
<1>1. RegTypes'
  BY DisableKept DEF PcInv, RegTypes
<1>2. BitTypes' /\ TableTypes' /\ JobTypes'
  BY DEF PcInv, BitTypes, TableTypes, JobTypes
<1>3. LockInv'
  BY PcAssumption DEF PcInv, LockInv, Locked, Unlocked
<1>4. ResetInv'
  BY DEF PcInv, ResetInv
<1>5. ProgramInv' /\ Written' /\ LoadInv' /\ CacheInv' /\ UnitInv'
  BY DisableKept, ProgramKept
<1>6. MaskInv'
  BY DEF MaskInv
<1> QED
  BY <1>1, <1>2, <1>3, <1>4, <1>5, <1>6 DEF PcInv

LEMMA ThrCompleteStep == ASSUME PcInv, ThrComplete PROVE PcInv'
<1> USE DEF ThrComplete, ThrGo, hwVars, runVars, irqVars
<1>1. todo = <<>>
  BY NothingWritten DEF Locked
<1>2. RegTypes' /\ TableTypes' /\ JobTypes'
  BY DEF PcInv, RegTypes, TableTypes, JobTypes
<1>3. BitTypes'
  BY DEF PcInv, BitTypes
<1>4. LockInv'
  BY <1>1, PcAssumption DEF PcInv, LockInv, Locked, Unlocked
<1>5. ResetInv'
  BY DEF PcInv, ResetInv
<1>6. ProgramInv' /\ Written' /\ LoadInv' /\ CacheInv' /\ UnitInv'
  BY <1>1, NoProgramKept
<1>7. MaskInv'
  BY DEF MaskInv
<1> QED
  BY <1>2, <1>3, <1>4, <1>5, <1>6, <1>7 DEF PcInv

LEMMA ThrClearAllStep == ASSUME PcInv, ThrClearAll PROVE PcInv'
<1> USE DEF ThrClearAll, ThrGo, runVars, irqVars, jobVars
<1>1. RegTypes' /\ TableTypes' /\ JobTypes'
  BY DEF PcInv, RegTypes, TableTypes, JobTypes
<1>2. BitTypes'
  BY DEF PcInv, BitTypes
<1>3. LockInv'
  BY PcAssumption DEF PcInv, LockInv, Locked, Unlocked
<1>4. ResetInv'
  BY DEF PcInv, ResetInv
<1>5. ProgramInv' /\ Written' /\ LoadInv' /\ CacheInv' /\ UnitInv'
  BY ProgramKept
<1>6. MaskInv'
  BY DEF MaskInv
<1> QED
  BY <1>1, <1>2, <1>3, <1>4, <1>5, <1>6 DEF PcInv

LEMMA ThrReturnStep == ASSUME PcInv, ThrReturn PROVE PcInv'
<1> USE DEF ThrReturn, ThrGo, hwVars, runVars, irqVars, jobVars
<1>1. RegTypes' /\ BitTypes' /\ TableTypes' /\ JobTypes'
  BY DEF PcInv, RegTypes, BitTypes, TableTypes, JobTypes
<1>2. LockInv'
  BY PcAssumption DEF PcInv, LockInv, Locked, Unlocked
<1>3. ResetInv'
  BY DEF PcInv, ResetInv
<1>4. ProgramInv' /\ Written' /\ LoadInv' /\ CacheInv' /\ UnitInv'
  BY NoProgramKept
<1>5. MaskInv'
  BY DEF PcInv, MaskInv, Ahead, Back
<1> QED
  BY <1>1, <1>2, <1>3, <1>4, <1>5 DEF PcInv

-----------------------------------------------------------------------------
(* The timeout and the reset.                                              *)
LEMMA TdrPickStep == ASSUME PcInv, TdrPick PROVE PcInv'
<1> USE DEF TdrPick, hwVars, runVars, irqVars, thrVars, jobVars
<1>1. RegTypes' /\ BitTypes' /\ TableTypes' /\ JobTypes'
  BY DEF PcInv, RegTypes, BitTypes, TableTypes, JobTypes
<1>2. LockInv'
  BY DEF PcInv, LockInv
<1>3. ResetInv'
  BY DEF PcInv, ResetInv
<1>4. ProgramInv' /\ Written' /\ LoadInv' /\ CacheInv' /\ UnitInv'
  BY ProgramKept
<1>5. MaskInv'
  BY DEF MaskInv
<1> QED
  BY <1>1, <1>2, <1>3, <1>4, <1>5 DEF PcInv

LEMMA TdrClearStep == ASSUME PcInv, TdrClear PROVE PcInv'
<1> USE DEF TdrClear, hwVars, runVars, irqVars, thrVars
<1>1. todo = <<>>
  BY NothingWritten
<1>2. RegTypes' /\ BitTypes' /\ TableTypes' /\ JobTypes'
  BY DEF PcInv, RegTypes, BitTypes, TableTypes, JobTypes
<1>3. LockInv'
  BY <1>1, PcAssumption DEF PcInv, LockInv, Locked
<1>4. ResetInv'
  BY DEF PcInv, ResetInv
<1>5. ProgramInv' /\ Written' /\ LoadInv' /\ CacheInv' /\ UnitInv'
  BY <1>1, NoProgramKept
<1>6. MaskInv'
  BY DEF MaskInv
<1> QED
  BY <1>2, <1>3, <1>4, <1>5, <1>6 DEF PcInv

LEMMA ResetTypes ==
  ASSUME PcInv, Reset
  PROVE  /\ RegTypes'
         /\ sram' \in [Tables -> [0 .. LutWords - 1 -> Words]]
         /\ raw' = {} /\ mask' = {} /\ unit' = None /\ lutValid' = FALSE
         /\ reg'.BASE_ADDRESS = reg.BASE_ADDRESS /\ reg'.REGISTER_AMOUNTS = reg.REGISTER_AMOUNTS
         /\ reg'.TASK_CON = reg.TASK_CON
<1>1. reg' = [reg EXCEPT !.OPERATION_ENABLE = OPERATION_ENABLE(0), !.CNA = None, !.CORE = None,
                         !.DPU = DPU_S_POINTER(0)]
  BY DEF Reset
<1>2. reg = [r \in Registers |-> reg[r]]
  BY DEF PcInv, RegTypes
<1>3. /\ reg' = [r \in Registers |-> reg'[r]]
      /\ reg'.BASE_ADDRESS = reg.BASE_ADDRESS /\ reg'.REGISTER_AMOUNTS = reg.REGISTER_AMOUNTS
      /\ reg'.TASK_CON = reg.TASK_CON
  BY <1>1, <1>2 DEF Registers
<1>4. RegTypes'
  <2>1. executer' = 0
    BY DEF Reset
  <2>2. RegTypes
    BY DEF PcInv
  <2> QED
    BY <1>3, <2>1, <2>2 DEF RegTypes
<1>5. sram' \in [Tables -> [0 .. LutWords - 1 -> Words]]
  BY DEF Reset, Blank, Words
<1> QED
  BY <1>3, <1>4, <1>5 DEF Reset

LEMMA TdrResetStep == ASSUME PcInv, TdrReset PROVE PcInv'
<1> USE DEF TdrReset, runVars, irqVars, thrVars
<1>1. todo = <<>> /\ inFlight = None /\ runPc = "idle"
  BY NothingWritten DEF PcInv, ResetInv
<1>2. RegTypes' /\ TableTypes'
  BY ResetTypes DEF PcInv, TableTypes
<1>3. BitTypes' /\ JobTypes'
  BY ResetTypes DEF PcInv, BitTypes, JobTypes
<1>4. LockInv'
  BY DEF PcInv, LockInv
<1>5. ResetInv'
  BY <1>1 DEF PcInv, ResetInv
<1>6. ProgramInv' /\ Written' /\ LoadInv' /\ CacheInv' /\ UnitInv'
  BY <1>1, ResetTypes, NoProgramKept
<1>7. MaskInv'
  BY <1>1 DEF MaskInv
<1> QED
  BY <1>2, <1>3, <1>4, <1>5, <1>6, <1>7 DEF PcInv

-----------------------------------------------------------------------------
(* The hardware.                                                           *)
LEMMA EndsStep == ASSUME PcInv, Ends PROVE PcInv'
<1> USE DEF Ends, runVars, irqVars, thrVars, jobVars
<1>1. executer' \in 0 .. 1 /\ unit' \in {unit, None}
  OBVIOUS
<1>2. raw' \subseteq CLEAR_ALL
  <2>1. unit.job \in ValidJobs /\ raw \subseteq CLEAR_ALL
    BY DEF PcInv, UnitInv, BitTypes
  <2>2. Job[unit.job].last_int_mask \subseteq CLEAR_ALL
    BY <2>1, JobFacts
  <2> QED
    BY <2>1, <2>2
<1>3. RegTypes' /\ TableTypes' /\ JobTypes'
  BY <1>1 DEF PcInv, RegTypes, TableTypes, JobTypes
<1>4. BitTypes'
  BY <1>2 DEF PcInv, BitTypes
<1>5. LockInv' /\ ResetInv'
  BY DEF PcInv, LockInv, ResetInv
<1>6. ProgramInv' /\ Written' /\ LoadInv' /\ CacheInv' /\ UnitInv'
  BY <1>1, ProgramKept
<1>7. MaskInv'
  BY DEF PcInv, MaskInv, Ahead, Back
<1> QED
  BY <1>3, <1>4, <1>5, <1>6, <1>7 DEF PcInv

LEMMA UnitReportsStep == ASSUME PcInv, NEW b \in Reports, UnitReports(b) PROVE PcInv'
<1> USE DEF UnitReports, runVars, irqVars, thrVars, jobVars
<1>1. raw' \subseteq CLEAR_ALL
  BY PcAssumption DEF PcInv, BitTypes
<1>2. RegTypes' /\ TableTypes' /\ JobTypes'
  BY DEF PcInv, RegTypes, TableTypes, JobTypes
<1>3. BitTypes'
  BY <1>1 DEF PcInv, BitTypes
<1>4. LockInv' /\ ResetInv'
  BY DEF PcInv, LockInv, ResetInv
<1>5. ProgramInv' /\ Written' /\ LoadInv' /\ CacheInv' /\ UnitInv'
  BY ProgramKept
<1>6. MaskInv'
  BY DEF PcInv, MaskInv, Ahead, Back
<1> QED
  BY <1>2, <1>3, <1>4, <1>5, <1>6 DEF PcInv

-----------------------------------------------------------------------------
(* rocket_job_hw_submit() is called: the program is decided on.            *)
LEMMA ChainSubmitKept ==
  ASSUME PcInv, NEW j \in ValidJobs, Chain(j), todo = <<>>, ~pending, HwSubmit(j), inFlight' = j,
         UNCHANGED <<hwVars, lutValid, lutCache>>
  PROVE  /\ Ahead' >= 8 /\ Len(todo') \in Nat
         /\ ProgramInv' /\ Written' /\ LoadInv' /\ CacheInv' /\ UnitInv'
<1> DEFINE p == ChainProgram(j)
           b == IF PulseKeep THEN 0 ELSE 1
           n == 0
<1>1. todo' = p /\ nextTask' = [nextTask EXCEPT ![j] = n]
  BY DEF HwSubmit
<1>2. /\ Len(p) \in Nat /\ OfLength(p, Len(p))
      /\ \A i \in 1 .. Len(p) : p[i] = Due(j, n, Len(p) - b + 1 - i)
      /\ IF LutLoad(j) THEN Len(p) - b = WordAt(0, -1) ELSE Len(p) - b = 8
  BY ChainDue
<1>3. nextTask'[inFlight'] = n
  BY <1>1 DEF PcInv, JobTypes
<1> HIDE DEF p, n
<1>4. Back' = b
  BY DEF Back
<1>5. Ahead' = Len(p) - b
  BY <1>1, <1>4 DEF Ahead
<1> HIDE DEF b
<1>6. WordAt(0, -1) \in Nat /\ WordAt(0, -1) > 9
  BY LutWordsNat DEF WordAt
<1>7. Ahead' >= 8 /\ Ahead' <= WordAt(0, -1) /\ Ahead' \in Int
  BY <1>2, <1>5, <1>6
<1>8. ProgramInv'
  <2>1. Len(todo') \in Nat /\ OfLength(todo', Len(todo'))
    BY <1>1, <1>2
  <2>2. \A i \in 1 .. Len(todo') : todo'[i] = Due(inFlight', nextTask'[inFlight'], Ahead' + 1 - i)
    BY <1>1, <1>2, <1>3, <1>5
  <2>3. Ahead' >= 9 => Job[j].lut # None
    BY <1>2, <1>5 DEF LutLoad
  <2> QED
    BY <1>7, <2>1, <2>2, <2>3 DEF ProgramInv, OfLength
<1>9. Written'
  BY <1>7 DEF Written
<1>10. LoadInv'
  <2>1. ASSUME Loading' PROVE Ahead' = WordAt(0, -1)
    BY <1>2, <1>5, <2>1 DEF Loading
  <2>2. \A t \in Tables : \A a \in 0 .. LutWords - 1 : ~(WordAt(0, -1) < WordAt(t, a))
    BY LutWordsNat, WordPlaces DEF WordAt, Tables
  <2>3. ~(WordAt(0, -1) < WordAt(1, -1)) /\ WordAt(0, -1) \notin WordAt(1, -1) .. WordAt(0, 0)
    BY LutWordsNat DEF WordAt
  <2> QED
    BY <2>1, <2>2, <2>3 DEF LoadInv
<1>11. CacheInv'
  <2>1. lutValid => sram = TableWords(lutCache)
    BY DEF PcInv, CacheInv, Loading
  <2>2. Ahead' < 9 /\ Job[j].lut # None => lutValid /\ lutCache = Job[j].lut
    BY <1>2, <1>5, <1>6 DEF LutLoad
  <2> QED
    BY <2>1, <2>2 DEF CacheInv, hwVars
<1>12. UnitInv'
  BY DEF PcInv, UnitInv, Number, hwVars
<1> QED
  BY <1>1, <1>2, <1>7, <1>8, <1>9, <1>10, <1>11, <1>12

LEMMA TaskSubmitKept ==
  ASSUME PcInv, NEW j \in ValidJobs, ~Chain(j), todo = <<>>, ~pending, HwSubmit(j), inFlight' = j,
         UNCHANGED <<hwVars, lutValid, lutCache>>
  PROVE  /\ Ahead' >= 8 /\ Len(todo') \in Nat
         /\ ProgramInv' /\ Written' /\ LoadInv' /\ CacheInv' /\ UnitInv'
<1> DEFINE p == TaskProgram(j)
           n == nextTask[j] + 1
<1>1. todo' = p /\ nextTask' = [nextTask EXCEPT ![j] = n]
  BY DEF HwSubmit
<1>2. nextTask \in [ValidJobs -> Nat]
  BY DEF PcInv, JobTypes
<1>3. /\ Len(p) \in Nat /\ Len(p) >= 10 /\ Len(p) <= 11 /\ OfLength(p, Len(p))
      /\ \A i \in 1 .. Len(p) : p[i] = Due(j, n, Len(p) + 1 - i)
  BY <1>2, TaskDue
<1>4. nextTask'[inFlight'] = n /\ n # 0
  BY <1>1, <1>2
<1> HIDE DEF p, n
<1>5. Back' = 0
  BY DEF Back
<1>6. Ahead' = Len(p) /\ Ahead' \in Int /\ Ahead' >= 10 /\ Ahead' <= 11
  <2>1. Ahead' = Len(p) - 0
    BY <1>1, <1>5 DEF Ahead
  <2>2. Len(p) \in Int /\ Len(p) >= 10 /\ Len(p) <= 11
    BY <1>3
  <2>3. Ahead' = Len(p)
    BY <2>1, <2>2
  <2> QED
    BY <2>2, <2>3
<1>7. ProgramInv'
  <2>1. Len(todo') \in Nat /\ OfLength(todo', Len(todo'))
    BY <1>1, <1>3
  <2>2. \A i \in 1 .. Len(todo') : todo'[i] = Due(inFlight', nextTask'[inFlight'], Ahead' + 1 - i)
    BY <1>1, <1>3, <1>4, <1>6
  <2> QED
    BY <1>4, <1>6, <2>1, <2>2 DEF ProgramInv, OfLength
<1>8. Written'
  <2>1. ~(Ahead' < 7) /\ ~(Ahead' < 6) /\ ~(Ahead' < 5) /\ ~(Ahead' < 3) /\ ~(Ahead' < 8) /\ ~(Ahead' < 9)
    BY <1>6
  <2> QED
    BY <2>1 DEF Written
<1>9. ~Loading'
  BY DEF Loading
<1>10. CacheInv'
  <2>1. lutValid => sram = TableWords(lutCache)
    BY DEF PcInv, CacheInv, Loading
  <2> QED
    BY <2>1 DEF CacheInv, hwVars
<1>11. UnitInv'
  BY DEF PcInv, UnitInv, Number, hwVars
<1> QED
  BY <1>1, <1>3, <1>6, <1>7, <1>8, <1>9, <1>10, <1>11 DEF LoadInv

LEMMA SubmitKept ==
  ASSUME PcInv, NEW j \in ValidJobs, todo = <<>>, ~pending, HwSubmit(j), inFlight' = j,
         UNCHANGED <<hwVars, lutValid, lutCache>>
  PROVE  /\ ProgramInv' /\ Written' /\ LoadInv' /\ CacheInv' /\ UnitInv'
         /\ ~(todo' = <<>> \/ Ahead' < 5)
<1>1. Ahead' >= 8 /\ Len(todo') \in Nat /\ ProgramInv' /\ Written' /\ LoadInv' /\ CacheInv' /\ UnitInv'
  BY ChainSubmitKept, TaskSubmitKept
<1>2. Back' \in 0 .. 1 /\ Ahead' = Len(todo') - Back'
  BY DEF Back, Ahead
<1>3. Len(todo') # 0
  BY <1>1, <1>2
<1>4. todo' # <<>>
  BY <1>3
<1> QED
  BY <1>1, <1>2, <1>4

(* How far the tasks of a job are counted.                                 *)
LEMMA CountKept ==
  ASSUME PcInv, NEW j \in ValidJobs, ~pending, HwSubmit(j),
         Chain(j) \/ nextTask[j] < Job[j].task_count
  PROVE  /\ nextTask' \in [ValidJobs -> Nat]
         /\ \A i \in ValidJobs : nextTask'[i] <= Job[i].task_count
<1>1. nextTask \in [ValidJobs -> Nat] /\ \A i \in ValidJobs : nextTask[i] <= Job[i].task_count
  BY DEF PcInv, JobTypes
<1>2. \A i \in ValidJobs : Job[i].task_count \in Nat
  BY JobFacts
<1>3. nextTask' = [nextTask EXCEPT ![j] = IF Chain(j) THEN 0 ELSE @ + 1]
  BY DEF HwSubmit
<1>4. nextTask' \in [ValidJobs -> Nat]
  BY <1>1, <1>3
<1>5. ASSUME NEW i \in ValidJobs PROVE nextTask'[i] <= Job[i].task_count
  <2>1. CASE i = j /\ Chain(j)
    BY <1>1, <1>2, <1>3, <2>1
  <2>2. CASE i = j /\ ~Chain(j)
    BY <1>1, <1>2, <1>3, <2>2
  <2>3. CASE i # j
    BY <1>1, <1>3, <2>3
  <2> QED
    BY <2>1, <2>2, <2>3
<1> QED
  BY <1>4, <1>5

LEMMA RunSubmitStep == ASSUME PcInv, RunSubmit PROVE PcInv'
<1> USE DEF RunSubmit, irqVars, thrVars
<1>1. /\ runJob \in ValidJobs /\ nextTask[runJob] = 0 /\ inFlight = None /\ tdrPc = "idle"
      /\ ~pending /\ todo = <<>>
  BY NothingWritten DEF PcInv, ResetInv
<1>2. Job[runJob].task_count \in Nat \ {0} /\ runJob # None
  BY <1>1, JobFacts
<1>3. RegTypes' /\ BitTypes' /\ TableTypes'
  BY DEF PcInv, RegTypes, BitTypes, TableTypes, hwVars
<1>4. JobTypes'
  <2>1. nextTask[runJob] < Job[runJob].task_count
    BY <1>1, <1>2
  <2> QED
    BY <1>1, <2>1, CountKept DEF PcInv, JobTypes
<1>5. LockInv'
  BY <1>1, <1>2, PcAssumption DEF PcInv, LockInv, Locked, Unlocked
<1>6. ResetInv'
  BY <1>1 DEF PcInv, ResetInv
<1>7. /\ ProgramInv' /\ Written' /\ LoadInv' /\ CacheInv' /\ UnitInv'
      /\ ~(todo' = <<>> \/ Ahead' < 5)
  BY <1>1, SubmitKept
<1>8. MaskInv'
  BY <1>7 DEF MaskInv
<1> QED
  BY <1>3, <1>4, <1>5, <1>6, <1>7, <1>8 DEF PcInv

LEMMA ThrStepStep == ASSUME PcInv, ThrStep PROVE PcInv'
<1> USE DEF ThrStep, runVars, irqVars
<1>1. todo = <<>>
  BY NothingWritten
<1>2. RegTypes' /\ BitTypes' /\ TableTypes'
  BY DEF PcInv, RegTypes, BitTypes, TableTypes, hwVars
<1>3. CASE inFlight = None \/ nextTask[inFlight] = Job[inFlight].task_count \/ pending
  <2>1. UNCHANGED <<todo, nextTask>>
    <3>1. CASE UNCHANGED <<todo, nextTask>>
      BY <3>1
    <3>2. CASE inFlight # None /\ nextTask[inFlight] < Job[inFlight].task_count /\ HwSubmit(inFlight)
      <4>1. inFlight \in ValidJobs /\ nextTask[inFlight] \in Nat
        BY <3>2 DEF PcInv, JobTypes
      <4>2. Job[inFlight].task_count \in Nat
        BY <4>1, JobFacts
      <4>3. pending
        BY <1>3, <3>2, <4>1, <4>2
      <4> QED
        BY <3>2, <4>3 DEF HwSubmit
    <3> QED
      BY <3>1, <3>2
  <2>2. JobTypes'
    BY <2>1 DEF PcInv, JobTypes
  <2>3. LockInv'
    BY <1>1, <2>1, PcAssumption DEF PcInv, LockInv, Locked, Unlocked
  <2>4. ResetInv'
    BY <2>1 DEF PcInv, ResetInv
  <2>5. ProgramInv' /\ Written' /\ LoadInv' /\ CacheInv' /\ UnitInv'
    BY <1>1, <2>1, NoProgramKept DEF hwVars
  <2>6. MaskInv'
    <3>1. inFlight # None => inFlight \in ValidJobs /\ nextTask[inFlight] \in Nat
      BY DEF PcInv, JobTypes
    <3>2. inFlight # None /\ nextTask[inFlight] = Job[inFlight].task_count
            => ~(nextTask[inFlight] < Job[inFlight].task_count)
      BY <3>1
    <3>3. inFlight' = None \/ pending' \/ thrPc' = "complete"
      BY <1>3, <3>2
    <3> QED
      BY <3>3 DEF MaskInv
  <2> QED
    BY <1>2, <2>2, <2>3, <2>4, <2>5, <2>6 DEF PcInv
<1>4. CASE ~(inFlight = None \/ nextTask[inFlight] = Job[inFlight].task_count \/ pending)
  <2>1. /\ inFlight \in ValidJobs /\ nextTask[inFlight] < Job[inFlight].task_count /\ ~pending
        /\ HwSubmit(inFlight) /\ holder' = "thread" /\ thrPc' = "write"
    BY <1>4 DEF PcInv, JobTypes
  <2>2. JobTypes'
    BY <2>1, CountKept DEF PcInv, JobTypes
  <2>3. LockInv'
    BY <2>1, PcAssumption DEF PcInv, LockInv, Locked, Unlocked
  <2>4. ResetInv'
    <3>1. runPc # "submit" \/ inFlight = None
      BY DEF PcInv, ResetInv
    <3> QED
      BY <1>4, <3>1 DEF PcInv, ResetInv
  <2>5. /\ ProgramInv' /\ Written' /\ LoadInv' /\ CacheInv' /\ UnitInv'
        /\ ~(todo' = <<>> \/ Ahead' < 5)
    BY <1>1, <2>1, SubmitKept
  <2>6. MaskInv'
    BY <2>5 DEF MaskInv
  <2> QED
    BY <1>2, <2>2, <2>3, <2>4, <2>5, <2>6 DEF PcInv
<1> QED
  BY <1>3, <1>4

-----------------------------------------------------------------------------
(* What the next write is, and what every write leaves alone.              *)
LEMMA WriteFacts ==
  ASSUME PcInv, Write
  PROVE  /\ inFlight \in ValidJobs /\ nextTask[inFlight] \in Nat
         /\ nextTask[inFlight] <= Job[inFlight].task_count
         /\ UNCHANGED <<inFlight, nextTask, holder, thrPc, pending>>
         /\ Ahead \in Int /\ Ahead >= 0 /\ Ahead' = Ahead - 1 /\ Back' = Back
         /\ ~Chain(inFlight) => Ahead >= 1
         /\ Head(todo) = Due(inFlight, nextTask[inFlight], Ahead)
         /\ IF Chain(inFlight)
              THEN Ahead <= WordAt(0, -1) /\ (Ahead >= 9 => Job[inFlight].lut # None)
              ELSE Ahead <= 11 /\ nextTask[inFlight] # 0
         /\ ProgramInv'
         /\ todo' = <<>> => Ahead <= 1
<1> USE DEF Write, runVars, irqVars, thrVars
<1>1. todo # <<>> /\ todo' = Tail(todo) /\ UNCHANGED <<inFlight, nextTask, holder, thrPc, pending>>
  OBVIOUS
<1>2. inFlight \in ValidJobs
  <2>1. holder # None
    BY PcAssumption DEF PcInv, LockInv, Locked
  <2> QED
    BY <2>1 DEF PcInv, LockInv, JobTypes
<1>3. nextTask[inFlight] \in Nat /\ nextTask[inFlight] <= Job[inFlight].task_count
  BY <1>2 DEF PcInv, JobTypes
<1> DEFINE m == Len(todo)
           n == nextTask[inFlight]
<1>4. m \in Nat /\ OfLength(todo, m)
  BY DEF PcInv, ProgramInv
<1> HIDE DEF m
<1>5. /\ m > 0 /\ Head(todo) = todo[1]
      /\ Len(todo') = m - 1
      /\ OfLength(todo', m - 1)
      /\ \A i \in 1 .. m - 1 : todo'[i] = todo[i + 1]
  BY <1>1, <1>4, TailOf
<1>6. Back \in 0 .. 1 /\ Back' = Back /\ (~Chain(inFlight) => Back = 0)
  BY <1>1 DEF Back
<1>7. Ahead = m - Back /\ Ahead' = m - 1 - Back
  BY <1>5, <1>6 DEF Ahead, m
<1>8. Ahead \in Int /\ Ahead >= 0 /\ Ahead' = Ahead - 1 /\ (~Chain(inFlight) => Ahead >= 1)
  BY <1>4, <1>5, <1>6, <1>7
<1>9. \A i \in 1 .. m : todo[i] = Due(inFlight, n, Ahead + 1 - i)
  BY <1>1 DEF PcInv, ProgramInv, m
<1>10. IF Chain(inFlight)
         THEN Ahead <= WordAt(0, -1) /\ (Ahead >= 9 => Job[inFlight].lut # None)
         ELSE Ahead <= 11 /\ nextTask[inFlight] # 0
  BY <1>1 DEF PcInv, ProgramInv
<1> HIDE DEF n
<1>11. Head(todo) = Due(inFlight, n, Ahead)
  <2>1. 1 \in 1 .. m /\ Ahead + 1 - 1 = Ahead
    BY <1>4, <1>5, <1>8
  <2> QED
    BY <1>5, <1>9, <2>1
<1>12. ASSUME NEW i \in 1 .. m - 1
       PROVE  todo'[i] = Due(inFlight', nextTask'[inFlight'], Ahead' + 1 - i)
  <2>1. i + 1 \in 1 .. m /\ Ahead + 1 - (i + 1) = Ahead' + 1 - i
    BY <1>4, <1>8
  <2>2. nextTask'[inFlight'] = n /\ inFlight' = inFlight
    BY <1>1 DEF n
  <2> QED
    BY <1>5, <1>9, <2>1, <2>2
<1>13. ProgramInv'
  <2>1. Len(todo') \in Nat /\ OfLength(todo', Len(todo'))
    BY <1>4, <1>5
  <2>2. \A i \in 1 .. Len(todo') : todo'[i] = Due(inFlight', nextTask'[inFlight'], Ahead' + 1 - i)
    BY <1>5, <1>12
  <2>3. WordAt(0, -1) \in Int
    BY LutWordsNat DEF WordAt
  <2>4. IF Chain(inFlight')
          THEN Ahead' <= WordAt(0, -1) /\ (Ahead' >= 9 => Job[inFlight'].lut # None)
          ELSE Ahead' <= 11 /\ nextTask'[inFlight'] # 0
    BY <1>1, <1>8, <1>10, <2>3
  <2> QED
    BY <2>1, <2>2, <2>4 DEF ProgramInv, OfLength
<1>14. todo' = <<>> => Ahead <= 1
  <2>1. todo' = <<>> => m - 1 = 0
    BY <1>5
  <2> QED
    BY <1>4, <1>6, <1>7, <2>1
<1> QED
  BY <1>1, <1>2, <1>3, <1>6, <1>8, <1>10, <1>11, <1>13, <1>14 DEF n

LEMMA WriteKept ==
  ASSUME PcInv, Write
  PROVE  /\ JobTypes' /\ LockInv' /\ ResetInv'
         /\ (mask' = mask /\ Ahead # 5) \/ ~Chain(inFlight) => MaskInv'
<1>0. todo' = <<>> \/ Ahead' < 5 => Ahead < 5 \/ Ahead = 5
  <2>1. Ahead \in Int /\ Ahead' = Ahead - 1 /\ (todo' = <<>> => Ahead <= 1)
    BY WriteFacts
  <2> QED
    BY <2>1
<1> USE DEF Write, runVars, irqVars, thrVars
<1>1. JobTypes'
  BY DEF PcInv, JobTypes
<1>2. LockInv'
  BY DEF PcInv, LockInv
<1>3. ResetInv'
  BY DEF PcInv, ResetInv
<1>4. ASSUME (mask' = mask /\ Ahead # 5) \/ ~Chain(inFlight) PROVE MaskInv'
  <2>1. UNCHANGED <<inFlight, pending, thrPc, thrWake>>
    OBVIOUS
  <2> QED
    BY <1>0, <1>4, <2>1 DEF PcInv, MaskInv
<1> QED
  BY <1>1, <1>2, <1>3, <1>4

(* The tables are left alone once they are settled, and by single tasks.   *)
LEMMA TablesKept ==
  ASSUME PcInv, Write, UNCHANGED <<sram, lutAt>>, UNCHANGED <<lutValid, lutCache>> \/ lutValid' = FALSE,
         ~Chain(inFlight) \/ (Ahead < 9 /\ UNCHANGED <<lutValid, lutCache>>)
  PROVE  LoadInv' /\ CacheInv'
<1>1. inFlight' = inFlight /\ Ahead' = Ahead - 1 /\ Ahead \in Int
  BY WriteFacts
<1>2. todo # <<>>
  BY DEF Write
<1>3. ~Loading /\ ~Loading'
  BY <1>1, <1>2 DEF Loading
<1>4. LoadInv'
  BY <1>3 DEF LoadInv
<1>5. lutValid' => sram' = TableWords(lutCache')
  BY <1>3 DEF PcInv, CacheInv
<1>6. ASSUME Chain(inFlight), Job[inFlight].lut # None
      PROVE  lutValid' /\ lutCache' = Job[inFlight].lut
  <2>1. Ahead < 9 /\ UNCHANGED <<lutValid, lutCache>>
    BY <1>6
  <2>2. lutValid /\ lutCache = Job[inFlight].lut
    BY <1>2, <1>6, <2>1 DEF PcInv, CacheInv
  <2> QED
    BY <2>1, <2>2
<1>7. CacheInv'
  BY <1>1, <1>5, <1>6 DEF CacheInv
<1> QED
  BY <1>4, <1>7

(* A write to one of the registers.                                        *)
LEMMA RegisterWritten ==
  ASSUME Write, NEW r \in Registers, NEW v, Head(todo) = W(r, v)
  PROVE  /\ reg' = [reg EXCEPT ![r] = v]
         /\ unit' = IF W(r, v) = W("OPERATION_ENABLE", OPERATION_ENABLE(1)) THEN Taken ELSE unit
         /\ UNCHANGED <<raw, mask, executer, sram, lutAt, lutValid, lutCache>>
<1>1. Head(todo).reg = r /\ Head(todo).val = v
  BY DEF W
<1>2. r \notin {"RESET", "LUT_SETTLED", "LUT_ACCESS_CFG", "LUT_ACCESS_DATA", "INTERRUPT_MASK",
                "INTERRUPT_CLEAR"}
  BY DEF Registers
<1>3. Effect(Head(todo)) /\ UNCHANGED <<executer, lutValid, lutCache>>
  BY <1>1, <1>2 DEF Write
<1> QED
  BY <1>1, <1>2, <1>3 DEF Effect

LEMMA RegisterKept ==
  ASSUME PcInv, Write, NEW r \in Registers, NEW v, Head(todo) = W(r, v),
         r = "TASK_CON" => v.TASK_NUMBER \in 0 .. 2^12 - 1,
         r = "REGISTER_AMOUNTS" => v.PC_DATA_AMOUNT \in 0 .. 2^16 - 1,
         W(r, v) = W("OPERATION_ENABLE", OPERATION_ENABLE(1)) => UnitInv',
         ~Chain(inFlight) \/ Ahead < 9, Ahead # 5,
         Written'
  PROVE  PcInv'
<1>1. RegTypes'
  <2>1. /\ reg = [x \in Registers |-> reg[x]] /\ executer \in 0 .. 1
        /\ reg.TASK_CON.TASK_NUMBER \in 0 .. 2^12 - 1
        /\ reg.REGISTER_AMOUNTS.PC_DATA_AMOUNT \in 0 .. 2^16 - 1
    BY DEF PcInv, RegTypes
  <2>2. reg' = [reg EXCEPT ![r] = v] /\ executer' = executer
    BY RegisterWritten
  <2>3. reg' = [x \in Registers |-> IF x = r THEN v ELSE reg[x]]
    BY <2>1, <2>2, Zenon
  <2>4. reg' = [x \in Registers |-> reg'[x]]
    BY <2>3
  <2>5. reg'.TASK_CON = (IF r = "TASK_CON" THEN v ELSE reg.TASK_CON)
    BY <2>3 DEF Registers
  <2>6. reg'.REGISTER_AMOUNTS = (IF r = "REGISTER_AMOUNTS" THEN v ELSE reg.REGISTER_AMOUNTS)
    BY <2>3 DEF Registers
  <2>7. reg'.TASK_CON.TASK_NUMBER \in 0 .. 2^12 - 1
    BY <2>1, <2>5, Zenon
  <2>8. reg'.REGISTER_AMOUNTS.PC_DATA_AMOUNT \in 0 .. 2^16 - 1
    BY <2>1, <2>6, Zenon
  <2> QED
    BY <2>1, <2>2, <2>4, <2>7, <2>8 DEF RegTypes
<1>2. BitTypes' /\ TableTypes'
  <2>1. UNCHANGED <<raw, mask, sram, lutAt>>
    BY RegisterWritten
  <2>2. UNCHANGED <<irqRaw, thrSt>>
    BY DEF Write, irqVars, thrVars
  <2> QED
    BY <2>1, <2>2 DEF PcInv, BitTypes, TableTypes
<1>3. UnitInv'
  <2>1. CASE W(r, v) = W("OPERATION_ENABLE", OPERATION_ENABLE(1))
    BY <2>1
  <2>2. CASE W(r, v) # W("OPERATION_ENABLE", OPERATION_ENABLE(1))
    BY <2>2, RegisterWritten DEF PcInv, UnitInv, Number
  <2> QED
    BY <2>1, <2>2
<1>4. LoadInv' /\ CacheInv'
  BY RegisterWritten, TablesKept
<1>5. MaskInv'
  BY RegisterWritten, WriteKept
<1> QED
  BY <1>1, <1>2, <1>3, <1>4, <1>5, WriteFacts, WriteKept DEF PcInv

(* What must have been written before the next write but one.              *)
LEMMA WrittenFrom ==
  ASSUME PcInv, Write, NEW task, task = TaskOf(inFlight, nextTask[inFlight]),
         Ahead <= 7 => reg'.BASE_ADDRESS = BASE_ADDRESS(task.regcmd),
         Ahead <= 6 => reg'.REGISTER_AMOUNTS = Amount(task),
         Ahead <= 5 => mask' \subseteq MaskOf(inFlight),
         Ahead <= 3 => reg'.TASK_CON = TASK_CON(1, 1, Steps(inFlight)),
         Ahead <= 8 /\ ~Chain(inFlight) => reg'.CORE # None,
         Ahead <= 9 /\ ~Chain(inFlight) => reg'.CNA # None
  PROVE  Written'
<1>1. Ahead \in Int /\ Ahead' = Ahead - 1 /\ inFlight' = inFlight /\ nextTask' = nextTask
  BY WriteFacts
<1>2. task = TaskOf(inFlight', nextTask'[inFlight'])
  BY <1>1
<1>3. /\ Ahead' < 7 <=> Ahead <= 7
      /\ Ahead' < 6 <=> Ahead <= 6
      /\ Ahead' < 5 <=> Ahead <= 5
      /\ Ahead' < 3 <=> Ahead <= 3
      /\ Ahead' < 8 <=> Ahead <= 8
      /\ Ahead' < 9 <=> Ahead <= 9
  BY <1>1
<1> QED
  BY <1>1, <1>2, <1>3 DEF Written

(* A write to a register that fits in with the others.                     *)
LEMMA RegisterStep ==
  ASSUME PcInv, Write, NEW r \in Registers, NEW v, Head(todo) = W(r, v),
         r = "TASK_CON" => v.TASK_NUMBER \in 0 .. 2^12 - 1,
         r = "REGISTER_AMOUNTS" => v.PC_DATA_AMOUNT \in 0 .. 2^16 - 1,
         W(r, v) = W("OPERATION_ENABLE", OPERATION_ENABLE(1)) => UnitInv',
         ~Chain(inFlight) \/ Ahead < 9, Ahead # 5,
         NEW task, task = TaskOf(inFlight, nextTask[inFlight]),
         r = "BASE_ADDRESS" => v = BASE_ADDRESS(task.regcmd) \/ Ahead > 7,
         r = "REGISTER_AMOUNTS" => v = Amount(task),
         r = "TASK_CON" => v = TASK_CON(1, 1, Steps(inFlight)),
         r \in {"CORE", "CNA"} => v # None,
         r = "BASE_ADDRESS" \/ Ahead # 7, r = "REGISTER_AMOUNTS" \/ Ahead # 6,
         r = "TASK_CON" \/ Ahead # 3,
         Chain(inFlight) \/ r = "CORE" \/ Ahead # 8, Chain(inFlight) \/ r = "CNA" \/ Ahead # 9
  PROVE  PcInv'
<1>1. Ahead \in Int /\ todo # <<>>
  BY WriteFacts DEF Write
<1>2. reg' = [reg EXCEPT ![r] = v] /\ mask' = mask
  BY RegisterWritten
<1>3. reg = [x \in Registers |-> reg[x]]
  BY DEF PcInv, RegTypes
<1>4. \A x \in Registers : reg'[x] = IF x = r THEN v ELSE reg[x]
  BY <1>2, <1>3, Zenon
<1>5. /\ reg'.BASE_ADDRESS = (IF r = "BASE_ADDRESS" THEN v ELSE reg.BASE_ADDRESS)
      /\ reg'.REGISTER_AMOUNTS = (IF r = "REGISTER_AMOUNTS" THEN v ELSE reg.REGISTER_AMOUNTS)
      /\ reg'.TASK_CON = (IF r = "TASK_CON" THEN v ELSE reg.TASK_CON)
      /\ reg'.CORE = (IF r = "CORE" THEN v ELSE reg.CORE)
      /\ reg'.CNA = (IF r = "CNA" THEN v ELSE reg.CNA)
  BY <1>4 DEF Registers
<1>6. Written
  BY DEF PcInv
<1>7. Ahead <= 7 => reg'.BASE_ADDRESS = BASE_ADDRESS(task.regcmd)
  BY <1>1, <1>5, <1>6 DEF Written
<1>8. Ahead <= 6 => reg'.REGISTER_AMOUNTS = Amount(task)
  BY <1>1, <1>5, <1>6 DEF Written
<1>9. Ahead <= 5 => mask' \subseteq MaskOf(inFlight)
  BY <1>1, <1>2, <1>6 DEF Written
<1>10. Ahead <= 3 => reg'.TASK_CON = TASK_CON(1, 1, Steps(inFlight))
  BY <1>1, <1>5, <1>6 DEF Written
<1>11. Ahead <= 8 /\ ~Chain(inFlight) => reg'.CORE # None
  BY <1>1, <1>5, <1>6 DEF Written
<1>12. Ahead <= 9 /\ ~Chain(inFlight) => reg'.CNA # None
  BY <1>1, <1>5, <1>6 DEF Written
<1>13. Written'
  BY <1>7, <1>8, <1>9, <1>10, <1>11, <1>12, WrittenFrom
<1> QED
  BY <1>13, RegisterKept

(* OP_EN: the unit takes over the job that is written.                     *)
LEMMA LaunchStep ==
  ASSUME PcInv, Write, Ahead = 1
  PROVE  PcInv'
<1> DEFINE j == inFlight
           n == nextTask[j]
           task == TaskOf(j, n)
<1>1. /\ j \in ValidJobs /\ n \in Nat /\ n <= Job[j].task_count /\ (~Chain(j) => n # 0)
      /\ Head(todo) = Due(j, n, Ahead) /\ todo # <<>>
  BY WriteFacts DEF Write
<1>2. Head(todo) = W("OPERATION_ENABLE", OPERATION_ENABLE(1))
  BY <1>1 DEF Due, StartWrite
<1>3. unit' = [job |-> j, task |-> n, reg |-> reg, mask |-> mask, sram |-> sram]
  <2>1. unit' = Taken
    BY <1>2, RegisterWritten DEF Registers
  <2>2. j # None
    BY <1>1, JobFacts
  <2> QED
    BY <2>1, <2>2 DEF Taken
<1>4. /\ reg.BASE_ADDRESS = BASE_ADDRESS(task.regcmd) /\ reg.REGISTER_AMOUNTS = Amount(task)
      /\ mask \subseteq MaskOf(j) /\ reg.TASK_CON = TASK_CON(1, 1, Steps(j))
      /\ (~Chain(j) => reg.CORE # None /\ reg.CNA # None)
  BY <1>1 DEF PcInv, Written
<1>5. Chain(j) /\ Job[j].lut # None => sram = TableWords(Job[j].lut)
  BY <1>1 DEF PcInv, CacheInv, Loading
<1>6. Number(unit') \in 0 .. Job[j].task_count - 1 /\ task = Job[j].tasks[Number(unit') + 1]
  <2>1. Job[j].task_count \in Nat \ {0}
    BY <1>1, JobFacts
  <2>2. CASE Chain(j)
    BY <1>3, <2>1, <2>2 DEF Number, TaskOf
  <2>3. CASE ~Chain(j)
    <3>1. Number(unit') = n - 1
      BY <1>3, <2>3 DEF Number
    <3>2. n - 1 \in 0 .. Job[j].task_count - 1 /\ n - 1 + 1 = n
      BY <1>1, <2>1, <2>3
    <3> QED
      BY <2>3, <3>1, <3>2 DEF TaskOf
  <2> QED
    BY <2>2, <2>3
<1> HIDE DEF j, n, task
<1>7. UnitInv'
  BY <1>1, <1>3, <1>4, <1>5, <1>6 DEF UnitInv
<1> QED
  BY <1>2, <1>7, RegisterStep DEF Registers

(* The writes that start a chain or a task, but for OP_EN.                 *)
LEMMA StopStep ==
  ASSUME PcInv, Write, Ahead = 0
  PROVE  PcInv'
<1>1. Head(todo) = Due(inFlight, nextTask[inFlight], Ahead) /\ (~Chain(inFlight) => Ahead >= 1)
  BY WriteFacts
<1>2. Head(todo) = W("OPERATION_ENABLE", OPERATION_ENABLE(0)) /\ Chain(inFlight)
  BY <1>1 DEF Due, StartWrite
<1>3. W("OPERATION_ENABLE", OPERATION_ENABLE(0)) # W("OPERATION_ENABLE", OPERATION_ENABLE(1))
  <2>1. 2^1 = 2
    OBVIOUS
  <2>2. Field(0, 0, 1) = 0 /\ Field(1, 0, 1) = 1
    BY <2>1, Powers DEF Field
  <2> QED
    BY <2>2 DEF W, OPERATION_ENABLE
<1> QED
  BY <1>2, <1>3, RegisterStep DEF Registers

LEMMA DmaStep ==
  ASSUME PcInv, Write, Ahead = 2
  PROVE  PcInv'
<1>1. Head(todo) = Due(inFlight, nextTask[inFlight], Ahead)
  BY WriteFacts
<1>2. Head(todo) = W("TASK_DMA_BASE_ADDR", TASK_DMA_BASE_ADDR(DmaOf(inFlight)))
  BY <1>1 DEF Due, StartWrite
<1>3. \A v : W("TASK_DMA_BASE_ADDR", v) # W("OPERATION_ENABLE", OPERATION_ENABLE(1))
  BY DEF W
<1> QED
  BY <1>2, <1>3, RegisterStep DEF Registers

LEMMA TaskConStep ==
  ASSUME PcInv, Write, Ahead = 3
  PROVE  PcInv'
<1>1. Head(todo) = Due(inFlight, nextTask[inFlight], Ahead) /\ inFlight \in ValidJobs
  BY WriteFacts
<1>2. Head(todo) = W("TASK_CON", TASK_CON(1, 1, Steps(inFlight)))
  BY <1>1 DEF Due, StartWrite
<1>3. \A v : W("TASK_CON", v) # W("OPERATION_ENABLE", OPERATION_ENABLE(1))
  BY DEF W
<1>4. Steps(inFlight) \in Int
  BY <1>1, JobFacts DEF Steps
<1>5. TASK_CON(1, 1, Steps(inFlight)).TASK_NUMBER \in 0 .. 2^12 - 1
  BY <1>4, NumberFits
<1> QED
  BY <1>2, <1>3, <1>5, RegisterStep DEF Registers

LEMMA AmountStep ==
  ASSUME PcInv, Write, Ahead = 6
  PROVE  PcInv'
<1> DEFINE task == TaskOf(inFlight, nextTask[inFlight])
<1>1. /\ Head(todo) = Due(inFlight, nextTask[inFlight], Ahead) /\ inFlight \in ValidJobs
      /\ nextTask[inFlight] \in Nat /\ nextTask[inFlight] <= Job[inFlight].task_count
      /\ (~Chain(inFlight) => nextTask[inFlight] # 0)
  BY WriteFacts
<1>2. Head(todo) = W("REGISTER_AMOUNTS", Amount(task))
  BY <1>1 DEF Due, StartWrite
<1>3. \A v : W("REGISTER_AMOUNTS", v) # W("OPERATION_ENABLE", OPERATION_ENABLE(1))
  BY DEF W
<1>4. Amount(task).PC_DATA_AMOUNT \in 0 .. 2^16 - 1
  <2>1. Job[inFlight].task_count \in Nat \ {0}
    BY <1>1, JobFacts
  <2>2. (IF Chain(inFlight) THEN 1 ELSE nextTask[inFlight]) \in 1 .. Job[inFlight].task_count
    BY <1>1, <2>1
  <2>3. task.regcmd_count \in Nat \ {0}
    BY <1>1, <2>2, TaskFacts DEF TaskOf
  <2> HIDE DEF task
  <2> QED
    BY <2>3, AmountFits
<1> HIDE DEF task
<1>5. task = TaskOf(inFlight, nextTask[inFlight])
  BY DEF task
<1> QED
  BY <1>2, <1>3, <1>4, <1>5, RegisterStep DEF Registers

LEMMA AddressStep ==
  ASSUME PcInv, Write, Ahead = 7
  PROVE  PcInv'
<1> DEFINE task == TaskOf(inFlight, nextTask[inFlight])
<1>1. Head(todo) = Due(inFlight, nextTask[inFlight], Ahead)
  BY WriteFacts
<1>2. Head(todo) = W("BASE_ADDRESS", BASE_ADDRESS(task.regcmd))
  BY <1>1 DEF Due, StartWrite
<1>3. \A v : W("BASE_ADDRESS", v) # W("OPERATION_ENABLE", OPERATION_ENABLE(1))
  BY DEF W
<1> HIDE DEF task
<1>4. task = TaskOf(inFlight, nextTask[inFlight])
  BY DEF task
<1> QED
  BY <1>2, <1>3, <1>4, RegisterStep DEF Registers

(* PC_SEL: eight writes before a chain has started, ten before a task has. *)
LEMMA SelectStep ==
  ASSUME PcInv, Write, Ahead = IF Chain(inFlight) THEN 8 ELSE 10
  PROVE  PcInv'
<1>1. Head(todo) = Due(inFlight, nextTask[inFlight], Ahead)
  BY WriteFacts
<1>2. Head(todo) = W("BASE_ADDRESS", BASE_ADDRESS(1))
  <2>1. CASE Chain(inFlight)
    BY <1>1, <2>1 DEF Due
  <2>2. CASE ~Chain(inFlight)
    BY <1>1, <2>2 DEF Due
  <2> QED
    BY <2>1, <2>2
<1>3. \A v : W("BASE_ADDRESS", v) # W("OPERATION_ENABLE", OPERATION_ENABLE(1))
  BY DEF W
<1> QED
  BY <1>2, <1>3, RegisterStep DEF Registers

(* The pointers of a single task.                                          *)
LEMMA PointerStep ==
  ASSUME PcInv, Write, ~Chain(inFlight), Ahead \in {8, 9}
  PROVE  PcInv'
<1>1. Head(todo) = Due(inFlight, nextTask[inFlight], Ahead)
  BY WriteFacts
<1>2. CORE_S_POINTER(Index) # None /\ CNA_S_POINTER(Index) # None
  BY PcAssumption
<1>3. \A v : /\ W("CORE", v) # W("OPERATION_ENABLE", OPERATION_ENABLE(1))
             /\ W("CNA", v) # W("OPERATION_ENABLE", OPERATION_ENABLE(1))
  BY DEF W
<1>4. CASE Ahead = 8
  <2>1. Head(todo) = W("CORE", CORE_S_POINTER(Index))
    BY <1>1, <1>4 DEF Due
  <2> QED
    BY <1>2, <1>3, <1>4, <2>1, RegisterStep DEF Registers
<1>5. CASE Ahead = 9
  <2>1. Head(todo) = W("CNA", CNA_S_POINTER(Index))
    BY <1>1, <1>5 DEF Due
  <2> QED
    BY <1>2, <1>3, <1>5, <2>1, RegisterStep DEF Registers
<1> QED
  BY <1>4, <1>5

(* Pending interrupts are cleared, after the mask has been written.        *)
LEMMA ClearStep ==
  ASSUME PcInv, Write, Ahead = 4
  PROVE  PcInv'
<1>1. Head(todo) = Due(inFlight, nextTask[inFlight], Ahead)
  BY WriteFacts
<1>2. Head(todo) = W("INTERRUPT_CLEAR", CLEAR_ALL)
  BY <1>1 DEF Due, StartWrite
<1>3. /\ raw' = raw \ CLEAR_ALL
      /\ UNCHANGED <<reg, mask, executer, sram, lutAt, unit, lutValid, lutCache>>
  BY <1>2 DEF Write, Effect, W
<1>4. RegTypes' /\ TableTypes'
  BY <1>3 DEF PcInv, RegTypes, TableTypes
<1>5. BitTypes'
  BY <1>3 DEF PcInv, BitTypes, Write, irqVars, thrVars
<1>6. Written'
  <2>1. todo # <<>> /\ Written
    BY DEF PcInv, Write
  <2> QED
    BY <1>3, <2>1, WrittenFrom DEF Written
<1>7. UnitInv'
  BY <1>3 DEF PcInv, UnitInv, Number
<1>8. LoadInv' /\ CacheInv'
  BY <1>3, TablesKept
<1>9. JobTypes' /\ LockInv' /\ ResetInv' /\ MaskInv' /\ ProgramInv'
  BY <1>3, WriteKept, WriteFacts
<1> QED
  BY <1>4, <1>5, <1>6, <1>7, <1>8, <1>9 DEF PcInv

(* The mask: a chain's own interrupts, or all of them.                     *)
LEMMA MaskStep ==
  ASSUME PcInv, Write, Ahead = 5
  PROVE  PcInv'
<1>1. Head(todo) = Due(inFlight, nextTask[inFlight], Ahead) /\ inFlight \in ValidJobs
      /\ inFlight' = inFlight
  BY WriteFacts
<1>2. Head(todo) = W("INTERRUPT_MASK", MaskOf(inFlight))
  BY <1>1 DEF Due, StartWrite
<1>3. /\ mask' = MaskOf(inFlight)
      /\ UNCHANGED <<reg, raw, executer, sram, lutAt, unit, lutValid, lutCache>>
  BY <1>2 DEF Write, Effect, W
<1>4. mask' \subseteq CLEAR_ALL /\ mask' \cap Job[inFlight].last_int_mask # {}
  <2>1. Job[inFlight].last_int_mask \subseteq CLEAR_ALL /\ Job[inFlight].last_int_mask # {}
    BY <1>1, JobFacts
  <2> QED
    BY <1>3, <2>1 DEF MaskOf, Reopened
<1>5. RegTypes' /\ TableTypes'
  BY <1>3 DEF PcInv, RegTypes, TableTypes
<1>6. BitTypes'
  BY <1>3, <1>4 DEF PcInv, BitTypes, Write, irqVars, thrVars
<1>7. Written'
  <2>1. todo # <<>> /\ Written
    BY DEF PcInv, Write
  <2> QED
    BY <1>3, <2>1, WrittenFrom DEF Written
<1>8. UnitInv'
  BY <1>3 DEF PcInv, UnitInv, Number
<1>9. LoadInv' /\ CacheInv'
  BY <1>3, TablesKept
<1>10. MaskInv'
  BY <1>1, <1>4 DEF MaskInv
<1>11. JobTypes' /\ LockInv' /\ ResetInv' /\ ProgramInv'
  BY WriteKept, WriteFacts
<1> QED
  BY <1>5, <1>6, <1>7, <1>8, <1>9, <1>10, <1>11 DEF PcInv

(* rocket_core_reset() from within the program of a single task.           *)
LEMMA ResetStep ==
  ASSUME PcInv, Write, ~Chain(inFlight), Ahead = 11
  PROVE  PcInv'
<1>1. Head(todo) = Due(inFlight, nextTask[inFlight], Ahead)
  BY WriteFacts
<1>2. Head(todo) = W("RESET", 0)
  BY <1>1 DEF Due
<1>3. Reset /\ UNCHANGED <<lutAt, lutCache>>
  BY <1>2 DEF Write, W
<1>4. /\ RegTypes' /\ sram' \in [Tables -> [0 .. LutWords - 1 -> Words]]
      /\ raw' = {} /\ mask' = {} /\ unit' = None /\ lutValid' = FALSE
  BY <1>3, ResetTypes
<1>5. TableTypes'
  BY <1>3, <1>4 DEF PcInv, TableTypes
<1>6. BitTypes'
  BY <1>4 DEF PcInv, BitTypes, Write, irqVars, thrVars
<1>7. Written'
  BY WrittenFrom
<1>8. UnitInv'
  BY <1>4 DEF UnitInv
<1>9. LoadInv' /\ CacheInv'
  <2>1. ~Loading' /\ ~Chain(inFlight')
    BY WriteFacts DEF Loading
  <2> QED
    BY <1>4, <2>1 DEF LoadInv, CacheInv
<1>10. JobTypes' /\ LockInv' /\ ResetInv' /\ MaskInv' /\ ProgramInv'
  BY WriteKept, WriteFacts
<1> QED
  BY <1>4, <1>5, <1>6, <1>7, <1>8, <1>9, <1>10 DEF PcInv

-----------------------------------------------------------------------------
(* The tables of a chain are loaded.                                       *)
LEMMA PlacesDiffer ==
  ASSUME NEW t \in Tables, NEW a \in -1 .. LutWords - 1,
         NEW s \in Tables, NEW b \in -1 .. LutWords - 1, WordAt(t, a) = WordAt(s, b)
  PROVE  t = s /\ a = b
<1>1. t = 1 <=> s = 1
  BY WordPlaces
<1>2. t = s
  BY <1>1 DEF Tables
<1>3. a = b
  <2>1. WordAt(t, 0) - WordAt(t, a) = a /\ WordAt(s, 0) - WordAt(s, b) = b
    BY WordPlaces
  <2> QED
    BY <1>2, <2>1
<1> QED
  BY <1>2, <1>3

(* All that does not concern the tables themselves.                        *)
LEMMA LoadKept ==
  ASSUME PcInv, Write, Chain(inFlight), Ahead >= 9,
         UNCHANGED <<reg, raw, mask, executer, unit>>
  PROVE  /\ RegTypes' /\ BitTypes' /\ JobTypes' /\ LockInv' /\ ResetInv'
         /\ ProgramInv' /\ Written' /\ UnitInv' /\ MaskInv'
<1>1. Ahead \in Int
  BY WriteFacts
<1>2. RegTypes'
  BY DEF PcInv, RegTypes
<1>3. BitTypes'
  BY DEF PcInv, BitTypes, Write, irqVars, thrVars
<1>4. Written'
  <2>1. ~(Ahead <= 7) /\ ~(Ahead <= 6) /\ ~(Ahead <= 5) /\ ~(Ahead <= 3)
    BY <1>1
  <2> QED
    BY <2>1, WrittenFrom
<1>5. UnitInv'
  BY DEF PcInv, UnitInv, Number
<1>6. Ahead # 5
  BY <1>1
<1> QED
  BY <1>2, <1>3, <1>4, <1>5, <1>6, WriteKept, WriteFacts

(* The selection of table t.                                               *)
LEMMA ConfigStep ==
  ASSUME PcInv, Write, Chain(inFlight), NEW t \in Tables, Ahead = WordAt(t, -1)
  PROVE  PcInv'
<1>1. /\ Head(todo) = Due(inFlight, nextTask[inFlight], Ahead) /\ inFlight' = inFlight
      /\ Ahead \in Int /\ Ahead' = Ahead - 1 /\ todo # <<>>
  BY WriteFacts DEF Write
<1>2. Ahead > 9 /\ Ahead >= 9
  BY LutWordsNat DEF WordAt
<1>3. Head(todo) = W("LUT_ACCESS_CFG", LUT_ACCESS_CFG(t, 0))
  <2>1. Due(inFlight, nextTask[inFlight], Ahead) = TableWrite(inFlight, Ahead)
    BY <1>1, <1>2 DEF Due
  <2>2. -1 \in -1 .. LutWords - 1
    BY LutWordsNat
  <2> QED
    BY <1>1, <2>1, <2>2, TableWriteIs
<1>4. Field(t, 0, 1) = t /\ Field(0, 0, 10) = 0
  <2>1. 2^1 = 2 /\ 2^10 \in Nat \ {0}
    OBVIOUS
  <2> QED
    BY <2>1, Powers DEF Field, Tables
<1>5. /\ lutAt' = <<t, 0>>
      /\ UNCHANGED <<reg, raw, mask, executer, sram, unit, lutValid, lutCache>>
  BY <1>3, <1>4 DEF Write, Effect, W, LUT_ACCESS_CFG
<1>6. TableTypes'
  BY <1>5 DEF PcInv, TableTypes
<1>7. LoadInv'
  <2>1. LoadInv /\ Loading
    BY <1>1, <1>2 DEF PcInv, Loading
  <2>2. ASSUME NEW s \in Tables, NEW a \in 0 .. LutWords - 1, Ahead' < WordAt(s, a)
        PROVE  sram'[s][a] = LutWord(inFlight', s, a)
    <3>1. a \in -1 .. LutWords - 1 /\ -1 \in -1 .. LutWords - 1 /\ a # -1
      BY LutWordsNat
    <3>2. WordAt(s, a) # Ahead
      BY <3>1, PlacesDiffer
    <3>3. WordAt(s, a) \in Int
      BY LutWordsNat DEF WordAt
    <3>4. Ahead < WordAt(s, a)
      BY <1>1, <2>2, <3>2, <3>3
    <3> QED
      BY <1>1, <1>5, <2>1, <3>4 DEF LoadInv
  <2>3. Ahead' < WordAt(1, -1) => lutAt' = <<1, WordAt(1, 0) - Ahead'>>
    BY <1>1, <1>5, LutWordsNat DEF WordAt, Tables
  <2>4. Ahead' \in WordAt(1, -1) .. WordAt(0, 0) => lutAt' = <<0, WordAt(0, 0) - Ahead'>>
    BY <1>1, <1>5, LutWordsNat DEF WordAt, Tables
  <2> QED
    BY <2>2, <2>3, <2>4 DEF LoadInv
<1>8. CacheInv'
  <2>1. Ahead' >= 9 /\ ~(Ahead' < 9)
    BY <1>1, <1>2
  <2>2. todo' # <<>>
    BY <1>2, WriteFacts
  <2>3. Loading'
    BY <1>1, <2>1, <2>2 DEF Loading
  <2> QED
    BY <2>1, <2>3 DEF CacheInv
<1> QED
  BY <1>2, <1>5, <1>6, <1>7, <1>8, LoadKept DEF PcInv

(* Word a of table t.                                                      *)
LEMMA DataStep ==
  ASSUME PcInv, Write, Chain(inFlight), NEW t \in Tables, NEW a \in 0 .. LutWords - 1,
         Ahead = WordAt(t, a)
  PROVE  PcInv'
<1> DEFINE v == LutWord(inFlight, t, a)
<1>1. /\ Head(todo) = Due(inFlight, nextTask[inFlight], Ahead) /\ inFlight' = inFlight
      /\ inFlight \in ValidJobs
      /\ Ahead \in Int /\ Ahead' = Ahead - 1 /\ todo # <<>>
  BY WriteFacts DEF Write
<1>2. Ahead > 9 /\ Ahead >= 9
  BY LutWordsNat DEF WordAt, Tables
<1>3. Head(todo) = W("LUT_ACCESS_DATA", LUT_ACCESS_DATA(v))
  <2>1. Due(inFlight, nextTask[inFlight], Ahead) = TableWrite(inFlight, Ahead)
    BY <1>1, <1>2 DEF Due
  <2>2. a \in -1 .. LutWords - 1 /\ a # -1
    BY LutWordsNat
  <2> QED
    BY <1>1, <2>1, <2>2, TableWriteIs
<1>4. v \in 0 .. 2^16 - 1 /\ LUT_ACCESS_DATA(v).LUT_ACCESS_DATA = v
  <2>1. Job[inFlight].lut # None
    BY <1>2, WriteFacts
  <2>2. v \in 0 .. 2^16 - 1
    BY <1>1, <2>1, LutFacts
  <2> HIDE DEF v
  <2>3. v \in Int
    BY <2>2
  <2> QED
    BY <2>2, <2>3, Field16 DEF LUT_ACCESS_DATA
<1>5. LoadInv /\ Loading
  BY <1>1, <1>2 DEF PcInv, Loading
<1>6. lutAt = <<t, a>>
  <2>1. CASE t = 1
    <3>1. Ahead < WordAt(1, -1) /\ WordAt(1, 0) - Ahead = a
      BY <2>1, LutWordsNat DEF WordAt
    <3> QED
      BY <1>5, <2>1, <3>1 DEF LoadInv
  <2>2. CASE t = 0
    <3>1. Ahead \in WordAt(1, -1) .. WordAt(0, 0) /\ WordAt(0, 0) - Ahead = a
      BY <2>2, LutWordsNat DEF WordAt
    <3> QED
      BY <1>5, <2>2, <3>1 DEF LoadInv
  <2> QED
    BY <2>1, <2>2 DEF Tables
<1> HIDE DEF v
<1>7. /\ sram' = [sram EXCEPT ![t][a] = v] /\ lutAt' = <<t, a + 1>>
      /\ UNCHANGED <<reg, raw, mask, executer, unit, lutValid, lutCache>>
  BY <1>3, <1>4, <1>6 DEF Write, Effect, W
<1>8. sram \in [Tables -> [0 .. LutWords - 1 -> Words]]
  BY DEF PcInv, TableTypes
<1>9. /\ sram' \in [Tables -> [0 .. LutWords - 1 -> Words]]
      /\ \A s \in Tables : \A b \in 0 .. LutWords - 1 :
           sram'[s][b] = IF s = t /\ b = a THEN v ELSE sram[s][b]
  <2>1. v \in Words
    BY <1>4 DEF Words
  <2> HIDE DEF Words, Tables
  <2> QED
    BY <1>7, <1>8, <2>1
<1>10. TableTypes'
  <2>1. a + 1 \in 0 .. 1023
    BY LutWordsNat
  <2> QED
    BY <1>7, <1>9, <2>1 DEF TableTypes
<1>11. LoadInv'
  <2>1. ASSUME NEW s \in Tables, NEW b \in 0 .. LutWords - 1, Ahead' < WordAt(s, b)
        PROVE  sram'[s][b] = LutWord(inFlight', s, b)
    <3>1. CASE s = t /\ b = a
      BY <1>1, <1>9, <3>1 DEF v
    <3>2. CASE ~(s = t /\ b = a)
      <4>1. a \in -1 .. LutWords - 1 /\ b \in -1 .. LutWords - 1
        BY LutWordsNat
      <4>2. WordAt(s, b) # Ahead
        BY <3>2, <4>1, PlacesDiffer
      <4>3. WordAt(s, b) \in Int
        BY LutWordsNat DEF WordAt
      <4>4. Ahead < WordAt(s, b)
        BY <1>1, <2>1, <4>2, <4>3
      <4>5. sram[s][b] = LutWord(inFlight, s, b)
        BY <1>5, <4>4 DEF LoadInv
      <4> QED
        BY <1>1, <1>9, <3>2, <4>5
    <3> QED
      BY <3>1, <3>2
  <2>2. Ahead' < WordAt(1, -1) => lutAt' = <<1, WordAt(1, 0) - Ahead'>>
    <3>1. CASE t = 1
      <4>1. WordAt(1, 0) - Ahead' = a + 1
        BY <1>1, <3>1, LutWordsNat DEF WordAt
      <4> QED
        BY <1>7, <3>1, <4>1
    <3>2. CASE t = 0
      BY <1>1, <3>2, LutWordsNat DEF WordAt
    <3> QED
      BY <3>1, <3>2 DEF Tables
  <2>3. Ahead' \in WordAt(1, -1) .. WordAt(0, 0) => lutAt' = <<0, WordAt(0, 0) - Ahead'>>
    <3>1. CASE t = 0
      <4>1. WordAt(0, 0) - Ahead' = a + 1
        BY <1>1, <3>1, LutWordsNat DEF WordAt
      <4> QED
        BY <1>7, <3>1, <4>1
    <3>2. CASE t = 1
      BY <1>1, <3>2, LutWordsNat DEF WordAt
    <3> QED
      BY <3>1, <3>2 DEF Tables
  <2> QED
    BY <2>1, <2>2, <2>3 DEF LoadInv
<1>12. CacheInv'
  <2>1. Ahead' >= 9 /\ ~(Ahead' < 9)
    BY <1>1, <1>2
  <2>2. todo' # <<>>
    BY <1>2, WriteFacts
  <2>3. Loading'
    BY <1>1, <2>1, <2>2 DEF Loading
  <2> QED
    BY <2>1, <2>3 DEF CacheInv
<1> QED
  BY <1>2, <1>7, <1>10, <1>11, <1>12, LoadKept DEF PcInv

(* The tables are complete and the cache is told so.                       *)
LEMMA SettledStep ==
  ASSUME PcInv, Write, Chain(inFlight), Ahead = 9
  PROVE  PcInv'
<1>1. /\ Head(todo) = Due(inFlight, nextTask[inFlight], Ahead) /\ inFlight' = inFlight
      /\ Ahead' = 8 /\ todo # <<>> /\ Ahead >= 9
  <2>1. /\ Head(todo) = Due(inFlight, nextTask[inFlight], Ahead) /\ inFlight' = inFlight
        /\ Ahead' = Ahead - 1
    BY WriteFacts
  <2> QED
    BY <2>1 DEF Write
<1>2. Head(todo) = W("LUT_SETTLED", Job[inFlight].lut)
  BY <1>1 DEF Due
<1>3. lutValid' = TRUE /\ lutCache' = Job[inFlight].lut /\ UNCHANGED hwVars
  BY <1>2 DEF Write, W
<1>4. LoadInv /\ Loading
  BY <1>1 DEF PcInv, Loading
<1>5. \A t \in Tables : \A a \in 0 .. LutWords - 1 : sram[t][a] = LutWord(inFlight, t, a)
  <2>1. \A t \in Tables : \A a \in 0 .. LutWords - 1 : Ahead < WordAt(t, a)
    BY LutWordsNat DEF WordAt, Tables
  <2> QED
    BY <1>4, <2>1 DEF LoadInv
<1>6. sram = TableWords(Job[inFlight].lut)
  <2>1. sram \in [Tables -> [0 .. LutWords - 1 -> Words]]
    BY DEF PcInv, TableTypes
  <2>2. \A t \in Tables : sram[t] = [a \in 0 .. LutWords - 1 |-> LutWord(inFlight, t, a)]
    BY <1>5, <2>1
  <2>3. sram = [t \in Tables |-> [a \in 0 .. LutWords - 1 |-> LutWord(inFlight, t, a)]]
    BY <2>1, <2>2
  <2> QED
    BY <2>3 DEF TableWords, LutWord
<1>7. TableTypes'
  BY <1>3 DEF PcInv, TableTypes, hwVars
<1>8. LoadInv'
  BY <1>1 DEF LoadInv, Loading
<1>9. CacheInv'
  BY <1>1, <1>3, <1>6 DEF CacheInv, hwVars
<1> QED
  BY <1>1, <1>3, <1>7, <1>8, <1>9, LoadKept DEF PcInv, hwVars

(* Every write of rocket_job_hw_submit().                                  *)
LEMMA WriteStep == ASSUME PcInv, Write PROVE PcInv'
<1>1. /\ Ahead \in Int /\ Ahead >= 0
      /\ IF Chain(inFlight) THEN Ahead <= WordAt(0, -1) ELSE Ahead >= 1 /\ Ahead <= 11
  BY WriteFacts
<1>2. CASE Ahead <= 7
  <2>1. \/ Ahead = 0 \/ Ahead = 1 \/ Ahead = 2 \/ Ahead = 3 \/ Ahead = 4 \/ Ahead = 5 \/ Ahead = 6
        \/ Ahead = 7
    BY <1>1, <1>2
  <2> QED
    BY <2>1, StopStep, LaunchStep, DmaStep, TaskConStep, ClearStep, MaskStep, AmountStep, AddressStep
<1>3. CASE ~Chain(inFlight) /\ Ahead > 7
  <2>1. Ahead \in {8, 9} \/ Ahead = 10 \/ Ahead = 11
    BY <1>1, <1>3
  <2> QED
    BY <1>3, <2>1, PointerStep, SelectStep, ResetStep
<1>4. CASE Chain(inFlight) /\ Ahead > 7
  <2>1. CASE Ahead <= 9
    <3>1. Ahead = 8 \/ Ahead = 9
      BY <1>1, <1>4, <2>1
    <3> QED
      BY <1>4, <3>1, SelectStep, SettledStep
  <2>2. CASE Ahead > 9
    <3>1. PICK t \in Tables, a \in -1 .. LutWords - 1 : Ahead = WordAt(t, a)
      BY <1>1, <1>4, <2>2, PlaceOfWord
    <3>2. a = -1 \/ a \in 0 .. LutWords - 1
      BY LutWordsNat
    <3> QED
      BY <1>4, <3>1, <3>2, ConfigStep, DataStep
  <2> QED
    BY <1>1, <2>1, <2>2
<1> QED
  BY <1>1, <1>2, <1>3, <1>4

-----------------------------------------------------------------------------
(* PcInv is an invariant: what is written already is known from what is    *)
(* left to write, whoever comes between two writes.                        *)
LEMMA Inductive == PcInv /\ [Next]_vars => PcInv'
<1> SUFFICES ASSUME PcInv, [Next]_vars PROVE PcInv'
  OBVIOUS
<1>1. CASE Write
  BY <1>1, WriteStep
<1>2. CASE Run
  BY <1>2, RefuseStep, RunBeginStep, RunSubmitStep, RunReturnStep DEF Run
<1>3. CASE Irq
  BY <1>3, IrqEnterStep, IrqLookStep, IrqBankStep, IrqActStep DEF Irq
<1>4. CASE Thread
  BY <1>4, ThrCheckStep, ThrClearStep, ThrReopenStep, ThrDisableStep, ThrCompleteStep,
     ThrStopStep, ThrClearAllStep, ThrStepStep, ThrReturnStep DEF Thread
<1>5. CASE Timeout
  BY <1>5, TdrPickStep, TdrClearStep, TdrResetStep DEF Timeout
<1>6. CASE Hardware
  BY <1>6, EndsStep, UnitReportsStep DEF Hardware
<1>7. CASE UNCHANGED vars
  <2> USE <1>7 DEF vars, hwVars, runVars, irqVars, thrVars, jobVars
  <2>1. RegTypes' /\ BitTypes' /\ TableTypes' /\ JobTypes'
    BY DEF PcInv, RegTypes, BitTypes, TableTypes, JobTypes
  <2>2. LockInv' /\ ResetInv'
    BY DEF PcInv, LockInv, ResetInv
  <2>3. ProgramInv' /\ Written' /\ LoadInv' /\ CacheInv' /\ UnitInv'
    BY ProgramKept
  <2>4. MaskInv'
    BY DEF PcInv, MaskInv, Ahead, Back
  <2> QED
    BY <2>1, <2>2, <2>3, <2>4 DEF PcInv
<1> QED
  BY <1>1, <1>2, <1>3, <1>4, <1>5, <1>6, <1>7 DEF Next

(* The inductive invariant of the programming of the NPU (job.c:184-306,   *)
(* 520-760).                                                               *)
THEOREM PcInvariant == Spec => []PcInv
BY InitInv, Inductive, PTL DEF Spec

(* Type correctness; the number of tasks and the data amount stay within   *)
(* their fields, a job's tasks are never counted beyond the last one.      *)
THEOREM PcTypes == Spec => []PcTypeOK
<1>1. PcInv => PcTypeOK
  BY DEF PcInv, RegTypes, BitTypes, TableTypes, JobTypes, LockInv, PcTypeOK
<1> QED
  BY <1>1, PcInvariant, PTL

(* What the unit is started with is one task, or one whole chain, of the   *)
(* job that is current: the hard handler, the irq thread, a reset and the  *)
(* next job never get between the writes of its program (job.c:184-306).   *)
THEOREM LaunchCorrect == Spec => []LaunchIsTheJob
<1>1. PcInv => LaunchIsTheJob
  <2> SUFFICES ASSUME PcInv, unit # None PROVE LaunchIsTheJob
    BY DEF LaunchIsTheJob
  <2> DEFINE u == unit
             j == u.job
             task == Job[j].tasks[Number(u) + 1]
             count == task.regcmd_count
             commands == DIV_ROUND_UP(count, Scale)
  <2>1. /\ j \in ValidJobs /\ Number(u) \in 0 .. Job[j].task_count - 1
        /\ u.reg.BASE_ADDRESS = BASE_ADDRESS(task.regcmd)
        /\ u.reg.REGISTER_AMOUNTS = Amount(task)
        /\ u.reg.TASK_CON = TASK_CON(1, 1, Steps(j))
        /\ u.mask \subseteq MaskOf(j)
        /\ ~Chain(j) => u.reg.CNA # None /\ u.reg.CORE # None
    BY DEF PcInv, UnitInv
  <2>2. /\ j # None /\ Args[j] \in DrmRocketJob
        /\ Job[j].task_count = Args[j].task_count /\ Job[j].task_count \in Nat \ {0}
    BY <2>1, JobFacts
  <2>3. Number(u) + 1 \in 1 .. Job[j].task_count /\ Number(u) + 1 - 1 = Number(u) /\ Number(u) \in Nat
    BY <2>1, <2>2
  <2>4. task = UserTasks[TaskAddress(Args[j], Number(u))] /\ count \in Nat \ {0}
    BY <2>1, <2>3, TaskFacts
  <2>5. Args[j].task_struct_size \in Nat /\ U32 \in Nat
    BY <2>2, JobNumbers, SubmitAssumption
  <2> HIDE DEF u, j, task, count, commands
  <2>6. ASSUME Number(u) * Args[j].task_struct_size < U32
        PROVE  task = Intended(j, Number(u))
    <3>1. Number(u) * Args[j].task_struct_size \in 0 .. U32 - 1
      BY <2>3, <2>5, <2>6
    <3>2. Stride(Number(u), Args[j].task_struct_size) = Number(u) * Args[j].task_struct_size
      BY <2>5, <3>1 DEF Stride
    <3> QED
      BY <2>4, <3>2 DEF TaskAddress, Intended
  <2>7. ASSUME Fits(commands - 1, 16)
        PROVE  /\ (u.reg.REGISTER_AMOUNTS.PC_DATA_AMOUNT + 1) * Scale >= count
               /\ u.reg.REGISTER_AMOUNTS.PC_DATA_AMOUNT * Scale < count
    <3>1. u.reg.REGISTER_AMOUNTS.PC_DATA_AMOUNT = Field(commands - 1, 0, 16) /\ commands \in Nat \ {0}
      BY <2>1, <2>4, AmountFits DEF count, commands
    <3>2. commands - 1 \in Int /\ commands - 1 \in 0 .. 2^16 - 1
      BY <2>7, <3>1 DEF Fits
    <3>3. u.reg.REGISTER_AMOUNTS.PC_DATA_AMOUNT = commands - 1
      BY <3>1, <3>2, Field16
    <3>4. commands * Scale >= count /\ (commands - 1) * Scale < count
      <4>1. CASE Scale = 1
        BY <2>4, <4>1 DEF commands, DIV_ROUND_UP
      <4>2. CASE Scale = 2
        BY <2>4, <4>2 DEF commands, DIV_ROUND_UP
      <4> QED
        BY <4>1, <4>2, PcAssumption DEF Scales
    <3> QED
      BY <3>1, <3>3, <3>4
  <2>8. ASSUME Fits(Steps(j), 12)
        PROVE  u.reg.TASK_CON.TASK_NUMBER = Steps(j)
    <3>1. Steps(j) \in Int
      BY <2>2 DEF Steps
    <3> QED
      BY <2>1, <2>8, <3>1, NumberFits DEF Fits
  <2>9. Chain(j) => OpenMask \/ u.mask \subseteq Job[j].last_int_mask
    BY <2>1 DEF MaskOf, Reopened
  <2> QED
    BY <2>1, <2>2, <2>6, <2>7, <2>8, <2>9 DEF LaunchIsTheJob, u, j, task, count, commands
<1> QED
  BY <1>1, PcInvariant, PTL

(* A chain starts with its own lookup tables, though they are loaded only  *)
(* when the cache says so and every reset wipes them (job.c:204-221).      *)
THEOREM TablesCorrect == Spec => []TablesLoaded
<1>1. PcInv => TablesLoaded
  <2> SUFFICES ASSUME PcInv, unit # None, Chain(unit.job), Args[unit.job].lut_count # 0
               PROVE  unit.sram = TableWords(Args[unit.job].lut_data)
    BY DEF TablesLoaded
  <2>1. unit.job \in ValidJobs /\ (Job[unit.job].lut # None => unit.sram = TableWords(Job[unit.job].lut))
    BY DEF PcInv, UnitInv
  <2> QED
    BY <2>1, LutFacts
<1> QED
  BY <1>1, PcInvariant, PTL

(* A chain is never left with the interrupts of its last task closed and   *)
(* no irq thread to open them (job.c:532-537, 739).                        *)
THEOREM MaskNeverLost == Spec => []MaskReopened
<1>1. PcInv => MaskReopened
  <2> SUFFICES ASSUME PcInv, inFlight # None, Chain(inFlight), todo = <<>>, ~pending,
                      Job[inFlight].last_int_mask \cap mask = {}
               PROVE  thrWake \/ thrPc # "idle"
    BY DEF MaskReopened
  <2> QED
    BY DEF PcInv, MaskInv
<1> QED
  BY <1>1, PcInvariant, PTL
=============================================================================
