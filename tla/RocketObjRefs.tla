---------------------------- MODULE RocketObjRefs ----------------------------
(***************************************************************************)
(* Proofs about RocketObjects, for every set of files, BOs, jobs and       *)
(* cores, whatever lists the jobs name and whatever fails: every reference *)
(* to a domain or a BO is given back exactly once, so that what a job uses *)
(* is there as long as it runs.                                            *)
(***************************************************************************)
EXTENDS RocketObjOrder, FiniteSetTheorems

USE ObjectAssumption DEF boVars, jobVars, coreVars

CountsOK == domRef \in [Files -> Nat] /\ boRef \in [BOs -> Nat]

RefsInv == OrderInv /\ BosOK /\ CountsOK /\ DomainRefsMatch /\ BoRefsMatch

-----------------------------------------------------------------------------
(* What is counted is finite.                                               *)
AllCounted ==
  /\ \A f \in Files : /\ \A s : Cardinality(BosOf(f, s)) \in Nat /\ IsFiniteSet(BosOf(f, s))
                      /\ Cardinality(HoldersOf(f)) \in Nat /\ IsFiniteSet(HoldersOf(f))
                      /\ Cardinality(CoresOn(f)) \in Nat /\ IsFiniteSet(CoresOn(f))
  /\ \A b \in BOs : \A list \in {InBos, OutBos} :
       Cardinality(HoldBo(b, list)) \in Nat /\ IsFiniteSet(HoldBo(b, list))

LEMMA AreCounted == AllCounted
<1>1. ASSUME NEW f \in Files, NEW s
      PROVE  Cardinality(BosOf(f, s)) \in Nat /\ IsFiniteSet(BosOf(f, s))
  <2>1. BosOf(f, s) \in SUBSET BOs
    BY DEF BosOf
  <2>2. IsFiniteSet(BosOf(f, s))
    BY <2>1, FS_Subset
  <2> QED BY <2>2, FS_CardinalityType
<1>2. ASSUME NEW f \in Files
      PROVE  Cardinality(HoldersOf(f)) \in Nat /\ IsFiniteSet(HoldersOf(f))
  <2>1. HoldersOf(f) \in SUBSET Jobs
    BY DEF HoldersOf
  <2>2. IsFiniteSet(HoldersOf(f))
    BY <2>1, FS_Subset
  <2> QED BY <2>2, FS_CardinalityType
<1>3. ASSUME NEW f \in Files
      PROVE  Cardinality(CoresOn(f)) \in Nat /\ IsFiniteSet(CoresOn(f))
  <2>1. CoresOn(f) \in SUBSET Cores
    BY DEF CoresOn
  <2>2. IsFiniteSet(CoresOn(f))
    BY <2>1, FS_Subset
  <2> QED BY <2>2, FS_CardinalityType
<1>4. ASSUME NEW b \in BOs, NEW list \in {InBos, OutBos}
      PROVE  Cardinality(HoldBo(b, list)) \in Nat /\ IsFiniteSet(HoldBo(b, list))
  <2>1. HoldBo(b, list) \in SUBSET Jobs
    BY DEF HoldBo
  <2>2. IsFiniteSet(HoldBo(b, list))
    BY <2>1, FS_Subset
  <2> QED BY <2>2, FS_CardinalityType
<1> QED BY <1>1, <1>2, <1>3, <1>4 DEF AllCounted

LEMMA AreCountedNext == AllCounted'
BY AreCounted, PTL

(* The same jobs hold their objects.                                        *)
SameHolders == \A k \in Jobs : HoldsObjects(k)' <=> HoldsObjects(k)

LEMMA HoldSame ==
  ASSUME SameHolders
  PROVE  /\ \A f \in Files : Cardinality(HoldersOf(f))' = Cardinality(HoldersOf(f))
         /\ \A b \in BOs : \A list \in {InBos, OutBos} :
              Cardinality(HoldBo(b, list))' = Cardinality(HoldBo(b, list))
<1>1. \A f \in Files : HoldersOf(f)' = HoldersOf(f)
  BY DEF SameHolders, HoldersOf
<1>2. \A b \in BOs : \A list \in {InBos, OutBos} : HoldBo(b, list)' = HoldBo(b, list)
  BY DEF SameHolders, HoldBo
<1> QED BY <1>1, <1>2

(* One job more, or one less, holds its objects.                            *)
LEMMA HoldEnter ==
  ASSUME NEW j \in Jobs, ~HoldsObjects(j), HoldsObjects(j)',
         \A k \in Jobs \ {j} : HoldsObjects(k)' <=> HoldsObjects(k)
  PROVE  /\ \A f \in Files :
              Cardinality(HoldersOf(f))' = Cardinality(HoldersOf(f)) + One(FileOf[j] = f)
         /\ \A b \in BOs : \A list \in {InBos, OutBos} :
              Cardinality(HoldBo(b, list))' = Cardinality(HoldBo(b, list)) + One(b \in list[j])
<1>1. ASSUME NEW f \in Files
      PROVE  Cardinality(HoldersOf(f))' = Cardinality(HoldersOf(f)) + One(FileOf[j] = f)
  <2>1. HoldersOf(f)' = IF FileOf[j] = f THEN HoldersOf(f) \cup {j} ELSE HoldersOf(f)
    BY DEF HoldersOf
  <2>2. j \notin HoldersOf(f) /\ IsFiniteSet(HoldersOf(f)) /\ Cardinality(HoldersOf(f)) \in Nat
    BY AreCounted DEF AllCounted, HoldersOf
  <2>3. Cardinality(HoldersOf(f) \cup {j}) = Cardinality(HoldersOf(f)) + 1
    BY <2>2, FS_AddElement
  <2> QED BY <2>1, <2>2, <2>3 DEF One
<1>2. ASSUME NEW b \in BOs, NEW list \in {InBos, OutBos}
      PROVE  Cardinality(HoldBo(b, list))' = Cardinality(HoldBo(b, list)) + One(b \in list[j])
  <2>1. HoldBo(b, list)' = IF b \in list[j] THEN HoldBo(b, list) \cup {j} ELSE HoldBo(b, list)
    BY DEF HoldBo
  <2>2. j \notin HoldBo(b, list) /\ IsFiniteSet(HoldBo(b, list))
        /\ Cardinality(HoldBo(b, list)) \in Nat
    BY AreCounted DEF AllCounted, HoldBo
  <2>3. Cardinality(HoldBo(b, list) \cup {j}) = Cardinality(HoldBo(b, list)) + 1
    BY <2>2, FS_AddElement
  <2> QED BY <2>1, <2>2, <2>3 DEF One
<1> QED BY <1>1, <1>2

LEMMA HoldLeave ==
  ASSUME NEW j \in Jobs, HoldsObjects(j), ~HoldsObjects(j)',
         \A k \in Jobs \ {j} : HoldsObjects(k)' <=> HoldsObjects(k)
  PROVE  /\ \A f \in Files :
              Cardinality(HoldersOf(f))' = Cardinality(HoldersOf(f)) - One(FileOf[j] = f)
         /\ \A b \in BOs : \A list \in {InBos, OutBos} :
              /\ Cardinality(HoldBo(b, list))' = Cardinality(HoldBo(b, list)) - One(b \in list[j])
              /\ Cardinality(HoldBo(b, list)) >= One(b \in list[j])
<1>1. ASSUME NEW f \in Files
      PROVE  Cardinality(HoldersOf(f))' = Cardinality(HoldersOf(f)) - One(FileOf[j] = f)
  <2>1. HoldersOf(f)' = IF FileOf[j] = f THEN HoldersOf(f) \ {j} ELSE HoldersOf(f)
    BY DEF HoldersOf
  <2>2. FileOf[j] = f => j \in HoldersOf(f)
    BY DEF HoldersOf
  <2>3. Cardinality(HoldersOf(f) \ {j}) =
          IF j \in HoldersOf(f) THEN Cardinality(HoldersOf(f)) - 1 ELSE Cardinality(HoldersOf(f))
    BY AreCounted, FS_RemoveElement DEF AllCounted
  <2> QED BY <2>1, <2>2, <2>3, AreCounted DEF One, AllCounted
<1>2. ASSUME NEW b \in BOs, NEW list \in {InBos, OutBos}
      PROVE  /\ Cardinality(HoldBo(b, list))' = Cardinality(HoldBo(b, list)) - One(b \in list[j])
             /\ Cardinality(HoldBo(b, list)) >= One(b \in list[j])
  <2>1. HoldBo(b, list)' = IF b \in list[j] THEN HoldBo(b, list) \ {j} ELSE HoldBo(b, list)
    BY DEF HoldBo
  <2>2. b \in list[j] => j \in HoldBo(b, list)
    BY DEF HoldBo
  <2>3. /\ IsFiniteSet(HoldBo(b, list)) /\ IsFiniteSet(HoldBo(b, list) \ {j})
        /\ Cardinality(HoldBo(b, list)) \in Nat /\ Cardinality(HoldBo(b, list) \ {j}) \in Nat
    BY AreCounted, FS_RemoveElement, FS_CardinalityType DEF AllCounted
  <2>4. Cardinality(HoldBo(b, list) \ {j}) =
          IF j \in HoldBo(b, list) THEN Cardinality(HoldBo(b, list)) - 1
                                   ELSE Cardinality(HoldBo(b, list))
    BY <2>3, FS_RemoveElement
  <2> QED BY <2>1, <2>2, <2>3, <2>4 DEF One
<1> QED BY <1>1, <1>2

-----------------------------------------------------------------------------
(* A domain loses, with the references dropped, that of each BO that dies.  *)
LEMMA ReleaseStep ==
  ASSUME CountsOK, \A b \in BOs : bo[b] = "live" <=> boRef[b] > 0, DOMAIN bo = BOs,
         NEW f \in Files, NEW d \in Nat, NEW drops \in [BOs -> Nat],
         \A b \in BOs : drops[b] <= boRef[b] /\ (drops[b] > 0 => FileOf[b] = f),
         Release(f, d, drops)
  PROVE  /\ boRef' \in [BOs -> Nat]
         /\ \A b \in BOs : /\ boRef'[b] = boRef[b] - drops[b]
                           /\ bo'[b] = "live" <=> boRef'[b] > 0
                           /\ bo'[b] = "none" <=> bo[b] = "none"
         /\ domRef' \in [Files -> Int]
         /\ \A g \in Files :
              /\ Cardinality(BosOf(g, "failed"))' = Cardinality(BosOf(g, "failed"))
              /\ domRef'[g] - Cardinality(BosOf(g, "live"))'
                   = domRef[g] - Cardinality(BosOf(g, "live")) - IF g = f THEN d ELSE 0
<1> USE DEF CountsOK
<1> DEFINE D == DyingBos(drops)
<1>1. /\ boRef' = [b \in BOs |-> boRef[b] - drops[b]]
      /\ bo' = [b \in BOs |-> IF b \in D THEN "freed" ELSE bo[b]]
      /\ domRef' = [domRef EXCEPT ![f] = @ - d - Cardinality(D)]
  BY DEF Release, FreedBosDomainRefs
<1>2. D = {b \in BOs : drops[b] > 0 /\ boRef[b] = drops[b]}
  BY DEF DyingBos
<1>3. \A b \in D : b \in BOs /\ bo[b] = "live" /\ FileOf[b] = f
  BY <1>2
<1>4. D \subseteq BosOf(f, "live")
  BY <1>3 DEF BosOf
<1> HIDE DEF D
<1>5. \A g \in Files : BosOf(g, "failed")' = BosOf(g, "failed")
  BY <1>1, <1>3 DEF BosOf
<1>6. \A g \in Files :
        BosOf(g, "live")' = IF g = f THEN BosOf(f, "live") \ D ELSE BosOf(g, "live")
  BY <1>1, <1>3 DEF BosOf
<1>7. IsFiniteSet(D) /\ Cardinality(D) \in Nat
  BY <1>4, AreCounted, FS_Subset, FS_CardinalityType DEF AllCounted
<1>8. Cardinality(BosOf(f, "live") \ D) = Cardinality(BosOf(f, "live")) - Cardinality(D)
  <2>1. BosOf(f, "live") \cap D = D
    BY <1>4
  <2> QED BY <2>1, AreCounted, FS_Difference DEF AllCounted
<1>9. \A b \in BOs : /\ boRef'[b] = boRef[b] - drops[b] /\ boRef'[b] \in Nat
                     /\ bo'[b] = "live" <=> boRef'[b] > 0
                     /\ bo'[b] = "none" <=> bo[b] = "none"
  <2> TAKE b \in BOs
  <2>1. drops[b] \in Nat /\ boRef[b] \in Nat /\ drops[b] <= boRef[b] /\ boRef'[b] = boRef[b] - drops[b]
    BY <1>1
  <2>2. CASE b \in D
    BY <1>1, <1>2, <1>3, <2>1, <2>2
  <2>3. CASE b \notin D
    <3>1. bo'[b] = bo[b] /\ (drops[b] = 0 \/ boRef[b] # drops[b])
      BY <1>1, <1>2, <2>1, <2>3
    <3>2. boRef[b] - drops[b] > 0 <=> boRef[b] > 0
      BY <2>1, <3>1
    <3> QED BY <2>1, <3>1, <3>2
  <2> QED BY <2>2, <2>3
<1>10. boRef' \in [BOs -> Nat] /\ domRef' \in [Files -> Int]
  BY <1>1, <1>7, <1>9
<1>11. ASSUME NEW g \in Files
       PROVE  domRef'[g] - Cardinality(BosOf(g, "live"))'
                = domRef[g] - Cardinality(BosOf(g, "live")) - IF g = f THEN d ELSE 0
  <2>1. Cardinality(BosOf(g, "live")) \in Nat
    BY AreCounted DEF AllCounted
  <2>2. CASE g = f
    <3>1. domRef'[g] = domRef[g] - d - Cardinality(D) /\ domRef[g] \in Nat
      BY <1>1, <2>2
    <3>2. Cardinality(BosOf(g, "live"))' = Cardinality(BosOf(g, "live")) - Cardinality(D)
      BY <1>6, <1>8, <2>2
    <3> QED BY <1>7, <2>1, <2>2, <3>1, <3>2
  <2>3. CASE g # f
    BY <1>1, <1>6, <2>1, <2>3
  <2> QED BY <2>2, <2>3
<1> QED BY <1>5, <1>9, <1>10, <1>11

-----------------------------------------------------------------------------
(* The part of the invariant that a step must restore.                      *)
Restored == BosOK' /\ CountsOK' /\ DomainRefsMatch' /\ BoRefsMatch'

LEMMA Restore ==
  ASSUME BosOK', boRef' \in [BOs -> Nat], domRef' \in [Files -> Int], DomainRefsMatch', BoRefsMatch'
  PROVE  Restored
<1>1. \A f \in Files : domRef'[f] \in Nat
  <2> TAKE f \in Files
  <2>1. domRef'[f] = (DomainUsers(f) + Cardinality(BosOf(f, "failed")))'
    BY DEF DomainRefsMatch
  <2> QED BY <2>1, AreCountedNext DEF DomainUsers, One, AllCounted
<1> QED BY <1>1 DEF Restored, CountsOK

(* Nothing is held or given back.                                           *)
LEMMA NoRefs ==
  ASSUME RefsInv, SameHolders, UNCHANGED <<domRef, bo, boRef, handle, attached>>,
         \A f \in Files : /\ file[f] \in {"open", "closing"} <=> file'[f] \in {"open", "closing"}
                          /\ file[f] # "none" => file'[f] # "none"
  PROVE  Restored
<1> USE DEF RefsInv
<1>1. BosOK'
  <2>1. \A b \in BOs : FileOf[b] \in Files
    OBVIOUS
  <2> QED BY <2>1 DEF BosOK
<1>2. DomainRefsMatch'
  <2>1. \A f \in Files : /\ \A s : BosOf(f, s)' = BosOf(f, s)
                         /\ CoresOn(f)' = CoresOn(f)
    BY DEF BosOf, CoresOn
  <2>2. \A f \in Files :
          One(file[f] \in {"open", "closing"})' = One(file[f] \in {"open", "closing"})
    BY DEF One
  <2> QED BY <2>1, <2>2, HoldSame DEF DomainRefsMatch, DomainUsers
<1>3. BoRefsMatch'
  BY HoldSame DEF BoRefsMatch, BoUsers
<1>4. domRef' \in [Files -> Int] /\ boRef' \in [BOs -> Nat]
  BY DEF CountsOK
<1> QED BY <1>1, <1>2, <1>3, <1>4, Restore

LEMMA OpenStep ==
  ASSUME RefsInv, NEW f \in Files, Open(f)
  PROVE  Restored
<1> USE DEF RefsInv
<1>1. /\ file[f] = "none" /\ file' = [file EXCEPT ![f] = "open"]
      /\ domRef' = [domRef EXCEPT ![f] = 1]
      /\ UNCHANGED <<bo, boRef, handle, attached, job, ioctl>>
  BY DEF Open
<1>2. file \in [Files -> {"none", "open", "closing", "closed"}]
  BY DEF OrderInv, ShapeOK, FileShape
<1>3. SameHolders
  BY <1>1 DEF SameHolders, HoldsObjects
<1>4. \A g \in Files : /\ \A s : BosOf(g, s)' = BosOf(g, s)
                       /\ CoresOn(g)' = CoresOn(g)
  BY <1>1 DEF BosOf, CoresOn
<1>5. BosOf(f, "live") = {} /\ BosOf(f, "failed") = {} /\ HoldersOf(f) = {} /\ CoresOn(f) = {}
  BY <1>1 DEF BosOf, HoldersOf, CoresOn, BosOK, OrderInv, FilesOK, HoldsObjects
<1>6. DomainRefsMatch'
  <2>1. ASSUME NEW g \in Files
        PROVE  domRef'[g] = (DomainUsers(g) + Cardinality(BosOf(g, "failed")))'
    <3>1. CASE g = f
      <4>1. Cardinality(HoldersOf(g))' = 0
        BY <1>3, <1>5, <3>1, HoldSame, FS_EmptySet
      <4>2. /\ Cardinality(BosOf(g, "live"))' = 0 /\ Cardinality(BosOf(g, "failed"))' = 0
            /\ Cardinality(CoresOn(g))' = 0
        BY <1>4, <1>5, <3>1, FS_EmptySet
      <4>3. domRef'[g] = 1 /\ file'[g] = "open"
        BY <1>1, <1>2, <3>1 DEF CountsOK
      <4> QED BY <4>1, <4>2, <4>3 DEF DomainUsers, One
    <3>2. CASE g # f
      BY <1>1, <1>2, <1>3, <1>4, <2>1, <3>2, HoldSame DEF DomainUsers, One, CountsOK, DomainRefsMatch
    <3> QED BY <3>1, <3>2
  <2> QED BY <2>1 DEF DomainRefsMatch
<1>7. BoRefsMatch'
  BY <1>1, <1>3, HoldSame DEF BoRefsMatch, BoUsers
<1>8. BosOK'
  BY <1>1, <1>2 DEF BosOK
<1>9. domRef' \in [Files -> Int] /\ boRef' \in [BOs -> Nat]
  BY <1>1 DEF CountsOK
<1> QED BY <1>6, <1>7, <1>8, <1>9, Restore

LEMMA PostcloseStep ==
  ASSUME RefsInv, NEW f \in Files, Postclose(f)
  PROVE  Restored
<1> USE DEF RefsInv
<1>1. /\ file[f] = "closing" /\ file' = [file EXCEPT ![f] = "closed"]
      /\ domRef' = [domRef EXCEPT ![f] = @ - 1]
      /\ UNCHANGED <<bo, boRef, handle, attached, ioctl>>
  BY DEF Postclose
<1>2. file \in [Files -> {"none", "open", "closing", "closed"}]
  BY DEF OrderInv, ShapeOK, FileShape
<1>3. SameHolders
  BY DEF Postclose, SameHolders, HoldsObjects
<1>4. \A g \in Files : /\ \A s : BosOf(g, s)' = BosOf(g, s)
                       /\ CoresOn(g)' = CoresOn(g)
  BY <1>1 DEF BosOf, CoresOn
<1>5. DomainRefsMatch'
  <2>1. ASSUME NEW g \in Files
        PROVE  domRef'[g] = (DomainUsers(g) + Cardinality(BosOf(g, "failed")))'
    <3>1. CASE g = f
      BY <1>1, <1>2, <1>3, <1>4, <3>1, HoldSame, AreCounted
        DEF DomainUsers, One, CountsOK, DomainRefsMatch, AllCounted
    <3>2. CASE g # f
      BY <1>1, <1>2, <1>3, <1>4, <2>1, <3>2, HoldSame DEF DomainUsers, One, CountsOK, DomainRefsMatch
    <3> QED BY <3>1, <3>2
  <2> QED BY <2>1 DEF DomainRefsMatch
<1>6. BoRefsMatch'
  BY <1>1, <1>3, HoldSame DEF BoRefsMatch, BoUsers
<1>7. BosOK'
  BY <1>1, <1>2 DEF BosOK
<1>8. domRef' \in [Files -> Int] /\ boRef' \in [BOs -> Nat]
  BY <1>1 DEF CountsOK
<1> QED BY <1>5, <1>6, <1>7, <1>8, Restore

(* A BO takes a reference of its domain, and keeps it when its creation     *)
(* fails late.                                                              *)
LEMMA CreateBoStep ==
  ASSUME RefsInv, NEW b \in BOs, CreateBo(b)
  PROVE  Restored
<1> USE DEF RefsInv
<1> DEFINE f == FileOf[b]
<1>1. /\ f \in Files /\ file[f] = "open" /\ bo[b] = "none"
      /\ domRef' = [domRef EXCEPT ![f] = @ + 1]
      /\ UNCHANGED <<file, job, ioctl, attached>>
  BY DEF CreateBo
<1>2. PICK s \in {"live", "failed"} :
        /\ bo' = [bo EXCEPT ![b] = s]
        /\ IF s = "live" THEN boRef' = [boRef EXCEPT ![b] = 1] /\ handle' = handle \cup {b}
                         ELSE UNCHANGED <<boRef, handle>>
  BY DEF CreateBo
<1>3. bo \in [BOs -> {"none", "live", "failed", "freed"}] /\ boRef \in [BOs -> Nat]
  BY DEF OrderInv, ShapeOK, FileShape, CountsOK
<1>4. SameHolders /\ \A g \in Files : CoresOn(g)' = CoresOn(g)
  BY <1>1 DEF SameHolders, HoldsObjects, CoresOn
<1>5. /\ \A g \in Files \ {f} : \A t : BosOf(g, t)' = BosOf(g, t)
      /\ \A t \in {"live", "failed"} \ {s} : BosOf(f, t)' = BosOf(f, t)
      /\ BosOf(f, s)' = BosOf(f, s) \cup {b} /\ b \notin BosOf(f, s)
  BY <1>1, <1>2, <1>3 DEF BosOf
<1>6. Cardinality(BosOf(f, s))' = Cardinality(BosOf(f, s)) + 1
  <2>1. IsFiniteSet(BosOf(f, s))
    BY <1>1, AreCounted DEF AllCounted
  <2>2. Cardinality(BosOf(f, s) \cup {b}) = Cardinality(BosOf(f, s)) + 1
    BY <1>5, <2>1, FS_AddElement
  <2> QED BY <1>5, <2>2
<1>7. DomainRefsMatch'
  <2> SUFFICES ASSUME NEW g \in Files
               PROVE  domRef'[g] = (DomainUsers(g) + Cardinality(BosOf(g, "failed")))'
    BY DEF DomainRefsMatch
  <2>1. /\ One(file[g] \in {"open", "closing"})' = One(file[g] \in {"open", "closing"})
        /\ Cardinality(HoldersOf(g))' = Cardinality(HoldersOf(g))
        /\ Cardinality(CoresOn(g))' = Cardinality(CoresOn(g))
    BY <1>1, <1>4, HoldSame
  <2>2. domRef'[g] = domRef[g] + (IF g = f THEN 1 ELSE 0)
    BY <1>1 DEF CountsOK
  <2>3. Cardinality(BosOf(g, "live"))' + Cardinality(BosOf(g, "failed"))'
          = Cardinality(BosOf(g, "live")) + Cardinality(BosOf(g, "failed"))
              + (IF g = f THEN 1 ELSE 0)
    <3>1. Cardinality(BosOf(g, "live")) \in Nat /\ Cardinality(BosOf(g, "failed")) \in Nat
      BY AreCounted DEF AllCounted
    <3>2. CASE g # f
      <4>1. BosOf(g, "live")' = BosOf(g, "live") /\ BosOf(g, "failed")' = BosOf(g, "failed")
        BY <1>5, <3>2
      <4> QED BY <3>1, <3>2, <4>1
    <3>3. CASE g = f /\ s = "live"
      <4>1. BosOf(g, "failed")' = BosOf(g, "failed")
        BY <1>5, <3>3
      <4> QED BY <1>6, <3>1, <3>3, <4>1
    <3>4. CASE g = f /\ s = "failed"
      <4>1. BosOf(g, "live")' = BosOf(g, "live")
        BY <1>5, <3>4
      <4> QED BY <1>6, <3>1, <3>4, <4>1
    <3> QED BY <3>2, <3>3, <3>4
  <2>4. domRef[g] = DomainUsers(g) + Cardinality(BosOf(g, "failed"))
    BY DEF DomainRefsMatch
  <2> QED BY <2>1, <2>2, <2>3, <2>4, AreCounted, AreCountedNext DEF DomainUsers, One, AllCounted
<1>8. BoRefsMatch'
  <2> SUFFICES ASSUME NEW x \in BOs
               PROVE  /\ boRef'[x] >= BoUsers(x)'
                      /\ "early" \notin Faults => boRef'[x] = BoUsers(x)'
                      /\ bo'[x] = "live" <=> boRef'[x] > 0
    BY DEF BoRefsMatch
  <2>1. /\ Cardinality(HoldBo(x, InBos))' = Cardinality(HoldBo(x, InBos))
        /\ Cardinality(HoldBo(x, OutBos))' = Cardinality(HoldBo(x, OutBos))
        /\ Cardinality(HoldBo(x, InBos)) \in Nat /\ Cardinality(HoldBo(x, OutBos)) \in Nat
    BY <1>4, HoldSame, AreCounted DEF AllCounted
  <2>2. /\ boRef[x] >= BoUsers(x)
        /\ "early" \notin Faults => boRef[x] = BoUsers(x)
        /\ bo[x] = "live" <=> boRef[x] > 0
    BY DEF BoRefsMatch
  <2>3. CASE x = b /\ s = "live"
    <3>1. boRef[x] = 0
      BY <1>1, <1>3, <2>2, <2>3
    <3>2. boRef'[x] = 1 /\ x \in handle' /\ bo'[x] = "live"
      BY <1>2, <1>3, <2>3
    <3>3. Cardinality(HoldBo(x, InBos)) = 0 /\ Cardinality(HoldBo(x, OutBos)) = 0
      BY <2>1, <2>2, <3>1 DEF BoUsers, One
    <3> QED BY <2>1, <3>2, <3>3 DEF BoUsers, One
  <2>4. CASE x # b \/ s # "live"
    <3>1. boRef'[x] = boRef[x] /\ (x \in handle' <=> x \in handle)
          /\ (bo'[x] = "live" <=> bo[x] = "live")
      BY <1>1, <1>2, <1>3, <2>4
    <3> QED BY <2>1, <2>2, <3>1 DEF BoUsers
  <2> QED BY <2>3, <2>4
<1>9. BosOK'
  BY <1>1, <1>2, <1>3 DEF BosOK
<1>10. domRef' \in [Files -> Int] /\ boRef' \in [BOs -> Nat]
  BY <1>1, <1>2, <1>3 DEF CountsOK
<1> QED BY <1>7, <1>8, <1>9, <1>10, Restore

(* Handles of a file are closed, one or all of them.                        *)
LEMMA CloseStep ==
  ASSUME RefsInv, NEW f \in Files, NEW closed \in SUBSET handle,
         \A b \in closed : FileOf[b] = f,
         handle' = handle \ closed,
         Release(f, 0, [b \in BOs |-> IF b \in closed THEN 1 ELSE 0]),
         UNCHANGED <<job, ioctl, attached>>,
         \A g \in Files : /\ file[g] \in {"open", "closing"} <=> file'[g] \in {"open", "closing"}
                          /\ file[g] # "none" => file'[g] # "none"
  PROVE  Restored
<1> USE DEF RefsInv
<1> DEFINE drops == [b \in BOs |-> IF b \in closed THEN 1 ELSE 0]
<1>1. \A b \in BOs : bo[b] = "live" <=> boRef[b] > 0
  BY DEF BoRefsMatch
<1>2. DOMAIN bo = BOs /\ CountsOK
  BY DEF OrderInv, ShapeOK, FileShape
<1>3. /\ drops \in [BOs -> Nat]
      /\ \A b \in BOs : drops[b] <= boRef[b] /\ (drops[b] > 0 => FileOf[b] = f)
  <2>1. ASSUME NEW b \in closed, b \in BOs PROVE boRef[b] >= 1
    <3>1. boRef[b] >= BoUsers(b) /\ boRef[b] \in Nat
      BY <2>1 DEF BoRefsMatch, CountsOK
    <3> QED BY <2>1, <3>1, AreCounted DEF BoUsers, One, AllCounted
  <2> QED BY <2>1 DEF CountsOK
<1>4. SameHolders /\ \A g \in Files : CoresOn(g)' = CoresOn(g)
  BY DEF SameHolders, HoldsObjects, CoresOn
<1> HIDE DEF drops
<1>5. /\ boRef' \in [BOs -> Nat] /\ domRef' \in [Files -> Int]
      /\ \A b \in BOs : /\ boRef'[b] = boRef[b] - drops[b]
                        /\ bo'[b] = "live" <=> boRef'[b] > 0
                        /\ bo'[b] = "none" <=> bo[b] = "none"
      /\ \A g \in Files :
           /\ Cardinality(BosOf(g, "failed"))' = Cardinality(BosOf(g, "failed"))
           /\ domRef'[g] - Cardinality(BosOf(g, "live"))'
                = domRef[g] - Cardinality(BosOf(g, "live"))
  <2>1. Release(f, 0, drops)
    BY DEF drops
  <2>2. /\ boRef' \in [BOs -> Nat]
        /\ \A b \in BOs : /\ boRef'[b] = boRef[b] - drops[b]
                          /\ bo'[b] = "live" <=> boRef'[b] > 0
                          /\ bo'[b] = "none" <=> bo[b] = "none"
        /\ domRef' \in [Files -> Int]
        /\ \A g \in Files :
             /\ Cardinality(BosOf(g, "failed"))' = Cardinality(BosOf(g, "failed"))
             /\ domRef'[g] - Cardinality(BosOf(g, "live"))'
                  = domRef[g] - Cardinality(BosOf(g, "live")) - IF g = f THEN 0 ELSE 0
    BY <1>1, <1>2, <1>3, <2>1, ReleaseStep
  <2>3. ASSUME NEW g \in Files
        PROVE  domRef'[g] - Cardinality(BosOf(g, "live"))'
                 = domRef[g] - Cardinality(BosOf(g, "live"))
    <3>1. domRef[g] \in Nat /\ Cardinality(BosOf(g, "live")) \in Nat
      BY <1>2, AreCounted DEF CountsOK, AllCounted
    <3> QED BY <2>2, <3>1
  <2> QED BY <2>2, <2>3
<1>6. DomainRefsMatch'
  <2> SUFFICES ASSUME NEW g \in Files
               PROVE  domRef'[g] = (DomainUsers(g) + Cardinality(BosOf(g, "failed")))'
    BY DEF DomainRefsMatch
  <2>1. /\ One(file[g] \in {"open", "closing"})' = One(file[g] \in {"open", "closing"})
        /\ Cardinality(HoldersOf(g))' = Cardinality(HoldersOf(g))
        /\ Cardinality(CoresOn(g))' = Cardinality(CoresOn(g))
    BY <1>4, HoldSame DEF One
  <2>2. domRef[g] = DomainUsers(g) + Cardinality(BosOf(g, "failed"))
    BY DEF DomainRefsMatch
  <2>3. domRef'[g] \in Int /\ domRef[g] \in Nat
    BY <1>2, <1>5 DEF CountsOK
  <2> QED BY <1>5, <2>1, <2>2, <2>3, AreCounted, AreCountedNext DEF DomainUsers, One, AllCounted
<1>7. BoRefsMatch'
  <2> SUFFICES ASSUME NEW x \in BOs
               PROVE  /\ boRef'[x] >= BoUsers(x)'
                      /\ "early" \notin Faults => boRef'[x] = BoUsers(x)'
                      /\ bo'[x] = "live" <=> boRef'[x] > 0
    BY DEF BoRefsMatch
  <2>1. /\ Cardinality(HoldBo(x, InBos))' = Cardinality(HoldBo(x, InBos))
        /\ Cardinality(HoldBo(x, OutBos))' = Cardinality(HoldBo(x, OutBos))
        /\ Cardinality(HoldBo(x, InBos)) \in Nat /\ Cardinality(HoldBo(x, OutBos)) \in Nat
    BY <1>4, HoldSame, AreCounted DEF AllCounted
  <2>2. /\ boRef[x] >= BoUsers(x) /\ boRef[x] \in Nat
        /\ "early" \notin Faults => boRef[x] = BoUsers(x)
    BY DEF BoRefsMatch, CountsOK
  <2>3. One(x \in handle)' = One(x \in handle) - drops[x]
    BY DEF One, drops
  <2>4. drops[x] \in Nat /\ boRef'[x] = boRef[x] - drops[x]
        /\ (bo'[x] = "live" <=> boRef'[x] > 0)
    BY <1>3, <1>5
  <2>5. BoUsers(x)' = BoUsers(x) - drops[x] /\ BoUsers(x) \in Nat
    BY <2>1, <2>3, <2>4 DEF BoUsers, One
  <2> QED BY <2>2, <2>4, <2>5
<1>8. BosOK'
  <2>1. \A b \in BOs : FileOf[b] \in Files
    OBVIOUS
  <2> QED BY <1>5, <2>1 DEF BosOK
<1> QED BY <1>5, <1>6, <1>7, <1>8, Restore

-----------------------------------------------------------------------------
(* The lookups take a reference for each time the job names a BO; those     *)
(* left behind by a lookup that fails are to BOs that are there.            *)
LEMMA LookupStep ==
  ASSUME RefsInv, NEW j \in Jobs, SubmitLookup(j)
  PROVE  Restored
<1> USE DEF RefsInv
<1>1. /\ ioctl[j] = "lookup" /\ job[j] = "building"
      /\ UNCHANGED <<file, bo, handle, job, attached>>
  BY DEF SubmitLookup, OrderInv, JobsOK
<1>2. ioctl \in [Jobs -> {"no", "copy", "lookup", "push", "attach", "cleanup",
                         "put", "oops", "returned"}]
  BY DEF OrderInv, ShapeOK, JobShape
<1>3. \A g \in Files : /\ \A s : BosOf(g, s)' = BosOf(g, s)
                       /\ CoresOn(g)' = CoresOn(g)
                       /\ One(file[g] \in {"open", "closing"})' = One(file[g] \in {"open", "closing"})
  BY <1>1 DEF BosOf, CoresOn
<1>4. BosOK'
  BY <1>1 DEF BosOK
<1>5. ASSUME NEW more \in [BOs -> Nat],
             boRef' = [b \in BOs |-> boRef[b] + more[b]],
             \A b \in BOs : more[b] > 0 => b \in handle
      PROVE  /\ boRef' \in [BOs -> Nat]
             /\ \A b \in BOs : bo'[b] = "live" <=> boRef'[b] > 0
  <2>1. ASSUME NEW b \in BOs
        PROVE  boRef'[b] \in Nat /\ (bo'[b] = "live" <=> boRef'[b] > 0)
    <3>1. /\ boRef[b] \in Nat /\ boRef[b] >= BoUsers(b)
          /\ bo[b] = "live" <=> boRef[b] > 0
      BY DEF CountsOK, BoRefsMatch
    <3>2. b \in handle => boRef[b] > 0
      BY <3>1, AreCounted DEF BoUsers, One, AllCounted
    <3>3. more[b] \in Nat /\ boRef'[b] = boRef[b] + more[b]
      BY <1>5
    <3> QED BY <1>1, <1>5, <3>1, <3>2, <3>3
  <2> QED BY <1>5, <2>1
<1>6. CASE /\ boRef' = [b \in BOs |-> boRef[b] + Uses(j, b)]
           /\ domRef' = [domRef EXCEPT ![FileOf[j]] = @ + 1]
           /\ ioctl' = [ioctl EXCEPT ![j] = "push"]
           /\ Bos(j) \subseteq handle
  <2> DEFINE more == [b \in BOs |-> Uses(j, b)]
  <2>1. more \in [BOs -> Nat] /\ \A b \in BOs : more[b] > 0 => b \in handle
    BY <1>6 DEF Uses, Bos
  <2>2. /\ boRef' \in [BOs -> Nat]
        /\ \A b \in BOs : bo'[b] = "live" <=> boRef'[b] > 0
    <3>1. boRef' = [b \in BOs |-> boRef[b] + more[b]]
      BY <1>6
    <3> HIDE DEF more
    <3> QED BY <1>5, <2>1, <3>1
  <2>3. /\ ~HoldsObjects(j) /\ HoldsObjects(j)'
        /\ \A k \in Jobs \ {j} : HoldsObjects(k)' <=> HoldsObjects(k)
    BY <1>1, <1>2, <1>6 DEF HoldsObjects
  <2>4. DomainRefsMatch'
    <3> SUFFICES ASSUME NEW g \in Files
                 PROVE  domRef'[g] = (DomainUsers(g) + Cardinality(BosOf(g, "failed")))'
      BY DEF DomainRefsMatch
    <3>1. Cardinality(HoldersOf(g))' = Cardinality(HoldersOf(g)) + One(FileOf[j] = g)
      BY <2>3, HoldEnter
    <3>2. domRef'[g] = domRef[g] + One(FileOf[j] = g) /\ domRef[g] \in Nat
      BY <1>6 DEF One, CountsOK
    <3>3. domRef[g] = DomainUsers(g) + Cardinality(BosOf(g, "failed"))
      BY DEF DomainRefsMatch
    <3> QED BY <1>3, <3>1, <3>2, <3>3, AreCounted DEF DomainUsers, One, AllCounted
  <2>5. BoRefsMatch'
    <3> SUFFICES ASSUME NEW x \in BOs
                 PROVE  /\ boRef'[x] >= BoUsers(x)'
                        /\ "early" \notin Faults => boRef'[x] = BoUsers(x)'
      BY <2>2 DEF BoRefsMatch
    <3>1. /\ Cardinality(HoldBo(x, InBos))' = Cardinality(HoldBo(x, InBos)) + One(x \in InBos[j])
          /\ Cardinality(HoldBo(x, OutBos))' = Cardinality(HoldBo(x, OutBos)) + One(x \in OutBos[j])
      BY <2>3, HoldEnter
    <3>2. boRef'[x] = boRef[x] + One(x \in InBos[j]) + One(x \in OutBos[j]) /\ boRef[x] \in Nat
      BY <1>6 DEF One, Uses, CountsOK
    <3>3. /\ boRef[x] >= BoUsers(x)
          /\ "early" \notin Faults => boRef[x] = BoUsers(x)
      BY DEF BoRefsMatch
    <3> QED BY <1>1, <3>1, <3>2, <3>3, AreCounted DEF BoUsers, One, AllCounted
  <2>6. domRef' \in [Files -> Int]
    BY <1>6 DEF CountsOK
  <2> QED BY <1>4, <2>2, <2>4, <2>5, <2>6, Restore
<1>7. ASSUME NEW ins \in SUBSET handle, NEW outs \in SUBSET handle,
             boRef' = [b \in BOs |-> boRef[b] + (IF b \in ins THEN 1 ELSE 0)
                                            + (IF b \in outs THEN 1 ELSE 0)],
             "early" \in Faults, ioctl' = [ioctl EXCEPT ![j] = "oops"], domRef' = domRef
      PROVE  Restored
  <2> DEFINE more == [b \in BOs |-> (IF b \in ins THEN 1 ELSE 0) + (IF b \in outs THEN 1 ELSE 0)]
  <2>1. more \in [BOs -> Nat] /\ \A b \in BOs : more[b] > 0 => b \in handle
    BY <1>7
  <2>2. boRef' = [b \in BOs |-> boRef[b] + more[b]]
    BY <1>7 DEF CountsOK
  <2> HIDE DEF more
  <2>3. /\ boRef' \in [BOs -> Nat]
        /\ \A b \in BOs : bo'[b] = "live" <=> boRef'[b] > 0
    BY <1>5, <2>1, <2>2
  <2>4. SameHolders
    BY <1>1, <1>2, <1>7 DEF SameHolders, HoldsObjects
  <2>5. DomainRefsMatch'
    BY <1>3, <1>7, <2>4, HoldSame DEF DomainRefsMatch, DomainUsers
  <2>6. BoRefsMatch'
    <3> SUFFICES ASSUME NEW x \in BOs PROVE boRef'[x] >= BoUsers(x)'
      BY <1>7, <2>3 DEF BoRefsMatch
    <3>1. BoUsers(x)' = BoUsers(x) /\ BoUsers(x) \in Nat
      BY <1>1, <2>4, HoldSame, AreCounted DEF BoUsers, One, AllCounted
    <3>2. boRef'[x] = boRef[x] + more[x] /\ more[x] \in Nat /\ boRef[x] \in Nat
          /\ boRef[x] >= BoUsers(x)
      BY <2>1, <2>2 DEF CountsOK, BoRefsMatch
    <3> QED BY <3>1, <3>2
  <2>7. domRef' \in [Files -> Int]
    BY <1>7 DEF CountsOK
  <2> QED BY <1>4, <2>3, <2>5, <2>6, <2>7, Restore
<1> QED
  <2>1. CASE Bos(j) \subseteq handle
    BY <1>6, <2>1 DEF SubmitLookup, Go
  <2>2. CASE ~(Bos(j) \subseteq handle)
    <3>1. LookupFails(j)
      BY <2>2 DEF SubmitLookup
    <3> QED BY <1>7, <3>1 DEF LookupFails, Go
  <2> QED BY <2>1, <2>2

-----------------------------------------------------------------------------
(* The last reference of a job gives back what it holds.                    *)
LEMMA CleanupStep ==
  ASSUME RefsInv, NEW j \in Jobs, JobCleanup(j), HoldsObjects(j), ~HoldsObjects(j)',
         \A k \in Jobs \ {j} : HoldsObjects(k)' <=> HoldsObjects(k),
         UNCHANGED <<file, handle, attached>>
  PROVE  Restored
<1> USE DEF RefsInv
<1> DEFINE drops == [b \in BOs |-> Uses(j, b)]
           f == FileOf[j]
<1>1. \A b \in BOs : bo[b] = "live" <=> boRef[b] > 0
  BY DEF BoRefsMatch
<1>2. DOMAIN bo = BOs /\ CountsOK
  BY DEF OrderInv, ShapeOK, FileShape
<1>3. \A b \in BOs :
        /\ drops[b] = One(b \in InBos[j]) + One(b \in OutBos[j]) /\ drops[b] \in Nat
        /\ Cardinality(HoldBo(b, InBos))' = Cardinality(HoldBo(b, InBos)) - One(b \in InBos[j])
        /\ Cardinality(HoldBo(b, OutBos))' = Cardinality(HoldBo(b, OutBos)) - One(b \in OutBos[j])
        /\ Cardinality(HoldBo(b, InBos)) >= One(b \in InBos[j])
        /\ Cardinality(HoldBo(b, OutBos)) >= One(b \in OutBos[j])
        /\ drops[b] > 0 => FileOf[b] = f
  <2>1. \A b \in BOs :
          /\ drops[b] = One(b \in InBos[j]) + One(b \in OutBos[j]) /\ drops[b] \in Nat
          /\ drops[b] > 0 => FileOf[b] = f
    BY DEF One, Uses
  <2> QED BY <2>1, HoldLeave
<1>4. drops \in [BOs -> Nat]
  BY DEF Uses
<1>5. Release(f, 1, drops) /\ f \in Files
  BY DEF JobCleanup
<1> HIDE DEF drops, f
<1>6. \A b \in BOs : drops[b] <= boRef[b] /\ (drops[b] > 0 => FileOf[b] = f)
  <2> TAKE b \in BOs
  <2>1. boRef[b] >= BoUsers(b) /\ boRef[b] \in Nat
    BY DEF BoRefsMatch, CountsOK
  <2>2. BoUsers(b) >= drops[b] /\ BoUsers(b) \in Nat
    BY <1>3, AreCounted DEF BoUsers, One, AllCounted
  <2> QED BY <1>3, <2>1, <2>2
<1>7. /\ boRef' \in [BOs -> Nat]
      /\ \A b \in BOs : /\ boRef'[b] = boRef[b] - drops[b]
                        /\ bo'[b] = "live" <=> boRef'[b] > 0
                        /\ bo'[b] = "none" <=> bo[b] = "none"
      /\ domRef' \in [Files -> Int]
      /\ \A g \in Files :
           /\ Cardinality(BosOf(g, "failed"))' = Cardinality(BosOf(g, "failed"))
           /\ domRef'[g] - Cardinality(BosOf(g, "live"))'
                = domRef[g] - Cardinality(BosOf(g, "live")) - IF g = f THEN 1 ELSE 0
  BY <1>1, <1>2, <1>4, <1>5, <1>6, ReleaseStep
<1>8. DomainRefsMatch'
  <2> SUFFICES ASSUME NEW g \in Files
               PROVE  domRef'[g] = (DomainUsers(g) + Cardinality(BosOf(g, "failed")))'
    BY DEF DomainRefsMatch
  <2>1. /\ One(file[g] \in {"open", "closing"})' = One(file[g] \in {"open", "closing"})
        /\ Cardinality(HoldersOf(g))' = Cardinality(HoldersOf(g)) - (IF g = f THEN 1 ELSE 0)
        /\ Cardinality(CoresOn(g))' = Cardinality(CoresOn(g))
    BY HoldLeave DEF CoresOn, One, f
  <2>2. domRef[g] = DomainUsers(g) + Cardinality(BosOf(g, "failed"))
    BY DEF DomainRefsMatch
  <2>3. domRef'[g] \in Int /\ domRef[g] \in Nat
    BY <1>2, <1>7 DEF CountsOK
  <2>4. domRef'[g] - Cardinality(BosOf(g, "live"))'
          = domRef[g] - Cardinality(BosOf(g, "live")) - IF g = f THEN 1 ELSE 0
    BY <1>7
  <2>5. /\ Cardinality(BosOf(g, "live")) \in Nat /\ Cardinality(BosOf(g, "live"))' \in Nat
        /\ Cardinality(HoldersOf(g)) \in Nat /\ Cardinality(CoresOn(g)) \in Nat
        /\ Cardinality(BosOf(g, "failed")) \in Nat
        /\ One(file[g] \in {"open", "closing"}) \in Nat
    BY AreCounted, AreCountedNext DEF One, AllCounted
  <2>6. Cardinality(BosOf(g, "failed"))' = Cardinality(BosOf(g, "failed"))
    BY <1>7
  <2>7. CASE g = f
    BY <2>1, <2>2, <2>3, <2>4, <2>5, <2>6, <2>7 DEF DomainUsers
  <2>8. CASE g # f
    BY <2>1, <2>2, <2>3, <2>4, <2>5, <2>6, <2>8 DEF DomainUsers
  <2> QED BY <2>7, <2>8
<1>9. BoRefsMatch'
  <2> SUFFICES ASSUME NEW x \in BOs
               PROVE  /\ boRef'[x] >= BoUsers(x)'
                      /\ "early" \notin Faults => boRef'[x] = BoUsers(x)'
    BY <1>7 DEF BoRefsMatch
  <2>1. BoUsers(x)' = BoUsers(x) - drops[x] /\ BoUsers(x) \in Nat
    BY <1>3, AreCounted DEF BoUsers, One, AllCounted
  <2>2. /\ boRef[x] >= BoUsers(x) /\ boRef[x] \in Nat /\ drops[x] \in Nat
        /\ "early" \notin Faults => boRef[x] = BoUsers(x)
    BY <1>4 DEF BoRefsMatch, CountsOK
  <2> QED BY <1>7, <2>1, <2>2
<1>10. BosOK'
  BY <1>7 DEF BosOK
<1> QED BY <1>7, <1>8, <1>9, <1>10, Restore

(* A core that takes another domain takes a reference of it and puts that   *)
(* of the one before; if the attach fails, it only puts.                    *)
LEMMA RunStep ==
  ASSUME RefsInv, NEW j \in Jobs, NEW c \in Cores, RunJob(c, j)
  PROVE  Restored
<1> USE DEF RefsInv
<1> DEFINE f == FileOf[j]
<1>1. /\ f \in Files /\ job[j] = "queued"
      /\ \E s \in {"running", "failed"} : job' = [job EXCEPT ![j] = s]
      /\ UNCHANGED <<file, bo, boRef, handle, ioctl>>
  BY RunFacts DEF OrderInv
<1>2. SameHolders
  BY <1>1 DEF SameHolders, HoldsObjects, OrderInv, ShapeOK, JobShape
<1>3. CASE UNCHANGED <<attached, domRef>>
  BY <1>1, <1>2, <1>3, NoRefs
<1>4. ASSUME NEW a \in Files \cup {None}, attached[c] # a,
             attached' = [attached EXCEPT ![c] = a],
             domRef' = [g \in Files |-> CASE g = a           -> domRef[g] + 1
                                         [] g = attached[c] -> domRef[g] - 1
                                         [] OTHER           -> domRef[g]]
      PROVE  Restored
  <2>1. attached \in [Cores -> Files \cup {None}]
    BY DEF OrderInv, ShapeOK, CoreShape
  <2>2. \A g \in Files : /\ domRef[g] \in Nat
                         /\ domRef'[g] = CASE g = a -> domRef[g] + 1
                                           [] g = attached[c] -> domRef[g] - 1
                                           [] OTHER -> domRef[g]
    BY <1>4 DEF CountsOK
  <2>3. ASSUME NEW g \in Files
        PROVE  /\ domRef'[g] \in Int
               /\ domRef'[g] - Cardinality(CoresOn(g))' = domRef[g] - Cardinality(CoresOn(g))
    <3>1. IsFiniteSet(CoresOn(g)) /\ Cardinality(CoresOn(g)) \in Nat
      BY AreCounted DEF AllCounted
    <3>2. CASE g = a
      <4>1. CoresOn(g)' = CoresOn(g) \cup {c} /\ c \notin CoresOn(g)
        BY <1>4, <2>1, <3>2 DEF CoresOn
      <4>2. Cardinality(CoresOn(g) \cup {c}) = Cardinality(CoresOn(g)) + 1
        BY <3>1, <4>1, FS_AddElement
      <4>3. domRef'[g] = domRef[g] + 1 /\ domRef[g] \in Nat
        BY <1>4, <2>2, <3>2
      <4> QED BY <3>1, <4>1, <4>2, <4>3
    <3>3. CASE g # a /\ g = attached[c]
      <4>1. CoresOn(g)' = CoresOn(g) \ {c} /\ c \in CoresOn(g)
        BY <1>4, <2>1, <3>3 DEF CoresOn
      <4>2. Cardinality(CoresOn(g) \ {c}) = Cardinality(CoresOn(g)) - 1
        BY <3>1, <4>1, FS_RemoveElement
      <4>3. domRef'[g] = domRef[g] - 1 /\ domRef[g] \in Nat
        BY <2>2, <3>3
      <4> QED BY <3>1, <4>1, <4>2, <4>3
    <3>4. CASE g # a /\ g # attached[c]
      <4>1. CoresOn(g)' = CoresOn(g)
        BY <1>4, <2>1, <3>4 DEF CoresOn
      <4>2. domRef'[g] = domRef[g] /\ domRef[g] \in Nat
        BY <2>2, <3>4
      <4> QED BY <3>1, <4>1, <4>2
    <3> QED BY <3>2, <3>3, <3>4
  <2>4. DomainRefsMatch'
    <3> SUFFICES ASSUME NEW g \in Files
                 PROVE  domRef'[g] = (DomainUsers(g) + Cardinality(BosOf(g, "failed")))'
      BY DEF DomainRefsMatch
    <3>1. /\ One(file[g] \in {"open", "closing"})' = One(file[g] \in {"open", "closing"})
          /\ Cardinality(HoldersOf(g))' = Cardinality(HoldersOf(g))
          /\ \A s : BosOf(g, s)' = BosOf(g, s)
      BY <1>1, <1>2, HoldSame DEF BosOf
    <3>2. domRef[g] = DomainUsers(g) + Cardinality(BosOf(g, "failed")) /\ domRef[g] \in Nat
      BY <2>2 DEF DomainRefsMatch
    <3>3. /\ Cardinality(CoresOn(g)) \in Nat /\ Cardinality(CoresOn(g))' \in Nat
          /\ Cardinality(HoldersOf(g)) \in Nat /\ Cardinality(BosOf(g, "live")) \in Nat
          /\ Cardinality(BosOf(g, "failed")) \in Nat
          /\ One(file[g] \in {"open", "closing"}) \in Nat
      BY AreCounted, AreCountedNext DEF One, AllCounted
    <3>4. /\ Cardinality(BosOf(g, "live"))' = Cardinality(BosOf(g, "live"))
          /\ Cardinality(BosOf(g, "failed"))' = Cardinality(BosOf(g, "failed"))
      BY <3>1
    <3> QED BY <2>3, <3>1, <3>2, <3>3, <3>4 DEF DomainUsers
  <2>5. BoRefsMatch'
    BY <1>1, <1>2, HoldSame DEF BoRefsMatch, BoUsers
  <2>6. BosOK'
    BY <1>1 DEF BosOK
  <2>7. domRef' \in [Files -> Int] /\ boRef' \in [BOs -> Nat]
    <3>1. domRef' = [g \in Files |-> domRef'[g]]
      BY <1>4
    <3> QED BY <1>1, <2>3, <3>1 DEF CountsOK
  <2> QED BY <2>4, <2>5, <2>6, <2>7, Restore
<1>5. CASE RunStarts(c, j)
  <2>1. CASE attached[c] = f
    BY <1>3, <1>5, <2>1 DEF RunStarts, NeedsAttach
  <2>2. CASE attached[c] # f
    BY <1>1, <1>4, <1>5, <2>2 DEF RunStarts, NeedsAttach, AttachRefs
  <2> QED BY <2>1, <2>2
<1>6. CASE PutAttached(c) /\ attached' = [attached EXCEPT ![c] = None]
  <2>1. attached \in [Cores -> Files \cup {None}] /\ domRef \in [Files -> Nat] /\ None \notin Files
    BY DEF OrderInv, ShapeOK, CoreShape, CountsOK
  <2>2. CASE attached[c] = None
    <3>1. attached' = attached /\ domRef' = domRef
      BY <1>6, <2>1, <2>2 DEF PutAttached
    <3> QED BY <1>3, <3>1
  <2>3. CASE attached[c] # None
    <3>1. domRef' = [g \in Files |-> CASE g = None        -> domRef[g] + 1
                                       [] g = attached[c] -> domRef[g] - 1
                                       [] OTHER           -> domRef[g]]
      BY <1>6, <2>1 DEF PutAttached
    <3> QED BY <1>4, <1>6, <2>3, <3>1
  <2> QED BY <2>2, <2>3
<1>7. CASE RunGivesUp(c, j)
  BY <1>3, <1>6, <1>7 DEF RunGivesUp, AttachFails
<1>8. CASE RunNoFence(j)
  BY <1>3, <1>8 DEF RunNoFence
<1> QED BY <1>5, <1>7, <1>8 DEF RunJob

(* A reference to a job is dropped, the last one or not.                    *)
LEMMA PutRefs ==
  ASSUME RefsInv, NEW j \in Jobs, SubmitReturn(j) \/ FreeJob(j)
  PROVE  Restored
<1> USE DEF RefsInv
<1>1. ShapeOK /\ JobsOK
  BY DEF OrderInv
<1>2. UNCHANGED <<file, handle, attached>>
  BY DEF SubmitReturn, FreeJob
<1>3. PICK last \in {"dropped", "freed"}, s \in {job[j], "released"} :
        /\ JobPut(j, last, s)
        /\ s = job[j] \/ job[j] \in {"done", "failed"}
  BY DEF SubmitReturn, FreeJob
<1>4. job' = [job EXCEPT ![j] = IF jobRef[j] = 1 THEN last ELSE s]
  BY <1>1, <1>3, PutStep
<1>5. \/ ioctl[j] \in {"cleanup", "put"} /\ ioctl' = [ioctl EXCEPT ![j] = "returned"] /\ s = job[j]
      \/ job[j] \in {"done", "failed"} /\ ioctl' = ioctl
  <2>1. CASE FreeJob(j)
    BY <2>1 DEF FreeJob
  <2>2. CASE SubmitReturn(j) /\ job[j] \notin {"done", "failed"}
    BY <1>3, <2>2 DEF SubmitReturn, Go
  <2>3. CASE SubmitReturn(j) /\ job[j] \in {"done", "failed"} /\ s = job[j]
    BY <2>3 DEF SubmitReturn, Go
  <2>4. CASE SubmitReturn(j) /\ job[j] \in {"done", "failed"} /\ s # job[j]
    <3>1. jobRef[j] # 1
      BY <1>1, <2>4 DEF SubmitReturn, JobsOK, Unfinished, Waiting
    <3>2. job' = [job EXCEPT ![j] = job[j]]
      <4>1. PICK l : JobPut(j, l, job[j])
        BY <2>4 DEF SubmitReturn
      <4> QED BY <1>1, <3>1, <4>1, PutStep
    <3> QED BY <1>1, <1>3, <1>4, <2>4, <3>1, <3>2 DEF ShapeOK, JobShape
  <2> QED BY <1>3, <2>1, <2>2, <2>3, <2>4
<1>6. \A k \in Jobs \ {j} : HoldsObjects(k)' <=> HoldsObjects(k)
  BY <1>1, <1>4, <1>5 DEF HoldsObjects, ShapeOK, JobShape
<1>7. CASE jobRef[j] = 1
  <2>1. HoldsObjects(j) /\ ~HoldsObjects(j)'
    BY <1>1, <1>4, <1>5, <1>7 DEF HoldsObjects, ShapeOK, JobShape, JobsOK, Unfinished, Waiting
  <2>2. JobCleanup(j)
    BY <1>3, <1>7 DEF JobPut
  <2> QED BY <1>2, <1>6, <2>1, <2>2, CleanupStep
<1>8. CASE jobRef[j] # 1
  <2>1. HoldsObjects(j)' <=> HoldsObjects(j)
    BY <1>1, <1>3, <1>4, <1>5, <1>8
      DEF HoldsObjects, ShapeOK, JobShape, JobsOK, Unfinished, Waiting
  <2>2. SameHolders
    BY <1>6, <2>1 DEF SameHolders
  <2>3. UNCHANGED <<domRef, bo, boRef>>
    BY <1>3, <1>8 DEF JobPut
  <2> QED BY <1>2, <2>2, <2>3, NoRefs
<1> QED BY <1>7, <1>8

-----------------------------------------------------------------------------
LEMMA RefsStep ==
  ASSUME RefsInv, [Next]_vars
  PROVE  RefsInv'
<1>1. OrderInv'
  BY OrderStep DEF RefsInv
<1>2. ShapeOK /\ JobsOK /\ CoresOK
  BY DEF RefsInv, OrderInv
<1> SUFFICES Restored
  BY <1>1 DEF RefsInv, Restored
<1>3. ASSUME SameHolders, UNCHANGED <<file, domRef, bo, boRef, handle, attached>>
      PROVE  Restored
  BY <1>3, NoRefs
<1>4. ASSUME UNCHANGED <<job, ioctl>> PROVE SameHolders
  BY <1>4 DEF SameHolders, HoldsObjects
<1>5. ASSUME NEW f \in Files, Closing(f) PROVE Restored
  <2> DEFINE closed == {b \in handle : FileOf[b] = f}
  <2>1. /\ handle' = handle \ closed /\ closed \in SUBSET handle
        /\ UNCHANGED <<job, ioctl, attached>>
        /\ file[f] = "open" /\ file' = [file EXCEPT ![f] = "closing"]
    BY <1>5 DEF Closing
  <2>2. Release(f, 0, [b \in BOs |-> IF b \in closed THEN 1 ELSE 0])
    <3>1. [b \in BOs |-> IF b \in handle /\ FileOf[b] = f THEN 1 ELSE 0]
            = [b \in BOs |-> IF b \in closed THEN 1 ELSE 0]
      OBVIOUS
    <3> QED BY <1>5, <3>1 DEF Closing
  <2>3. \A g \in Files : /\ file[g] \in {"open", "closing"} <=> file'[g] \in {"open", "closing"}
                         /\ file[g] # "none" => file'[g] # "none"
    BY <1>2, <2>1 DEF ShapeOK, FileShape
  <2>4. \A b \in closed : FileOf[b] = f
    OBVIOUS
  <2> HIDE DEF closed
  <2> QED BY <2>1, <2>2, <2>3, <2>4, CloseStep
<1>6. ASSUME NEW b \in BOs, CloseHandle(b) PROVE Restored
  <2> DEFINE closed == {b}
  <2>1. /\ handle' = handle \ closed /\ closed \in SUBSET handle
        /\ UNCHANGED <<job, ioctl, attached, file>> /\ FileOf[b] \in Files
    BY <1>6 DEF CloseHandle
  <2>2. Release(FileOf[b], 0, [x \in BOs |-> IF x \in closed THEN 1 ELSE 0])
    <3>1. [x \in BOs |-> IF x = b THEN 1 ELSE 0] = [x \in BOs |-> IF x \in closed THEN 1 ELSE 0]
      OBVIOUS
    <3> QED BY <1>6, <3>1 DEF CloseHandle
  <2>3. \A x \in closed : FileOf[x] = FileOf[b]
    OBVIOUS
  <2> HIDE DEF closed
  <2> QED BY <2>1, <2>2, <2>3, CloseStep
<1>7. ASSUME NEW b \in BOs, PrepBo(b) \/ FiniBo(b) PROVE Restored
  BY <1>3, <1>4, <1>7 DEF PrepBo, FiniBo
<1>8. ASSUME NEW j \in Jobs, SubmitBegin(j) PROVE Restored
  <2>1. SameHolders
    BY <1>2, <1>8 DEF SubmitBegin, Go, SameHolders, HoldsObjects, JobsOK, ShapeOK, JobShape
  <2> QED BY <1>3, <1>8, <2>1 DEF SubmitBegin
<1>9. ASSUME NEW j \in Jobs, SubmitCopy(j) \/ SubmitAttach(j) PROVE Restored
  <2>1. job' = job /\ ioctl[j] \in {"copy", "attach"}
        /\ \E s \in {"lookup", "oops", "put"} : ioctl' = [ioctl EXCEPT ![j] = s]
    BY <1>9 DEF SubmitCopy, SubmitAttach, Go
  <2>2. SameHolders
    BY <1>2, <2>1 DEF SameHolders, HoldsObjects, ShapeOK, JobShape
  <2> QED BY <1>3, <1>9, <2>2 DEF SubmitCopy, SubmitAttach
<1>10. ASSUME NEW j \in Jobs, SubmitPush(j) PROVE Restored
  <2>1. ioctl[j] = "push" /\ job[j] = "building"
    BY <1>2, <1>10 DEF SubmitPush, JobsOK
  <2>2. \/ ioctl' = [ioctl EXCEPT ![j] = "cleanup"] /\ job' = job
        \/ job' = [job EXCEPT ![j] = "queued"] /\ ioctl' = [ioctl EXCEPT ![j] = "attach"]
    BY <1>2, <1>10, PushStep
  <2>3. SameHolders
    BY <1>2, <2>1, <2>2 DEF SameHolders, HoldsObjects, ShapeOK, JobShape
  <2> QED BY <1>3, <1>10, <2>3 DEF SubmitPush
<1>11. ASSUME NEW j \in Jobs, NEW c \in Cores, FinishJob(c, j) PROVE Restored
  <2>1. job[j] = "running"
    BY <1>2, <1>11 DEF FinishJob, CoresOK
  <2>2. SameHolders
    BY <1>2, <1>11, <2>1 DEF FinishJob, SameHolders, HoldsObjects, ShapeOK, JobShape
  <2> QED BY <1>3, <1>11, <2>2 DEF FinishJob
<1>12. ASSUME NEW j \in Jobs, BuryJob(j) PROVE Restored
  <2>1. SameHolders
    BY <1>2, <1>12 DEF BuryJob, SameHolders, HoldsObjects, ShapeOK, JobShape
  <2> QED BY <1>3, <1>12, <2>1 DEF BuryJob
<1>13. CASE UNCHANGED vars
  BY <1>3, <1>4, <1>13 DEF vars
<1> QED
  BY <1>5, <1>6, <1>7, <1>8, <1>9, <1>10, <1>11, <1>12, <1>13, OpenStep, PostcloseStep,
     CreateBoStep, LookupStep, RunStep, PutRefs DEF Next

LEMMA RefsInit == Init => RefsInv
<1> SUFFICES ASSUME Init PROVE RefsInv
  OBVIOUS
<1>1. OrderInv
  BY OrderInit
<1>2. BosOK /\ CountsOK
  BY DEF Init, BosOK, CountsOK
<1>3. DomainRefsMatch
  <2>1. ASSUME NEW f \in Files
        PROVE  /\ BosOf(f, "live") = {} /\ BosOf(f, "failed") = {}
               /\ HoldersOf(f) = {} /\ CoresOn(f) = {}
    BY <2>1 DEF Init, BosOf, HoldersOf, HoldsObjects, CoresOn
  <2>2. \A f \in Files : domRef[f] = 0 /\ file[f] = "none"
    BY DEF Init
  <2>3. Cardinality({}) = 0
    BY FS_EmptySet
  <2>4. ASSUME NEW f \in Files PROVE DomainUsers(f) + Cardinality(BosOf(f, "failed")) = 0
    <3>1. /\ Cardinality(BosOf(f, "live")) = 0 /\ Cardinality(BosOf(f, "failed")) = 0
          /\ Cardinality(HoldersOf(f)) = 0 /\ Cardinality(CoresOn(f)) = 0
      BY <2>1, <2>3
    <3>2. One(file[f] \in {"open", "closing"}) = 0
      BY <2>2 DEF One
    <3> QED BY <3>1, <3>2 DEF DomainUsers
  <2> QED BY <2>2, <2>4 DEF DomainRefsMatch
<1>4. BoRefsMatch
  <2>1. ASSUME NEW b \in BOs, NEW list \in {InBos, OutBos} PROVE HoldBo(b, list) = {}
    BY <2>1 DEF Init, HoldBo, HoldsObjects
  <2>2. \A b \in BOs : boRef[b] = 0 /\ bo[b] = "none" /\ b \notin handle
    BY DEF Init
  <2>3. Cardinality({}) = 0
    BY FS_EmptySet
  <2>4. ASSUME NEW b \in BOs PROVE BoUsers(b) = 0
    <3>1. Cardinality(HoldBo(b, InBos)) = 0 /\ Cardinality(HoldBo(b, OutBos)) = 0
      BY <2>1, <2>3
    <3> QED BY <2>2, <3>1 DEF BoUsers, One
  <2> QED BY <2>2, <2>4 DEF BoRefsMatch
<1> QED BY <1>1, <1>2, <1>3, <1>4 DEF RefsInv

(* The invariant of the references holds whatever fails.                    *)
THEOREM RefsInvariant == Spec => []RefsInv
BY RefsInit, RefsStep, PTL DEF Spec

(* No reference count goes below zero, and a job's is what its ioctl and    *)
(* the scheduler hold.                                                      *)
THEOREM ObjTypeCorrect == Spec => []ObjTypeOK
<1>1. RefsInv => ObjTypeOK
  <2> SUFFICES ASSUME RefsInv PROVE ObjTypeOK
    OBVIOUS
  <2>1. \A j \in Jobs : jobRef[j] \in Nat
    <3> TAKE j \in Jobs
    <3>1. jobRef[j] \in {0, 1, 2}
      BY DEF RefsInv, OrderInv, ShapeOK, JobShape, JobsOK
    <3> QED BY <3>1
  <2>2. jobRef \in [Jobs -> Nat]
    BY <2>1 DEF RefsInv, OrderInv, ShapeOK, JobShape
  <2> QED BY <2>2 DEF RefsInv, OrderInv, ShapeOK, FileShape, JobShape, CoreShape, CountsOK,
        ObjTypeOK
<1> QED BY <1>1, RefsInvariant, PTL

(* The reference count of a domain is exact along every error path.         *)
THEOREM DomainRefs == Spec => []DomainRefsMatch
<1>1. RefsInv => DomainRefsMatch
  BY DEF RefsInv
<1> QED BY <1>1, RefsInvariant, PTL

(* A BO is never short of a reference, and has one too many only when a     *)
(* lookup of handles has failed midway.                                     *)
THEOREM BoRefs == Spec => []BoRefsMatch
<1>1. RefsInv => BoRefsMatch
  BY DEF RefsInv
<1> QED BY <1>1, RefsInvariant, PTL

(* A job in flight executes in its own file's domain, whatever resumes and  *)
(* attaches have failed before; the BOs of a job that holds a core, and     *)
(* whatever domain the core is attached to, are there, though their handles *)
(* and their file may have been closed (job.c:470-508).                     *)
THEOREM Mapped == Spec => []MappedWhileRunning
<1>1. RefsInv => MappedWhileRunning
  <2> SUFFICES ASSUME RefsInv, NEW c \in Cores
               PROVE  /\ inFlight[c] # None => attached[c] = FileOf[inFlight[c]]
                      /\ running[c] # None => \A b \in Bos(running[c]) : bo[b] = "live"
                      /\ attached[c] # None => domRef[attached[c]] > 0
    BY DEF MappedWhileRunning
  <2>1. ASSUME running[c] # None, NEW b \in Bos(running[c]) PROVE bo[b] = "live"
    <3>1. running[c] \in Jobs /\ HoldsObjects(running[c])
      BY <2>1 DEF RefsInv, OrderInv, ShapeOK, CoreShape, CoresOK, HoldsObjects
    <3>2. b \in BOs
      BY <2>1, <3>1 DEF Bos
    <3>3. running[c] \in HoldBo(b, InBos) \/ running[c] \in HoldBo(b, OutBos)
      BY <2>1, <3>1 DEF Bos, HoldBo
    <3>4. Cardinality(HoldBo(b, InBos)) # 0 \/ Cardinality(HoldBo(b, OutBos)) # 0
      BY <3>2, <3>3, AreCounted, FS_EmptySet DEF AllCounted
    <3>5. boRef[b] >= BoUsers(b) /\ boRef[b] \in Nat /\ (bo[b] = "live" <=> boRef[b] > 0)
      BY <3>2 DEF RefsInv, BoRefsMatch, CountsOK
    <3>6. BoUsers(b) > 0 /\ BoUsers(b) \in Nat
      BY <3>2, <3>4, AreCounted DEF BoUsers, One, AllCounted
    <3> QED BY <3>5, <3>6
  <2>2. inFlight[c] # None => attached[c] = FileOf[inFlight[c]]
    BY DEF RefsInv, OrderInv, CoresOK
  <2>3. ASSUME attached[c] # None PROVE domRef[attached[c]] > 0
    <3> DEFINE f == attached[c]
    <3>1. f \in Files /\ c \in CoresOn(f)
      BY <2>3 DEF RefsInv, OrderInv, ShapeOK, CoreShape, CoresOn
    <3> HIDE DEF f
    <3>2. Cardinality(CoresOn(f)) # 0
      BY <3>1, AreCounted, FS_EmptySet DEF AllCounted
    <3>3. domRef[f] = DomainUsers(f) + Cardinality(BosOf(f, "failed"))
      BY <3>1 DEF RefsInv, DomainRefsMatch
    <3>4. domRef[f] > 0
      BY <3>1, <3>2, <3>3, AreCounted DEF DomainUsers, One, AllCounted
    <3> QED BY <3>4 DEF f
  <2> QED BY <2>1, <2>2, <2>3
<1> QED BY <1>1, RefsInvariant, PTL

(* The invariant the runs check is the one proved.                          *)
THEOREM ObjInvariant == Spec => []ObjInv
<1>1. RefsInv /\ ObjTypeOK => ObjInv
  BY DEF RefsInv, OrderInv, ObjInv
<1> QED BY <1>1, RefsInvariant, ObjTypeCorrect, PTL
=============================================================================
