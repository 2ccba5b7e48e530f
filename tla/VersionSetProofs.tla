------------------------- MODULE VersionSetProofs -------------------------
(***************************************************************************)
(* Proofs about VersionSet, for any number of readers, of callers of       *)
(* TriggerCompaction and of flushes, and any keys and values.              *)
(***************************************************************************)
EXTENDS VersionSet, TLAPS, FiniteSetTheorems, WellFoundedInduction

-----------------------------------------------------------------------------
(* Sets of file numbers have a newest and an oldest member.                *)

\* A non-empty set of naturals has a least member.
LEMMA LeastExists ==
  ASSUME NEW S \in SUBSET Nat, S # {}
  PROVE  \E f \in S : \A g \in S : f <= g
PROOF
  <1>1. PICK f \in S : \A g \in S : ~ (<<g, f>> \in OpToRel(<, Nat))
    BY WFMin, NatLessThanWellFounded
  <1>2. \A g \in S : ~ (g < f)
    BY <1>1 DEF OpToRel
  <1> QED
    BY <1>2

\* Oldest picks a member (the purger's next file, compactor.go:177).
LEMMA OldestIsMember ==
  ASSUME NEW S \in SUBSET Nat, S # {}
  PROVE  Oldest(S) \in S
PROOF
  BY LeastExists DEF Oldest

\* Newest picks a member of a bounded set.
LEMMA NewestIsMember ==
  ASSUME NEW n \in Nat, NEW S \in SUBSET (0 .. n), S # {}
  PROVE  Newest(S) \in S /\ \A g \in S : g <= Newest(S)
PROOF
  <1> DEFINE T == {n - f : f \in S}
  <1>0. \A f \in S : n - f \in Nat
    OBVIOUS
  <1>1. T \in SUBSET Nat /\ T # {}
    <2>1. T \subseteq Nat
      BY <1>0
    <2>2. T # {}
      OBVIOUS
    <2> QED
      BY <2>1, <2>2
  <1>2. PICK m \in T : \A x \in T : m <= x
    BY <1>1, LeastExists
  <1>3. PICK f \in S : m = n - f
    OBVIOUS
  <1>4. \A g \in S : g <= f
    <2> SUFFICES ASSUME NEW g \in S PROVE g <= f
      OBVIOUS
    <2>1. n - g \in T
      OBVIOUS
    <2>2. n - f <= n - g
      BY <2>1, <1>2, <1>3
    <2> QED
      BY <2>2
  <1> QED
    BY <1>4 DEF Newest

\* The files are numbered from 1 on.
LEMMA FileIds ==
  /\ L0Id \in SUBSET (0 .. 2 * MaxFlushes)
  /\ L1Id \in SUBSET (0 .. 2 * MaxFlushes)
  /\ FileId \in SUBSET (0 .. 2 * MaxFlushes)
  /\ L0Id \cap L1Id = {}
  /\ 0 \notin FileId
PROOF
  BY ConstantsAssumption DEF L0Id, L1Id, FileId

\* The next file a read opens is one of those it has left (db.go:174, db.go:188).
LEMMA NextFileIsMember ==
  ASSUME NEW S \in SUBSET FileId, S # {}
  PROVE  NextFile(S) \in S
PROOF
  <1> DEFINE n == 2 * MaxFlushes
  <1>1. n \in Nat /\ S \in SUBSET (0 .. n) /\ S \cap L0Id \in SUBSET (0 .. n)
    BY FileIds, ConstantsAssumption
  <1> HIDE DEF n
  <1>2. Newest(S) \in S
    BY <1>1, NewestIsMember
  <1>3. S \cap L0Id # {} => Newest(S \cap L0Id) \in S \cap L0Id
    BY <1>1, NewestIsMember
  <1> QED
    BY <1>2, <1>3 DEF NextFile

\* A merge of well-formed files is a well-formed file (compactor.go:106-153).
LEMMA MergeIsTable ==
  ASSUME data \in [FileId -> Table], NEW S \in SUBSET L0Id
  PROVE  Merge(S) \in Table
PROOF
  <1> SUFFICES ASSUME NEW k \in Keys, Holding(S, k) # {}
               PROVE  data[Newest(Holding(S, k))][k] \in Entry
    BY DEF Merge, Table, Entry
  <1> DEFINE n == 2 * MaxFlushes
  <1>1. n \in Nat /\ S \in SUBSET (0 .. n)
    BY FileIds, ConstantsAssumption
  <1> HIDE DEF n
  <1>2. Holding(S, k) \in SUBSET S
    BY DEF Holding
  <1>3. Holding(S, k) \in SUBSET (0 .. n)
    BY <1>1, <1>2
  <1>4. Newest(Holding(S, k)) \in Holding(S, k)
    BY <1>1, <1>3, NewestIsMember
  <1>5. Newest(Holding(S, k)) \in FileId
    BY <1>2, <1>4 DEF FileId
  <1> QED
    BY <1>5 DEF Table

-----------------------------------------------------------------------------
(* The inductive invariant.                                                *)

\* The file a flush or a compaction is about to publish exists.
Control ==
  /\ wpc \in {"load", "store", "clear"} => wfile \in L0Id
  /\ cstep \in {"reload", "install"} => cfile \in L1Id
  /\ cstep # "load" => holder # None
  /\ holder = Worker => wpc = "compact"

CountInv == VsTypeOK /\ Control /\ RefCountExact

-----------------------------------------------------------------------------
(* Types, control and reference counts.                                    *)

\* A set of readers is finite and counts at most all of them.
LEMMA HoldersCounted ==
  ASSUME NEW v
  PROVE  /\ IsFiniteSet(HoldersOf(v))
         /\ Cardinality(HoldersOf(v)) \in Nat
         /\ Cardinality(Readers) \in Nat
         /\ Cardinality(HoldersOf(v)) <= Cardinality(Readers)
PROOF
  <1>1. HoldersOf(v) \in SUBSET Readers /\ IsFiniteSet(Readers)
    BY ConstantsAssumption DEF HoldersOf
  <1> QED
    BY <1>1, FS_Subset, FS_CardinalityType

\* The initial state has the invariant.
LEMMA InitCount == VsInit => CountInv
PROOF
  <1> SUFFICES ASSUME VsInit PROVE CountInv
    OBVIOUS
  <1>1. VsTypeOK
    <2>1. NoTable \in Table
      BY DEF NoTable, Table, Entry
    <2>2. Cardinality(Readers) \in Nat
      BY HoldersCounted
    <2> QED
      BY <2>1, <2>2, ConstantsAssumption
      DEF VsInit, VsTypeOK, VsManifest, VersionId, Compactors
  <1>2. Control
    BY ConstantsAssumption DEF VsInit, Control, Compactors
  <1>3. RefCountExact
    <2> SUFFICES ASSUME NEW v \in VersionId
                 PROVE  refs[v] = Cardinality(HoldersOf(v))
      BY DEF RefCountExact
    <2>1. HoldersOf(v) = {}
      BY DEF VsInit, HoldersOf
    <2> QED
      BY <2>1, FS_EmptySet DEF VsInit
  <1> QED
    BY <1>1, <1>2, <1>3 DEF CountInv

\* The worker's steps keep types and control.
LEMMA WorkerType ==
  ASSUME CountInv, (\E t \in Tables : FlushMemTable(t)) \/ WorkerStep
  PROVE  VsTypeOK' /\ Control'
PROOF
  <1> USE DEF CountInv
  <1>1. CASE \E t \in Tables : FlushMemTable(t)
    <2> PICK t \in Tables : FlushMemTable(t)
      BY <1>1
    <2>1. t \in Table
      BY ConstantsAssumption
    <2>2. nextL0 \in FileId /\ nextL0 + 1 \in 1 .. MaxFlushes + 1
      BY ConstantsAssumption DEF FlushMemTable, L0Id, FileId
    <2> QED
      BY <2>1, <2>2 DEF FlushMemTable, VsTypeOK, Control,
         versionVars, compactVars, readVars
  <1>2. CASE LoadVersion
    BY <1>2 DEF LoadVersion, VsTypeOK, Control, fileVars, versionVars,
       compactVars, readVars
  <1>3. CASE StoreVersion
    <2>1. wfile \in L0Id /\ wfile \in VersionId
      BY <1>3 DEF StoreVersion, Control, VersionId, FileId
    <2>2. Flushed(manifest[wver], wfile) \in VsManifest
      BY <2>1 DEF Flushed, VsTypeOK, VsManifest
    <2> QED
      BY <1>3, <2>1, <2>2 DEF StoreVersion, VsTypeOK, Control, fileVars,
         compactVars, readVars
  <1>4. CASE AfterClear
    BY <1>4 DEF AfterClear, VsTypeOK, Control, fileVars, versionVars,
       compactVars, readVars
  <1> QED
    BY <1>1, <1>2, <1>3, <1>4 DEF WorkerStep

\* So do the steps of a compaction.
LEMMA CompactionType ==
  ASSUME CountInv, (\E c \in Compactors : LockCompaction(c)) \/ HolderStep
  PROVE  VsTypeOK' /\ Control'
PROOF
  <1> USE DEF CountInv
  <1>0. None \notin Compactors /\ Worker \in Compactors
    BY ConstantsAssumption DEF Compactors
  <1>1. CASE \E c \in Compactors : LockCompaction(c)
    BY <1>0, <1>1 DEF LockCompaction, VsTypeOK, Control, fileVars, versionVars,
       workerVars, readVars
  <1>2. CASE LoadBatch
    BY <1>0, <1>2 DEF LoadBatch, ReturnFromCompact, LockFreed, VsTypeOK,
       VsManifest, VersionId, Control, fileVars, versionVars, readVars
  <1>3. CASE CompactL0toL1
    <2>1. Merge(captured) \in Table
      BY MergeIsTable DEF VsTypeOK
    <2>2. /\ nextL1 \in FileId /\ nextL1 \in L1Id
          /\ nextL1 + 1 \in MaxFlushes + 1 .. 2 * MaxFlushes + 1
      BY <1>3, ConstantsAssumption DEF CompactL0toL1, L1Id, FileId
    <2> QED
      BY <1>3, <2>1, <2>2 DEF CompactL0toL1, VsTypeOK, Control,
         versionVars, workerVars, readVars
  <1>4. CASE CompactionFails
    BY <1>0, <1>4 DEF CompactionFails, ReturnFromCompact, LockFreed, VsTypeOK,
       VersionId, Control, fileVars, versionVars, readVars
  <1>5. CASE ReloadVersion
    BY <1>5 DEF ReloadVersion, VsTypeOK, Control, fileVars, versionVars,
       workerVars, readVars
  <1>6. CASE InstallCompacted
    <2>1. cfile \in L1Id /\ cfile \in VersionId
      BY <1>6 DEF InstallCompacted, Control, VersionId, FileId
    <2>2. Compacted(manifest[cver], captured, cfile) \in VsManifest
      BY <2>1 DEF Compacted, VsTypeOK, VsManifest
    <2> QED
      BY <1>0, <1>6, <2>1, <2>2 DEF InstallCompacted, OldVersion,
         ReturnFromCompact, LockFreed, VsTypeOK, VersionId, Control, fileVars,
         readVars
  <1> QED
    BY <1>1, <1>2, <1>3, <1>4, <1>5, <1>6 DEF HolderStep

\* A purger claims only a Version that no read holds, and its claim keeps types
\* and counts (compactor.go:167-181).
LEMMA PurgeCount ==
  ASSUME CountInv, NEW v \in VersionId, PurgeStep(v)
  PROVE  CountInv'
PROOF
  <1> USE DEF CountInv
  <1>1. HoldersOf(v)' = HoldersOf(v) /\ \A u \in VersionId : HoldersOf(u)' = HoldersOf(u)
    BY DEF PurgeStep, PurgeClaim, PurgeRemove, HoldersOf, readVars
  <1>2. CASE PurgeClaim(v)
    <2>0. refs' \in [VersionId -> -1 .. Cardinality(Readers)]
      <3>1. Cardinality(Readers) \in Nat
        BY HoldersCounted
      <3> QED
        BY <1>2, <3>1 DEF PurgeClaim, VsTypeOK
    <2>1. VsTypeOK' /\ Control'
      BY <1>2, <2>0 DEF PurgeClaim, VsTypeOK, Control, fileVars,
         workerVars, compactVars, readVars
    <2>2. refs' = [refs EXCEPT ![v] = -1] /\ refs[v] = 0
      BY <1>2 DEF PurgeClaim, Unused
    <2>3. HoldersOf(v) = {}
      BY <2>2, HoldersCounted, FS_EmptySet DEF RefCountExact
    <2>4. RefCountExact'
      <3> SUFFICES ASSUME NEW u \in VersionId
                   PROVE  \/ refs'[u] = Cardinality(HoldersOf(u))
                          \/ refs'[u] = -1 /\ HoldersOf(u) = {}
        BY <1>1 DEF RefCountExact
      <3> QED
        BY <2>2, <2>3 DEF RefCountExact, VsTypeOK
    <2> QED
      BY <2>1, <2>4
  <1>3. CASE PurgeRemove(v)
    <2>1. VsTypeOK' /\ Control'
      BY <1>3 DEF PurgeRemove, VsTypeOK, Control, workerVars, compactVars, readVars
    <2>2. RefCountExact'
      BY <1>1, <1>3 DEF PurgeRemove, RefCountExact
    <2> QED
      BY <2>1, <2>2
  <1> QED
    BY <1>2, <1>3 DEF PurgeStep

\* Acquire and Release count exactly the reads that hold a Version, and refuse
\* one that a purger has claimed (version.go:26-44).
LEMMA ReadCount ==
  ASSUME CountInv, NEW r \in Readers, StartRead(r) \/ ReadStep(r)
  PROVE  CountInv'
PROOF
  <1> USE DEF CountInv
  <1>1. CASE StartRead(r)
    <2>0. PICK isScan \in BOOLEAN, K \in SUBSET Keys : BeginRead(r, isScan, K)
      BY <1>1 DEF StartRead
    <2>1. VsTypeOK' /\ Control'
      <3>1. scan' \in [Readers -> BOOLEAN]
        BY <2>0, Zenon DEF BeginRead, VsTypeOK
      <3>2. /\ rpc' \in [Readers -> {"idle", "load", "acquire", "search"}]
            /\ want' \in [Readers -> SUBSET Keys]
        BY <2>0 DEF BeginRead, VsTypeOK
      <3> QED
        BY <1>1, <2>0, <3>1, <3>2 DEF StartRead, BeginRead, VsTypeOK, Control,
           fileVars, versionVars, workerVars, compactVars
    <2>2. \A u \in VersionId : HoldersOf(u)' = HoldersOf(u)
      BY <1>1 DEF StartRead, BeginRead, HoldersOf, VsTypeOK
    <2>3. RefCountExact'
      BY <1>1, <2>2 DEF StartRead, RefCountExact, versionVars
    <2> QED
      BY <2>1, <2>3
  <1>2. CASE LoadCurrent(r)
    <2>1. VsTypeOK' /\ Control'
      BY <1>2 DEF LoadCurrent, VsTypeOK, Control, fileVars, versionVars,
         workerVars, compactVars
    <2>2. \A u \in VersionId : HoldersOf(u)' = HoldersOf(u)
      BY <1>2 DEF LoadCurrent, HoldersOf, VsTypeOK
    <2>3. RefCountExact'
      BY <1>2, <2>2 DEF LoadCurrent, RefCountExact, versionVars
    <2> QED
      BY <2>1, <2>3
  <1>3. CASE Acquire(r) /\ MarkedForPurge(rver[r])
    <2>1. VsTypeOK' /\ Control'
      BY <1>3 DEF Acquire, VsTypeOK, Control, fileVars, workerVars, compactVars
    <2>2. \A u \in VersionId : HoldersOf(u)' = HoldersOf(u)
      BY <1>3 DEF Acquire, HoldersOf, VsTypeOK
    <2>3. RefCountExact'
      BY <1>3, <2>2 DEF Acquire, RefCountExact
    <2> QED
      BY <2>1, <2>3
  <1>4. CASE Acquire(r) /\ ~ MarkedForPurge(rver[r])
    <2> DEFINE v == rver[r]
    <2>1. /\ v \in VersionId /\ rpc[r] = "acquire"
          /\ refs' = [refs EXCEPT ![v] = @ + 1]
          /\ left' = [left EXCEPT ![r] = FilesOf(manifest[v])]
          /\ rpc' = [rpc EXCEPT ![r] = "search"]
          /\ rver' = rver
          /\ refs[v] >= 0
      BY <1>4 DEF Acquire, MarkedForPurge, VsTypeOK
    <2>2. HoldersOf(v)' = HoldersOf(v) \cup {r} /\ r \notin HoldersOf(v)
      BY <2>1 DEF HoldersOf, VsTypeOK
    <2>3. \A u \in VersionId : u # v => HoldersOf(u)' = HoldersOf(u)
      BY <2>1 DEF HoldersOf, VsTypeOK
    <2>4. refs[v] = Cardinality(HoldersOf(v))
      BY <2>1 DEF RefCountExact
    <2>5. Cardinality(HoldersOf(v)') = refs[v] + 1
      BY <2>2, <2>4, HoldersCounted, FS_AddElement
    <2>6. refs[v] + 1 <= Cardinality(Readers)
      <3>1. HoldersOf(v) \cup {r} \in SUBSET Readers /\ IsFiniteSet(Readers)
        BY ConstantsAssumption DEF HoldersOf
      <3> QED
        BY <3>1, <2>2, <2>5, FS_Subset
    <2>7. FilesOf(manifest[v]) \in SUBSET FileId
      BY <2>1 DEF FilesOf, VsTypeOK, VsManifest, FileId
    <2>8. VsTypeOK'
      <3>1. refs' \in [VersionId -> -1 .. Cardinality(Readers)]
        BY <2>1, <2>6, HoldersCounted DEF VsTypeOK
      <3> QED
        BY <1>4, <2>1, <2>7, <3>1 DEF Acquire, VsTypeOK, fileVars, workerVars,
           compactVars
    <2>9. Control'
      BY <1>4 DEF Acquire, Control, workerVars, compactVars
    <2>10. RefCountExact'
      BY <2>1, <2>3, <2>5 DEF RefCountExact, VsTypeOK
    <2> QED
      BY <2>8, <2>9, <2>10
  <1>5. CASE ReadSSTable(r)
    <2>1. VsTypeOK'
      <3> DEFINE f == NextFile(left[r])
                 hit == {k \in want[r] : data[f][k] # Absent}
      <3>1. left[r] \in SUBSET FileId /\ left[r] # {} /\ f \in FileId
        BY <1>5, NextFileIsMember DEF ReadSSTable, VsTypeOK
      <3>2. data[f] \in Table /\ got[r] \in Table
        BY <3>1 DEF VsTypeOK
      <3>3. [k \in Keys |-> IF k \in hit THEN data[f][k] ELSE got[r][k]] \in Table
        BY <3>2 DEF Table
      <3>4. CASE f \in disk
        <4>1. /\ got' = [got EXCEPT ![r] =
                    [k \in Keys |-> IF k \in hit THEN data[f][k] ELSE got[r][k]]]
              /\ want' = [want EXCEPT ![r] = want[r] \ hit]
              /\ left' = [left EXCEPT ![r] = IF ~ scan[r] /\ hit # {}
                                            THEN {} ELSE left[r] \ {f}]
              /\ err' = err
          BY <1>5, <3>4 DEF ReadSSTable, VsTypeOK
        <4> HIDE DEF f, hit
        <4> QED
          BY <1>5, <3>1, <3>3, <4>1 DEF ReadSSTable, VsTypeOK, fileVars,
             versionVars, workerVars, compactVars
      <3>5. CASE f \notin disk
        BY <1>5, <3>5 DEF ReadSSTable, VsTypeOK, fileVars,
           versionVars, workerVars, compactVars
      <3> QED
        BY <3>4, <3>5
    <2>2. Control'
      BY <1>5 DEF ReadSSTable, Control, workerVars, compactVars
    <2>3. \A u \in VersionId : HoldersOf(u)' = HoldersOf(u)
      BY <1>5 DEF ReadSSTable, HoldersOf
    <2>4. RefCountExact'
      BY <1>5, <2>3 DEF ReadSSTable, RefCountExact, versionVars
    <2> QED
      BY <2>1, <2>2, <2>4
  <1>6. CASE Release(r)
    <2>0. PICK v \in VersionId : v = rver[r]
      BY DEF VsTypeOK
    <2>1. /\ v = rver[r] /\ rpc[r] = "search"
          /\ refs' = [refs EXCEPT ![v] = @ - 1]
          /\ rpc' = [rpc EXCEPT ![r] = "idle"]
          /\ rver' = [rver EXCEPT ![r] = 0]
      BY <1>6, <2>0 DEF Release, Released, VsTypeOK
    <2>2. r \in HoldersOf(v)
      BY <2>1 DEF HoldersOf
    <2>3. \A u \in VersionId : {q \in Readers : rpc'[q] = "search" /\ rver'[q] = u}
                                = {q \in Readers : rpc[q] = "search" /\ rver[q] = u} \ {r}
      BY <2>1 DEF VsTypeOK
    <2>4. \A u \in VersionId : HoldersOf(u)' = HoldersOf(u) \ {r}
      BY <2>3 DEF HoldersOf
    <2>5. \A u \in VersionId : u # v => HoldersOf(u)' = HoldersOf(u)
      <3>1. \A u \in VersionId : u # v => r \notin HoldersOf(u)
        BY <2>1 DEF HoldersOf
      <3> QED
        BY <2>4, <3>1
    <2>6. refs[v] = Cardinality(HoldersOf(v))
      BY <2>1, <2>2 DEF RefCountExact
    <2>7. Cardinality(HoldersOf(v)') = refs[v] - 1 /\ refs[v] - 1 \in Nat
      <3>1. IsFiniteSet(HoldersOf(v))
        BY HoldersCounted
      <3>2. Cardinality(HoldersOf(v) \ {r}) = Cardinality(HoldersOf(v)) - 1
        BY <2>2, <3>1, FS_RemoveElement
      <3>3. Cardinality(HoldersOf(v) \ {r}) \in Nat
        BY <3>1, FS_Subset, FS_CardinalityType
      <3> QED
        BY <2>1, <2>4, <2>6, <3>2, <3>3
    <2>8. VsTypeOK'
      <3>1. NoTable \in Table /\ 0 \in VersionId
        BY DEF NoTable, Table, Entry, VersionId
      <3>2. refs' \in [VersionId -> -1 .. Cardinality(Readers)]
        <4>1. Cardinality(Readers) \in Nat
          BY HoldersCounted
        <4>2. refs[v] - 1 \in -1 .. Cardinality(Readers)
          BY <2>1, <2>7, <4>1 DEF VsTypeOK
        <4> QED
          BY <2>1, <4>2 DEF VsTypeOK
      <3> QED
        BY <1>6, <3>1, <3>2 DEF Release, VsTypeOK, fileVars, workerVars,
           compactVars
    <2>9. Control'
      BY <1>6 DEF Release, Control, workerVars, compactVars
    <2>10. RefCountExact'
      <3> SUFFICES ASSUME NEW u \in VersionId
                   PROVE  \/ refs'[u] = Cardinality(HoldersOf(u)')
                          \/ refs'[u] = -1 /\ HoldersOf(u)' = {}
        BY DEF RefCountExact
      <3>1. CASE u = v
        BY <2>1, <2>7, <3>1 DEF VsTypeOK
      <3>2. CASE u # v
        <4>1. refs'[u] = refs[u] /\ HoldersOf(u)' = HoldersOf(u)
          BY <2>1, <2>5, <3>2 DEF VsTypeOK
        <4> QED
          BY <4>1 DEF RefCountExact
      <3> QED
        BY <3>1, <3>2
    <2> QED
      BY <2>8, <2>9, <2>10
  <1> QED
    BY <1>1, <1>2, <1>3, <1>4, <1>5, <1>6 DEF ReadStep

\* Every step keeps types, control and counts.
LEMMA NextCount == CountInv /\ [VsNext]_vsVars => CountInv'
PROOF
  <1> SUFFICES ASSUME CountInv, [VsNext]_vsVars PROVE CountInv'
    OBVIOUS
  <1>1. CASE (\E t \in Tables : FlushMemTable(t)) \/ WorkerStep
    <2>1. rpc' = rpc /\ rver' = rver /\ refs' = refs
      BY <1>1 DEF WorkerStep, FlushMemTable, LoadVersion, StoreVersion,
         AfterClear, versionVars, readVars
    <2>2. RefCountExact'
      BY <2>1 DEF CountInv, RefCountExact, HoldersOf
    <2> QED
      BY <1>1, <2>2, WorkerType DEF CountInv
  <1>2. CASE (\E c \in Compactors : LockCompaction(c)) \/ HolderStep
    <2>1. rpc' = rpc /\ rver' = rver /\ refs' = refs
      BY <1>2 DEF HolderStep, LockCompaction, LoadBatch, CompactL0toL1,
         CompactionFails, ReloadVersion, InstallCompacted, versionVars, readVars
    <2>2. RefCountExact'
      BY <2>1 DEF CountInv, RefCountExact, HoldersOf
    <2> QED
      BY <1>2, <2>2, CompactionType DEF CountInv
  <1>3. CASE \E v \in VersionId : PurgeStep(v)
    BY <1>3, PurgeCount
  <1>4. CASE \E r \in Readers : StartRead(r) \/ ReadStep(r)
    BY <1>4, ReadCount
  <1>5. CASE UNCHANGED vsVars
    BY <1>5 DEF CountInv, VsTypeOK, Control, RefCountExact, HoldersOf, vsVars,
       fileVars, versionVars, workerVars, compactVars, readVars
  <1> QED
    BY <1>1, <1>2, <1>3, <1>4, <1>5 DEF VsNext

\* Type correctness: in particular the reference count of a Version stays
\* between -1 and the number of reads (version.go:21).
THEOREM TypeCorrect == VsSpec => []VsTypeOK
PROOF
  <1>1. CountInv => VsTypeOK
    BY DEF CountInv
  <1> QED
    BY InitCount, NextCount, <1>1, PTL DEF VsSpec

\* Reference counting is exact, with or without disk faults: no interleaving of
\* Acquire, Release and the purger's claim loses an update or lets a read hold
\* a Version that a purger has claimed (version.go:26-44, compactor.go:167-175).
THEOREM RefCountsExact == VsSpec => []RefCountExact
PROOF
  <1>1. CountInv => RefCountExact
    BY DEF CountInv
  <1> QED
    BY InitCount, NextCount, <1>1, PTL DEF VsSpec

-----------------------------------------------------------------------------
(***************************************************************************)
(* Proofs that no purge unlinks a file that is still needed, when every    *)
(* SSTable write succeeds: for any number of readers, of callers of        *)
(* TriggerCompaction and of flushes, and any keys and values.              *)
(***************************************************************************)

-----------------------------------------------------------------------------
(* The inductive invariant.                                                *)

\* Versions that no manifest swap has published yet.
Unborn ==
  {v \in L0Id : v >= nextL0 \/ (wpc \in {"load", "store"} /\ v = wfile)}
  \cup
  {v \in L1Id : v >= nextL1 \/ (cstep \in {"reload", "install"} /\ v = cfile)}

\* Manifest swaps do not overlap: outside the window in which the worker has
\* just published or is compacting there is too little in L0 to compact, so a
\* compaction, whoever runs it, and a flush exclude each other.
Serial ==
  /\ cstep # "load" => wpc \in {"clear", "compact"}
  /\ cstep # "load" => TriggersCompaction(manifest[current])
  /\ cstep # "load" => captured = manifest[current].l0
  /\ cstep = "install" => cver = current
  /\ wpc \in {"idle", "load", "store"} => ~ TriggersCompaction(manifest[current])
  /\ wpc = "store" => wver = current
  /\ wpc = "clear" => current = wfile \/ manifest[current].l0 = {}

\* Only published Versions are used, and currentVersion is not being purged.
Born ==
  /\ current \notin Unborn
  /\ \A r \in Readers : rver[r] \notin Unborn
  /\ \A v \in Unborn \cup {current} : obsolete[v] = {} /\ refs[v] >= 0

\* The files of currentVersion and those just written are on disk; L1 files
\* stay there for ever.
OnDisk ==
  /\ manifest[current].l0 \subseteq disk
  /\ \A v \in VersionId : manifest[v].l1 \subseteq disk
  /\ wpc \in {"load", "store"} => wfile \in disk
  /\ cstep \in {"reload", "install"} => cfile \in disk

\* Only files already written are listed or purged.
Numbered ==
  /\ \A f \in manifest[current].l0 : f < nextL0
  /\ \A v \in VersionId : \A f \in obsolete[v] : f < nextL0
  /\ wpc \in {"load", "store"} => wfile < nextL0
  /\ cstep \in {"reload", "install"} => cfile < nextL1

\* A file awaits at most one purger, and none while currentVersion or the
\* worker still needs it; a purger that is waiting has unlinked nothing yet.
Purging ==
  /\ \A v \in VersionId : obsolete[v] \cap manifest[current].l0 = {}
  /\ wpc \in {"load", "store"} => \A v \in VersionId : wfile \notin obsolete[v]
  /\ \A u, v \in VersionId : u # v => obsolete[u] \cap obsolete[v] = {}
  /\ \A v \in VersionId : obsolete[v] # {} /\ refs[v] >= 0 =>
       obsolete[v] = manifest[v].l0 /\ obsolete[v] \subseteq disk

\* A read searches files of the Version it holds.
Reading ==
  \A r \in Readers :
    rpc[r] = "search" => left[r] \subseteq FilesOf(manifest[rver[r]])

FileInv == Serial /\ Born /\ OnDisk /\ Numbered /\ Purging /\ Reading
-----------------------------------------------------------------------------
(* Facts used by several steps.                                            *)

\* An L0 slice without files does not trigger a compaction (db.go:391).
LEMMA EmptyL0DoesNotTrigger ==
  ASSUME NEW m, m.l0 = {}
  PROVE  ~ TriggersCompaction(m)
PROOF
  <1>1. Cardinality(m.l0) = 0
    BY FS_EmptySet
  <1> QED
    BY <1>1, ConstantsAssumption DEF TriggersCompaction

\* The invariant in the initial state.
LEMMA InitFile == VsInit => FileInv
PROOF
  <1> SUFFICES ASSUME VsInit PROVE FileInv
    OBVIOUS
  <1>1. 0 \in VersionId /\ manifest[0].l0 = {} /\ 0 \notin L0Id \cup L1Id
    BY FileIds DEF VsInit, VersionId, FileId
  <1>2. Serial
    BY <1>1, EmptyL0DoesNotTrigger DEF VsInit, Serial
  <1>3. Born
    BY <1>1 DEF VsInit, Born, Unborn, VersionId, FileId
  <1>4. OnDisk /\ Numbered /\ Purging /\ Reading
    BY <1>1 DEF VsInit, OnDisk, Numbered, Purging, Reading
  <1> QED
    BY <1>2, <1>3, <1>4 DEF FileInv

\* A read that is about to release a Version is counted in it (version.go:43).
LEMMA ReleasedWasHeld ==
  ASSUME CountInv, NEW r \in Readers, rpc[r] = "search"
  PROVE  refs[rver[r]] >= 1
PROOF
  <1> PICK v \in VersionId : v = rver[r]
    BY DEF CountInv, VsTypeOK
  <1>1. r \in HoldersOf(v)
    BY DEF HoldersOf
  <1>2. IsFiniteSet(HoldersOf(v)) /\ Cardinality(HoldersOf(v)) \in Nat
    BY HoldersCounted
  <1>3. Cardinality(HoldersOf(v)) # 0
    BY <1>1, <1>2, FS_EmptySet
  <1>4. refs[v] = Cardinality(HoldersOf(v))
    BY <1>1 DEF CountInv, RefCountExact
  <1> QED
    BY <1>2, <1>3, <1>4

-----------------------------------------------------------------------------
(* flushWorker.                                                            *)

\* A MemTable is written to a fresh file, and its Version is still unborn.
LEMMA FlushFile ==
  ASSUME CountInv, FileInv, NEW t \in Tables, FlushMemTable(t), Faults = {}
  PROVE  FileInv'
PROOF
  <1> USE DEF FileInv
  <1>1. /\ wpc = "idle" /\ wpc' = "load" /\ cstep = "load"
        /\ nextL0 \in L0Id /\ wfile' = nextL0 /\ nextL0' = nextL0 + 1
        /\ disk' = disk \cup {nextL0}
        /\ UNCHANGED <<nextL1, versionVars, wver, compactVars, readVars>>
    BY DEF FlushMemTable, Serial
  <1> USE DEF versionVars, compactVars, readVars
  <1>2. nextL0 \in Int
    BY <1>1 DEF L0Id
  <1>3. Serial'
    BY <1>1 DEF Serial, TriggersCompaction
  <1>4. Unborn' = Unborn
    <2>1. \A v \in L0Id : v >= nextL0 <=> v >= nextL0 + 1 \/ v = nextL0
      BY <1>2 DEF L0Id
    <2> QED
      BY <1>1, <2>1 DEF Unborn
  <1>5. Born'
    BY <1>1, <1>4 DEF Born
  <1>6. OnDisk'
    BY <1>1 DEF OnDisk
  <1>7. Numbered'
    <2>1. \A f \in L0Id : f < nextL0 => f < nextL0 + 1
      BY <1>2 DEF L0Id
    <2>2. /\ manifest[current].l0 \subseteq L0Id
          /\ \A v \in VersionId : obsolete[v] \subseteq L0Id
      BY DEF CountInv, VsTypeOK, VsManifest
    <2>3. nextL0 < nextL0 + 1
      BY <1>2
    <2> QED
      BY <1>1, <2>1, <2>2, <2>3 DEF Numbered
  <1>8. Purging'
    <2>1. \A v \in VersionId : nextL0 \notin obsolete[v]
      BY <1>2 DEF Numbered
    <2> QED
      BY <1>1, <2>1 DEF Purging
  <1>9. Reading'
    BY <1>1 DEF Reading
  <1> QED
    BY <1>3, <1>5, <1>6, <1>7, <1>8, <1>9

\* The worker loads currentVersion.
LEMMA LoadFile ==
  ASSUME CountInv, FileInv, LoadVersion
  PROVE  FileInv'
PROOF
  <1> USE DEF FileInv
  <1>1. /\ wpc = "load" /\ wpc' = "store" /\ wver' = current
        /\ UNCHANGED <<fileVars, nextL0, nextL1, versionVars, wfile,
                       compactVars, readVars>>
    BY DEF LoadVersion
  <1> USE DEF fileVars, versionVars, compactVars, readVars
  <1>2. Serial'
    BY <1>1 DEF Serial, TriggersCompaction
  <1>3. Unborn' = Unborn
    BY <1>1 DEF Unborn
  <1>4. Born' /\ OnDisk' /\ Numbered' /\ Purging' /\ Reading'
    BY <1>1, <1>3 DEF Born, OnDisk, Numbered, Purging, Reading
  <1> QED
    BY <1>2, <1>4

\* The worker publishes the new Version.  No compaction is under way, so the
\* Version it loaded is still the current one.
LEMMA StoreFile ==
  ASSUME CountInv, FileInv, StoreVersion
  PROVE  FileInv'
PROOF
  <1> USE DEF FileInv
  <1> DEFINE m == Flushed(manifest[current], wfile)
  <1>1. /\ wpc = "store" /\ wpc' = "clear" /\ cstep = "load"
        /\ wfile \in L0Id /\ wfile \in VersionId /\ wfile < nextL0
        /\ manifest' = [manifest EXCEPT ![wfile] = m]
        /\ current' = wfile
        /\ UNCHANGED <<fileVars, nextL0, nextL1, refs, obsolete, wfile, wver,
                       compactVars, readVars>>
    BY DEF StoreVersion, Serial, CountInv, Control, Numbered, VersionId, FileId
  <1> USE DEF fileVars, compactVars, readVars
  <1>2. /\ manifest'[wfile] = m
        /\ \A v \in VersionId : v # wfile => manifest'[v] = manifest[v]
        /\ m.l0 = manifest[current].l0 \cup {wfile}
        /\ m.l1 = manifest[current].l1
    BY <1>1 DEF CountInv, VsTypeOK, Flushed
  <1> HIDE DEF m
  <1>3. Serial'
    BY <1>1 DEF Serial
  <1>4. wfile \in Unborn
    BY <1>1 DEF Unborn
  <1>5. Unborn' = Unborn \ {wfile}
    <2>1. wfile \notin L1Id /\ ~ (wfile >= nextL0)
      BY <1>1, FileIds DEF L0Id, CountInv, VsTypeOK
    <2> QED
      BY <1>1, <2>1 DEF Unborn
  <1>6. Born'
    BY <1>1, <1>4, <1>5 DEF Born
  <1>7. OnDisk'
    <2>1. current \in VersionId
      BY DEF CountInv, VsTypeOK
    <2> QED
      BY <1>1, <1>2, <2>1 DEF OnDisk
  <1>8. Numbered'
    BY <1>1, <1>2 DEF Numbered
  <1>9. Purging'
    <2>1. \A v \in VersionId : obsolete[v] # {} => v # wfile
      BY <1>4 DEF Born
    <2> QED
      BY <1>1, <1>2, <2>1 DEF Purging
  <1>10. Reading'
    <2>1. \A r \in Readers : rver[r] \in VersionId /\ rver[r] # wfile
      BY <1>4 DEF Born, CountInv, VsTypeOK
    <2> QED
      BY <1>1, <1>2, <2>1 DEF Reading
  <1> QED
    BY <1>3, <1>6, <1>7, <1>8, <1>9, <1>10

\* The worker decides on the manifest it published; if it does not compact,
\* nobody else is compacting.
LEMMA ClearFile ==
  ASSUME CountInv, FileInv, AfterClear
  PROVE  FileInv'
PROOF
  <1> USE DEF FileInv
  <1>1. /\ wpc = "clear"
        /\ wpc' = IF TriggersCompaction(manifest[wfile]) THEN "compact" ELSE "idle"
        /\ UNCHANGED <<fileVars, nextL0, nextL1, versionVars, wfile, wver,
                       compactVars, readVars>>
    BY DEF AfterClear
  <1> USE DEF fileVars, versionVars, compactVars, readVars
  <1>2. Serial'
    <2>1. TriggersCompaction(manifest[current])' <=> TriggersCompaction(manifest[current])
      BY <1>1 DEF TriggersCompaction
    <2>2. TriggersCompaction(manifest[current]) => TriggersCompaction(manifest[wfile])
      BY <1>1, EmptyL0DoesNotTrigger DEF Serial
    <2> QED
      BY <1>1, <2>1, <2>2 DEF Serial
  <1>3. Unborn' = Unborn
    BY <1>1 DEF Unborn
  <1>4. Born' /\ OnDisk' /\ Numbered' /\ Purging' /\ Reading'
    BY <1>1, <1>3 DEF Born, OnDisk, Numbered, Purging, Reading
  <1> QED
    BY <1>2, <1>4
-----------------------------------------------------------------------------
(* maybeCompact.                                                           *)

\* The batch is captured only while the worker is past its own swap, because
\* only then can L0 have reached the threshold (db.go:390-399).
LEMMA BatchFile ==
  ASSUME CountInv, FileInv, LoadBatch
  PROVE  FileInv'
PROOF
  <1> USE DEF FileInv
  <1>1. /\ holder # None /\ cstep = "load"
        /\ UNCHANGED <<fileVars, nextL0, nextL1, versionVars, wfile, wver, readVars>>
    BY DEF LoadBatch
  <1> USE DEF fileVars, versionVars, readVars
  <1>2. TriggersCompaction(manifest[current])' <=> TriggersCompaction(manifest[current])
    BY <1>1 DEF TriggersCompaction
  <1>3. CASE TriggersCompaction(manifest[current])
    <2>1. /\ captured' = manifest[current].l0 /\ cstep' = "merge"
          /\ UNCHANGED <<holder, cfile, cver, wpc>>
      BY <1>3 DEF LoadBatch
    <2>2. Serial'
      <3>1. wpc \in {"clear", "compact"}
        BY <1>3 DEF Serial, CountInv, VsTypeOK
      <3> QED
        BY <1>1, <1>2, <1>3, <2>1, <3>1 DEF Serial
    <2>3. Unborn' = Unborn
      BY <1>1, <2>1 DEF Unborn
    <2>4. Born' /\ OnDisk' /\ Numbered' /\ Purging' /\ Reading'
      BY <1>1, <2>1, <2>3 DEF Born, OnDisk, Numbered, Purging, Reading
    <2> QED
      BY <2>2, <2>4
  <1>4. CASE ~ TriggersCompaction(manifest[current])
    <2>1. cstep' = "load" /\ wpc' = IF holder = Worker THEN "idle" ELSE wpc
      BY <1>4 DEF LoadBatch, ReturnFromCompact
    <2>2. holder = Worker => wpc = "compact"
      BY DEF CountInv, Control
    <2>3. Serial'
      BY <1>1, <1>2, <1>4, <2>1, <2>2 DEF Serial
    <2>4. Unborn' = Unborn
      BY <1>1, <2>1, <2>2 DEF Unborn
    <2>5. Born' /\ OnDisk' /\ Numbered' /\ Purging' /\ Reading'
      BY <1>1, <2>1, <2>2, <2>4 DEF Born, OnDisk, Numbered, Purging, Reading
    <2> QED
      BY <2>3, <2>5
  <1> QED
    BY <1>3, <1>4

\* The merge writes a fresh L1 file and touches nothing else.
LEMMA MergeFile ==
  ASSUME CountInv, FileInv, CompactL0toL1
  PROVE  FileInv'
PROOF
  <1> USE DEF FileInv
  <1>1. /\ cstep = "merge" /\ cstep' = "reload"
        /\ nextL1 \in L1Id /\ cfile' = nextL1 /\ nextL1' = nextL1 + 1
        /\ disk' = disk \cup {nextL1}
        /\ UNCHANGED <<nextL0, versionVars, workerVars, captured, readVars>>
    BY DEF CompactL0toL1
  <1> USE DEF versionVars, workerVars, readVars
  <1>2. Serial'
    BY <1>1 DEF Serial, TriggersCompaction
  <1>3. Unborn' = Unborn
    <2>1. \A v \in L1Id : v >= nextL1 <=> v >= nextL1 + 1 \/ v = nextL1
      BY <1>1, ConstantsAssumption DEF L1Id
    <2> QED
      BY <1>1, <2>1 DEF Unborn
  <1>4. Born'
    BY <1>1, <1>3 DEF Born
  <1>5. OnDisk' /\ Purging' /\ Reading'
    BY <1>1 DEF OnDisk, Purging, Reading
  <1>6. Numbered'
    <2>1. nextL1 < nextL1 + 1
      BY <1>1, ConstantsAssumption DEF L1Id
    <2> QED
      BY <1>1, <2>1 DEF Numbered
  <1> QED
    BY <1>2, <1>4, <1>5, <1>6

\* Without faults no compaction fails: what it captured is still on disk.
LEMMA NoCompactionFails ==
  ASSUME FileInv, Faults = {}
  PROVE  ~ CompactionFails
PROOF
  BY DEF FileInv, Serial, OnDisk, CompactionFails

\* The compaction loads currentVersion again.
LEMMA ReloadFile ==
  ASSUME CountInv, FileInv, ReloadVersion
  PROVE  FileInv'
PROOF
  <1> USE DEF FileInv
  <1>1. /\ cstep = "reload" /\ cstep' = "install" /\ cver' = current
        /\ UNCHANGED <<fileVars, nextL0, nextL1, versionVars, workerVars,
                       captured, cfile, readVars>>
    BY DEF ReloadVersion
  <1> USE DEF fileVars, versionVars, workerVars, readVars
  <1>2. Serial'
    BY <1>1 DEF Serial, TriggersCompaction
  <1>3. Unborn' = Unborn
    BY <1>1 DEF Unborn
  <1>4. Born' /\ OnDisk' /\ Numbered' /\ Purging' /\ Reading'
    BY <1>1, <1>3 DEF Born, OnDisk, Numbered, Purging, Reading
  <1> QED
    BY <1>2, <1>4

\* The compacted Version is installed: it replaces the very Version the batch
\* was captured from, whose whole L0 slice goes to its purger.
LEMMA InstallFile ==
  ASSUME CountInv, FileInv, InstallCompacted
  PROVE  FileInv'
PROOF
  <1> USE DEF FileInv
  <1> DEFINE S == manifest[current].l0
             m == Compacted(manifest[current], S, cfile)
  <1>1. /\ cstep = "install" /\ cstep' = "load"
        /\ cver = current /\ captured = S /\ current \in VersionId
        /\ cfile \in L1Id /\ cfile \in VersionId /\ cfile \in disk
        /\ wpc \in {"clear", "compact"} /\ wpc' \in {"idle", wpc}
        /\ current' = cfile
        /\ UNCHANGED <<fileVars, nextL0, nextL1, refs, wfile, wver, readVars>>
    BY DEF InstallCompacted, ReturnFromCompact, Serial, OnDisk, CountInv, Control,
       VsTypeOK, VersionId, FileId
  <1> USE DEF fileVars, readVars
  <1>2. cfile \in Unborn /\ cfile # current
    BY <1>1 DEF Unborn, Born
  <1>3. /\ manifest'[cfile] = m
        /\ \A v \in VersionId : v # cfile => manifest'[v] = manifest[v]
        /\ m.l0 = {} /\ m.l1 = manifest[current].l1 \cup {cfile}
    BY <1>1 DEF InstallCompacted, CountInv, VsTypeOK, Compacted
  <1>4. /\ obsolete'[current] = S
        /\ \A v \in VersionId : v # current => obsolete'[v] = obsolete[v]
    BY <1>1 DEF InstallCompacted, OldVersion, CountInv, VsTypeOK
  <1>5. /\ obsolete[current] = {}
        /\ \A v \in Unborn : obsolete[v] = {} /\ refs[v] >= 0
        /\ \A r \in Readers : rver[r] \notin Unborn
        /\ current \notin Unborn
    BY DEF Born
  <1>6. S \subseteq L0Id
    BY <1>1 DEF CountInv, VsTypeOK, VsManifest
  <1> HIDE DEF m, S
  <1>7. Serial'
    <2>1. ~ TriggersCompaction(manifest'[current'])
      BY <1>1, <1>3, EmptyL0DoesNotTrigger
    <2>2. ~ TriggersCompaction(manifest[current])'
      BY <2>1 DEF TriggersCompaction
    <2> QED
      BY <1>1, <1>3, <2>2 DEF Serial
  <1>8. Unborn' = Unborn \ {cfile}
    <2>1. cfile \notin L0Id /\ wpc \notin {"load", "store"} /\ wpc' \notin {"load", "store"}
      BY <1>1, FileIds
    <2>2. ~ (cfile >= nextL1)
      BY <1>1, ConstantsAssumption DEF Numbered, L1Id, CountInv, VsTypeOK
    <2> QED
      BY <1>1, <2>1, <2>2 DEF Unborn
  <1>9. Born'
    <2>1. Unborn \subseteq VersionId
      BY DEF Unborn, VersionId, FileId
    <2>2. \A v \in Unborn' \cup {cfile} : v \in VersionId /\ v # current /\ v \in Unborn
      BY <1>2, <1>5, <1>8, <2>1
    <2>3. \A v \in Unborn' \cup {cfile} : obsolete'[v] = {} /\ refs[v] >= 0
      BY <1>4, <1>5, <2>2
    <2> QED
      BY <1>1, <1>5, <1>8, <2>3 DEF Born
  <1>10. OnDisk'
    BY <1>1, <1>3 DEF OnDisk
  <1>11. Numbered'
    BY <1>1, <1>3, <1>4 DEF Numbered, S
  <1>12. Purging'
    <2>1. \A v \in VersionId : obsolete[v] \cap S = {}
      BY DEF Purging, S
    <2>2. \A u, v \in VersionId : u # v => obsolete'[u] \cap obsolete'[v] = {}
      BY <1>4, <2>1 DEF Purging
    <2>3. \A v \in VersionId : obsolete'[v] # {} => v # cfile
      BY <1>2, <1>4, <1>5
    <2>4. obsolete'[current] = manifest'[current].l0 /\ obsolete'[current] \subseteq disk
      BY <1>1, <1>2, <1>3, <1>4 DEF OnDisk, S
    <2>5. \A v \in VersionId : obsolete'[v] # {} /\ refs[v] >= 0 =>
            obsolete'[v] = manifest'[v].l0 /\ obsolete'[v] \subseteq disk
      BY <1>3, <1>4, <2>3, <2>4 DEF Purging
    <2> QED
      BY <1>1, <1>3, <2>2, <2>5 DEF Purging
  <1>13. Reading'
    <2>1. \A r \in Readers : rver[r] \in VersionId /\ rver[r] # cfile
      BY <1>2, <1>5 DEF CountInv, VsTypeOK
    <2> QED
      BY <1>1, <1>3, <2>1 DEF Reading
  <1> QED
    BY <1>7, <1>9, <1>10, <1>11, <1>12, <1>13
-----------------------------------------------------------------------------
(* PurgeObsoleteFiles.                                                     *)

\* A purger claims a published Version that is not current.
LEMMA ClaimFile ==
  ASSUME CountInv, FileInv, NEW v \in VersionId, PurgeClaim(v)
  PROVE  FileInv'
PROOF
  <1> USE DEF FileInv
  <1>1. /\ obsolete[v] # {} /\ refs' = [refs EXCEPT ![v] = -1]
        /\ UNCHANGED <<fileVars, nextL0, nextL1, manifest, current, obsolete,
                       workerVars, compactVars, readVars>>
    BY DEF PurgeClaim
  <1> USE DEF fileVars, workerVars, compactVars, readVars
  <1>2. /\ refs'[v] = -1
        /\ \A u : u \in VersionId /\ u # v => refs'[u] = refs[u]
    BY <1>1 DEF CountInv, VsTypeOK
  <1>3. Unborn' = Unborn
    BY <1>1 DEF Unborn
  <1>4. Born'
    <2>1. \A u \in Unborn \cup {current} : u \in VersionId /\ u # v
      BY <1>1 DEF Born, Unborn, VersionId, FileId, CountInv, VsTypeOK
    <2> QED
      BY <1>1, <1>2, <1>3, <2>1 DEF Born
  <1>5. Serial' /\ OnDisk' /\ Numbered' /\ Reading'
    BY <1>1 DEF Serial, TriggersCompaction, OnDisk, Numbered, Reading
  <1>6. Purging'
    <2>1. \A u \in VersionId : refs'[u] >= 0 => refs[u] >= 0
      BY <1>2
    <2> QED
      BY <1>1, <2>1 DEF Purging
  <1> QED
    BY <1>4, <1>5, <1>6

\* It unlinks an L0 file that nothing but claimed Versions lists.
LEMMA RemoveFile ==
  ASSUME CountInv, FileInv, NEW v \in VersionId, PurgeRemove(v), Faults = {}
  PROVE  FileInv'
PROOF
  <1> USE DEF FileInv
  <1>1. obsolete[v] # {} /\ obsolete[v] \in SUBSET L0Id /\ obsolete[v] \in SUBSET Nat
    BY ConstantsAssumption DEF PurgeRemove, CountInv, VsTypeOK, L0Id
  <1>2. PICK f \in obsolete[v] : f = Oldest(obsolete[v])
    BY <1>1, OldestIsMember
  <1>3. /\ refs[v] < 0
        /\ disk' = disk \ {f}
        /\ obsolete' = [obsolete EXCEPT ![v] = obsolete[v] \ {f}]
        /\ UNCHANGED <<nextL0, nextL1, manifest, refs, current, workerVars,
                       compactVars, readVars>>
    BY <1>2 DEF PurgeRemove, CountInv, VsTypeOK
  <1> USE DEF workerVars, compactVars, readVars
  <1>4. /\ obsolete'[v] = obsolete[v] \ {f}
        /\ \A u \in VersionId : u # v => obsolete'[u] = obsolete[u]
        /\ \A u \in VersionId : obsolete'[u] \subseteq obsolete[u]
    BY <1>3 DEF CountInv, VsTypeOK
  <1>5. f \in L0Id /\ f \notin L1Id
    BY <1>1, FileIds
  <1>6. Unborn' = Unborn
    BY <1>3 DEF Unborn
  <1>7. Born'
    <2>1. \A u \in Unborn \cup {current} : u \in VersionId
      BY DEF Unborn, VersionId, FileId, CountInv, VsTypeOK
    <2> QED
      BY <1>3, <1>4, <1>6, <2>1 DEF Born
  <1>8. OnDisk'
    <2>1. f \notin manifest[current].l0
      BY DEF Purging
    <2>2. \A u \in VersionId : manifest[u].l1 \subseteq L1Id
      BY DEF CountInv, VsTypeOK, VsManifest
    <2>3. wpc \in {"load", "store"} => f # wfile
      BY DEF Purging
    <2>4. cstep \in {"reload", "install"} => f # cfile
      BY <1>5 DEF CountInv, Control
    <2> QED
      BY <1>3, <1>5, <2>1, <2>2, <2>3, <2>4 DEF OnDisk
  <1>9. Numbered'
    BY <1>3, <1>4 DEF Numbered
  <1>10. Purging'
    <2>1. \A u, w \in VersionId : u # w => obsolete'[u] \cap obsolete'[w] = {}
      BY <1>4 DEF Purging
    <2>2. \A u \in VersionId : obsolete'[u] # {} /\ refs[u] >= 0 =>
            obsolete'[u] = manifest[u].l0 /\ obsolete'[u] \subseteq disk \ {f}
      <3> SUFFICES ASSUME NEW u \in VersionId, obsolete'[u] # {}, refs[u] >= 0
                   PROVE  obsolete'[u] = manifest[u].l0 /\ obsolete'[u] \subseteq disk \ {f}
        OBVIOUS
      <3>1. u # v
        BY <1>3 DEF CountInv, VsTypeOK
      <3>2. obsolete'[u] = obsolete[u] /\ f \notin obsolete[u]
        BY <1>4, <3>1 DEF Purging
      <3> QED
        BY <3>2 DEF Purging
    <2> QED
      BY <1>3, <1>4, <2>1, <2>2 DEF Purging
  <1>11. Serial' /\ Reading'
    BY <1>3 DEF Serial, TriggersCompaction, Reading
  <1> QED
    BY <1>7, <1>8, <1>9, <1>10, <1>11

-----------------------------------------------------------------------------
(* Get and Scan.                                                           *)

\* A read uses published Versions only, and searches files of the one it holds.
LEMMA ReadFile ==
  ASSUME CountInv, FileInv, NEW r \in Readers, StartRead(r) \/ ReadStep(r)
  PROVE  FileInv'
PROOF
  <1> USE DEF FileInv
  <1>1. UNCHANGED <<fileVars, nextL0, nextL1, manifest, current, obsolete,
                    workerVars, compactVars>>
    BY DEF StartRead, ReadStep, LoadCurrent, Acquire, ReadSSTable, Release, versionVars
  <1> USE DEF fileVars, workerVars, compactVars
  <1>2. Unborn' = Unborn
    BY <1>1 DEF Unborn
  <1>3. Serial' /\ OnDisk' /\ Numbered'
    BY <1>1 DEF Serial, TriggersCompaction, OnDisk, Numbered
  <1>4. \A v \in VersionId : /\ refs'[v] >= 0 => refs[v] >= 0
                             /\ refs[v] >= 0 => refs'[v] >= 0
    <2>1. CASE Acquire(r) /\ ~ MarkedForPurge(rver[r])
      BY <2>1 DEF Acquire, MarkedForPurge, CountInv, VsTypeOK
    <2>2. CASE Release(r)
      <3>1. refs[rver[r]] >= 1
        BY <2>2, ReleasedWasHeld DEF Release
      <3> QED
        BY <2>2, <3>1 DEF Release, Released, CountInv, VsTypeOK
    <2>3. CASE refs' = refs
      BY <2>3
    <2> QED
      BY <2>1, <2>2, <2>3 DEF StartRead, ReadStep, LoadCurrent, Acquire,
         ReadSSTable, versionVars
  <1>5. \A q \in Readers : rver'[q] \notin Unborn
    <2>1. 0 \notin Unborn
      BY FileIds DEF Unborn, FileId
    <2>2. CASE rver' = rver
      BY <2>2 DEF Born
    <2>3. CASE LoadCurrent(r) \/ Release(r)
      BY <2>1, <2>3 DEF LoadCurrent, Release, Born, CountInv, VsTypeOK
    <2> QED
      BY <2>2, <2>3 DEF StartRead, BeginRead, ReadStep, Acquire, ReadSSTable
  <1>6. Born'
    <2>1. \A u \in Unborn \cup {current} : u \in VersionId
      BY DEF Unborn, VersionId, FileId, CountInv, VsTypeOK
    <2> QED
      BY <1>1, <1>2, <1>4, <1>5, <2>1 DEF Born
  <1>7. Purging'
    BY <1>1, <1>4 DEF Purging
  <1>8. Reading'
    <2> SUFFICES ASSUME NEW q \in Readers, rpc'[q] = "search"
                 PROVE  left'[q] \subseteq FilesOf(manifest[rver'[q]])
      BY <1>1 DEF Reading, FilesOf
    <2>1. CASE q # r
      <3>1. rpc'[q] = rpc[q] /\ rver'[q] = rver[q] /\ left'[q] = left[q]
        BY <2>1 DEF StartRead, BeginRead, ReadStep, LoadCurrent, Acquire,
           ReadSSTable, Release, CountInv, VsTypeOK
      <3> QED
        BY <3>1 DEF Reading
    <2>2. CASE q = r
      <3>1. CASE Acquire(r)
        BY <2>2, <3>1 DEF Acquire, CountInv, VsTypeOK
      <3>2. CASE ReadSSTable(r)
        <4>1. rpc[r] = "search" /\ rver' = rver
          BY <3>2 DEF ReadSSTable
        <4>2. left'[r] \subseteq left[r]
          BY <3>2 DEF ReadSSTable, CountInv, VsTypeOK
        <4> QED
          BY <2>2, <4>1, <4>2 DEF Reading
      <3>3. CASE StartRead(r) \/ LoadCurrent(r) \/ Release(r)
        BY <2>2, <3>3 DEF StartRead, BeginRead, LoadCurrent, Release, CountInv, VsTypeOK
      <3> QED
        BY <3>1, <3>2, <3>3 DEF ReadStep
    <2> QED
      BY <2>1, <2>2
  <1> QED
    BY <1>3, <1>6, <1>7, <1>8
-----------------------------------------------------------------------------
(* The theorems.                                                           *)

\* Every step keeps the invariant when SSTable writes succeed.
LEMMA NextFiles ==
  ASSUME Faults = {}
  PROVE  CountInv /\ FileInv /\ [VsNext]_vsVars => FileInv'
PROOF
  <1> SUFFICES ASSUME CountInv, FileInv, [VsNext]_vsVars PROVE FileInv'
    OBVIOUS
  <1>1. CASE \E t \in Tables : FlushMemTable(t)
    BY <1>1, FlushFile
  <1>2. CASE WorkerStep
    BY <1>2, LoadFile, StoreFile, ClearFile DEF WorkerStep
  <1>3. CASE \E c \in Compactors : LockCompaction(c)
    <2>1. UNCHANGED <<fileVars, nextL0, nextL1, versionVars, workerVars, cstep,
                      captured, cfile, cver, readVars>>
      BY <1>3 DEF LockCompaction
    <2> QED
      BY <2>1 DEF FileInv, Serial, TriggersCompaction, Born, Unborn, OnDisk,
         Numbered, Purging, Reading, FilesOf, fileVars, versionVars, workerVars,
         readVars
  <1>4. CASE HolderStep
    BY <1>4, BatchFile, MergeFile, NoCompactionFails, ReloadFile, InstallFile
    DEF HolderStep
  <1>5. CASE \E v \in VersionId : PurgeStep(v)
    BY <1>5, ClaimFile, RemoveFile DEF PurgeStep
  <1>6. CASE \E r \in Readers : StartRead(r) \/ ReadStep(r)
    BY <1>6, ReadFile
  <1>7. CASE UNCHANGED vsVars
    BY <1>7 DEF FileInv, Serial, TriggersCompaction, Born, Unborn, OnDisk,
       Numbered, Purging, Reading, FilesOf, vsVars, fileVars, versionVars,
       workerVars, compactVars, readVars
  <1> QED
    BY <1>1, <1>2, <1>3, <1>4, <1>5, <1>6, <1>7 DEF VsNext

\* Where the files are, and who may unlink them, in every reachable state.
THEOREM FilesInvariant ==
  ASSUME Faults = {}
  PROVE  VsSpec => [](CountInv /\ FileInv)
PROOF
  <1>1. VsInit => CountInv /\ FileInv
    BY InitCount, InitFile
  <1>2. CountInv /\ FileInv /\ [VsNext]_vsVars => (CountInv /\ FileInv)'
    BY NextCount, NextFiles
  <1> QED
    BY <1>1, <1>2, PTL DEF VsSpec

\* currentVersion never lists a file that a purger has unlinked: a flush or a
\* TriggerCompaction that runs beside the worker's compaction cannot bring a
\* purged file back into the manifest (db.go:405-431, db.go:448-461).
THEOREM CurrentStaysIntact ==
  ASSUME Faults = {}
  PROVE  VsSpec => []CurrentIntact
PROOF
  <1>1. CountInv /\ FileInv => CurrentIntact
    BY DEF CountInv, VsTypeOK, FileInv, OnDisk, CurrentIntact, FilesOf
  <1> QED
    BY FilesInvariant, <1>1, PTL

\* No purger ever claims currentVersion, so Acquire on it succeeds
\* (version.go:29, db.go:165-170).
THEOREM CurrentNeverPurged ==
  ASSUME Faults = {}
  PROVE  VsSpec => []CurrentNotPurged
PROOF
  <1>1. CountInv /\ FileInv => CurrentNotPurged
    BY DEF FileInv, Born, CurrentNotPurged
  <1> QED
    BY FilesInvariant, <1>1, PTL

\* A read that holds currentVersion, or the Version a purger waits on, finds
\* every file it has left to search (compactor.go:165-175).
THEOREM HeldStaysIntact ==
  ASSUME Faults = {}
  PROVE  VsSpec => []HeldIntact
PROOF
  <1>1. ASSUME CountInv, FileInv PROVE HeldIntact
    <2> SUFFICES ASSUME NEW r \in Readers, rpc[r] = "search",
                        rver[r] = current \/ obsolete[rver[r]] # {}
                 PROVE  left[r] \subseteq disk
      BY DEF HeldIntact
    <2>1. rver[r] \in VersionId /\ refs[rver[r]] \in Int
      BY <1>1 DEF CountInv, VsTypeOK
    <2>2. left[r] \subseteq manifest[rver[r]].l0 \cup manifest[rver[r]].l1
      BY <1>1 DEF FileInv, Reading, FilesOf
    <2>3. refs[rver[r]] >= 0
      BY <1>1, <2>1, ReleasedWasHeld
    <2>4. manifest[rver[r]].l0 \subseteq disk
      BY <1>1, <2>1, <2>3 DEF FileInv, OnDisk, Purging
    <2> QED
      BY <1>1, <2>1, <2>2, <2>4 DEF FileInv, OnDisk
  <1>2. CountInv /\ FileInv => HeldIntact
    BY <1>1
  <1> QED
    BY FilesInvariant, <1>2, PTL

\* A read never searches more than compactionThreshold L0 files, however many
\* flushes and manual compactions there have been (db.go:391, db.go:468-471).
THEOREM L0StaysBounded ==
  ASSUME Faults = {}
  PROVE  VsSpec => []L0Bounded
PROOF
  <1>1. VsInit => L0Bounded
    <2> SUFFICES ASSUME VsInit PROVE L0Bounded
      OBVIOUS
    <2>1. manifest[current].l0 = {}
      BY DEF VsInit, VersionId
    <2> QED
      BY <2>1, FS_EmptySet, ConstantsAssumption DEF L0Bounded
  <1>2. ASSUME CountInv, FileInv, L0Bounded, [VsNext]_vsVars
        PROVE  L0Bounded'
    <2>1. CASE StoreVersion
      <3>1. /\ manifest[current].l0 \subseteq L0Id /\ IsFiniteSet(L0Id)
            /\ ~ TriggersCompaction(manifest[current])
        <4>1. IsFiniteSet(L0Id)
          BY FS_Interval, ConstantsAssumption DEF L0Id
        <4>2. manifest[current].l0 \subseteq L0Id
          BY <1>2 DEF CountInv, VsTypeOK, VsManifest
        <4>3. ~ TriggersCompaction(manifest[current])
          BY <1>2, <2>1 DEF FileInv, Serial, StoreVersion
        <4> QED
          BY <4>1, <4>2, <4>3
      <3>2. /\ IsFiniteSet(manifest[current].l0)
            /\ Cardinality(manifest[current].l0) \in Nat
            /\ Cardinality(manifest[current].l0) + 1 <= CompactionThreshold
        BY <3>1, FS_Subset, FS_CardinalityType, ConstantsAssumption
        DEF TriggersCompaction
      <3>3. manifest'[current'].l0 = manifest[current].l0 \cup {wfile}
        BY <1>2, <2>1 DEF StoreVersion, Flushed, CountInv, VsTypeOK, Control,
           VersionId, FileId, FileInv, Serial
      <3>4. Cardinality(manifest[current].l0 \cup {wfile})
              <= Cardinality(manifest[current].l0) + 1
        BY <3>2, FS_AddElement
      <3>5. Cardinality(manifest[current].l0 \cup {wfile}) \in Nat
        BY <3>2, FS_AddElement, FS_CardinalityType
      <3> QED
        BY <3>2, <3>3, <3>4, <3>5, ConstantsAssumption DEF L0Bounded
    <2>2. CASE InstallCompacted
      <3>1. manifest'[current'].l0 = {}
        BY <1>2, <2>2 DEF InstallCompacted, Compacted, CountInv, VsTypeOK, Control,
           VersionId, FileId, FileInv, Serial
      <3> QED
        BY <3>1, FS_EmptySet, ConstantsAssumption DEF L0Bounded
    <2>3. CASE manifest' = manifest /\ current' = current
      BY <1>2, <2>3 DEF L0Bounded
    <2> QED
      BY <1>2, <2>1, <2>2, <2>3
      DEF VsNext, vsVars, versionVars, FlushMemTable, WorkerStep, LoadVersion,
          AfterClear, LockCompaction, HolderStep, LoadBatch, CompactL0toL1,
          CompactionFails, ReloadVersion, PurgeStep, PurgeClaim, PurgeRemove,
          StartRead, ReadStep, LoadCurrent, Acquire, ReadSSTable, Release
  <1>3. CountInv /\ FileInv /\ L0Bounded /\ [VsNext]_vsVars => L0Bounded'
    BY <1>2
  <1> QED
    BY FilesInvariant, <1>1, <1>3, PTL DEF VsSpec

-----------------------------------------------------------------------------
(***************************************************************************)
(* Proofs about what the manifest and the reads answer: a read returns one *)
(* snapshot (with or without disk faults), and currentVersion answers      *)
(* every key with the newest entry published for it (without them).        *)
(***************************************************************************)

-----------------------------------------------------------------------------
(* The inductive invariants.                                               *)

\* currentVersion and the Versions that reads use have been published, and a
\* manifest lists only files that have been written: neither a manifest swap
\* nor a file write changes what a Version in use stands for.
VersionsFixed ==
  /\ current \notin Unborn
  /\ \A r \in Readers : rver[r] \notin Unborn
  /\ \A v \in VersionId : \A f \in manifest[v].l0 : f < nextL0
  /\ \A v \in VersionId : \A f \in manifest[v].l1 : f < nextL1
  /\ wpc \in {"load", "store"} => wfile < nextL0
  /\ cstep \in {"reload", "install"} => cfile < nextL1

\* Files of its Version that the read of r has left behind.
Searched(r) == FilesOf(manifest[rver[r]]) \ left[r]

\* A read that is searching.  No file it has left behind holds a key it still
\* wants; a key it has found has the answer of its Version; a Get wants at most
\* one key, so that nothing is left to want when it stops at its first hit.
Snapshot(r) ==
  /\ left[r] \subseteq FilesOf(manifest[rver[r]])
  /\ ~ err[r] =>
       \A k \in want[r] : got[r][k] = Absent /\ Holding(Searched(r), k) = {}
  /\ \A k \in Keys :
       got[r][k] # Absent => got[r][k] = Answer(manifest[rver[r]], k)

Snapshots ==
  \A r \in Readers :
    /\ rpc[r] = "search" => Snapshot(r)
    /\ rpc[r] # "search" => got[r] = NoTable /\ err[r] = FALSE
    /\ ~ scan[r] => \A j, k \in want[r] : j = k
    /\ err[r] => left[r] = {}

SnapInv == VersionsFixed /\ Snapshots

\* The file to be published is newer than all of its level; a merge holds what
\* Merge makes of the files it captured.
Fresh ==
  /\ wpc \in {"load", "store"} =>
       wfile = nextL0 - 1 /\ \A f \in manifest[current].l0 : f < wfile
  /\ cstep \in {"reload", "install"} =>
       /\ \A f \in manifest[current].l1 : f < cfile
       /\ data[cfile] = Merge(captured)

\* ManifestComplete for the keys that Merge keeps.
Complete ==
  \A k \in Keys \ {EmptyKey} : Answer(manifest[current], k) = NewestPublished(k)

CompleteInv == Fresh /\ Complete
-----------------------------------------------------------------------------
(* Facts used by several steps.                                            *)

\* A member of a bounded set that no other exceeds is its newest.
LEMMA NewestUnique ==
  ASSUME NEW n \in Nat, NEW S \in SUBSET (0 .. n), NEW f \in S,
         \A g \in S : g <= f
  PROVE  Newest(S) = f
PROOF
  <1>1. PICK h \in S : h = Newest(S) /\ \A g \in S : g <= h
    BY NewestIsMember
  <1>2. f <= h /\ h <= f /\ f \in 0 .. n /\ h \in 0 .. n
    BY <1>1
  <1>3. f = h
    BY <1>2
  <1> QED
    BY <1>1, <1>3

\* The newest of some files is one of them, and no other is newer.
LEMMA NewestOfFiles ==
  ASSUME NEW S \in SUBSET FileId
  PROVE  /\ S # {} => Newest(S) \in S /\ \A g \in S : g <= Newest(S)
         /\ \A f \in S : (\A g \in S : g <= f) => Newest(S) = f
PROOF
  <1> DEFINE n == 2 * MaxFlushes
  <1>1. n \in Nat /\ S \in SUBSET (0 .. n)
    BY FileIds, ConstantsAssumption
  <1> HIDE DEF n
  <1>2. S # {} => Newest(S) \in S /\ \A g \in S : g <= Newest(S)
    BY <1>1, NewestIsMember
  <1>3. \A f \in S : (\A g \in S : g <= f) => Newest(S) = f
    BY <1>1, NewestUnique
  <1> QED
    BY <1>2, <1>3

\* The files of a manifest, by level.
LEMMA ListedFiles ==
  ASSUME CountInv, NEW v \in VersionId
  PROVE  /\ manifest[v].l0 \subseteq L0Id
         /\ manifest[v].l1 \subseteq L1Id
         /\ FilesOf(manifest[v]) = manifest[v].l0 \cup manifest[v].l1
         /\ FilesOf(manifest[v]) \subseteq FileId
PROOF
  BY DEF CountInv, VsTypeOK, VsManifest, FilesOf, FileId

\* Files and Versions are numbered by integers.
LEMMA Numbers ==
  /\ L0Id \subseteq Int /\ L1Id \subseteq Int
  /\ CountInv => nextL0 \in Int /\ nextL1 \in Int
PROOF
  BY ConstantsAssumption DEF L0Id, L1Id, CountInv, VsTypeOK

-----------------------------------------------------------------------------
(* A Version in use never changes.                                         *)

\* The invariant in the initial state.
LEMMA InitSnap == VsInit => SnapInv
PROOF
  <1> SUFFICES ASSUME VsInit PROVE SnapInv
    OBVIOUS
  <1>1. 0 \in VersionId /\ 0 \notin L0Id \cup L1Id
    BY FileIds DEF VersionId, FileId
  <1>2. VersionsFixed
    BY <1>1 DEF VsInit, VersionsFixed, Unborn
  <1>3. Snapshots
    BY DEF VsInit, Snapshots
  <1> QED
    BY <1>2, <1>3 DEF SnapInv

\* Flush and compaction: what they number and publish.
LEMMA SettledWriter ==
  ASSUME CountInv, VersionsFixed, CountInv',
         \/ \E t \in Tables : FlushMemTable(t)
         \/ WorkerStep \/ HolderStep
  PROVE  VersionsFixed'
PROOF
  <1>0. rver' = rver
    BY DEF WorkerStep, FlushMemTable, LoadVersion, StoreVersion, AfterClear,
       HolderStep, LoadBatch, CompactL0toL1, CompactionFails, ReloadVersion,
       InstallCompacted, readVars
  <1>1. CASE \E t \in Tables : FlushMemTable(t)
    <2>1. /\ wpc = "idle" /\ wpc' = "load" /\ nextL0 \in L0Id
          /\ wfile' = nextL0 /\ nextL0' = nextL0 + 1
          /\ UNCHANGED <<nextL1, manifest, current, cstep, cfile>>
      BY <1>1 DEF FlushMemTable, versionVars, compactVars
    <2>2. \A v \in L0Id : v >= nextL0 <=> v >= nextL0 + 1 \/ v = nextL0
      BY Numbers
    <2>3. Unborn' = Unborn
      BY <2>1, <2>2 DEF Unborn
    <2>4. \A v \in VersionId : \A f \in manifest[v].l0 : f < nextL0 + 1
      <3> SUFFICES ASSUME NEW v \in VersionId, NEW f \in manifest[v].l0
                   PROVE  f < nextL0 + 1
        OBVIOUS
      <3>1. f \in Int /\ nextL0 \in Int
        BY Numbers, ListedFiles
      <3>2. f < nextL0
        BY DEF VersionsFixed
      <3> QED
        BY <3>1, <3>2
    <2> QED
      BY <1>0, <2>1, <2>3, <2>4, Numbers DEF VersionsFixed
  <1>2. CASE LoadVersion
    <2>1. /\ wpc = "load" /\ wpc' = "store"
          /\ UNCHANGED <<wfile, nextL0, nextL1, manifest, current, cstep, cfile>>
      BY <1>2 DEF LoadVersion, versionVars, compactVars
    <2> QED
      BY <1>0, <2>1 DEF VersionsFixed, Unborn
  <1>3. CASE StoreVersion
    <2>1. /\ wpc = "store" /\ wpc' = "clear" /\ wfile \in L0Id
          /\ manifest' = [manifest EXCEPT ![wfile] = Flushed(manifest[wver], wfile)]
          /\ current' = wfile /\ wver \in VersionId
          /\ UNCHANGED <<wfile, nextL0, nextL1, cstep, cfile>>
      BY <1>3 DEF StoreVersion, compactVars, CountInv, Control, VsTypeOK
    <2>2. Unborn' = Unborn \ {wfile}
      BY <2>1, FileIds, Numbers DEF Unborn, VersionsFixed
    <2>3. wfile < nextL0
      BY <2>1 DEF VersionsFixed
    <2>4. manifest \in [VersionId -> VsManifest]
      BY DEF CountInv, VsTypeOK
    <2>5. \A v \in VersionId :
            manifest'[v] = IF v = wfile THEN Flushed(manifest[wver], wfile)
                                        ELSE manifest[v]
      BY <2>1, <2>4
    <2>6. \A v \in VersionId : \A f \in manifest'[v].l0 : f < nextL0
      BY <2>1, <2>3, <2>5 DEF VersionsFixed, Flushed
    <2>7. \A v \in VersionId : \A f \in manifest'[v].l1 : f < nextL1
      BY <2>1, <2>5 DEF VersionsFixed, Flushed
    <2> QED
      BY <1>0, <2>1, <2>2, <2>6, <2>7 DEF VersionsFixed
  <1>4. CASE AfterClear
    <2>1. /\ wpc = "clear" /\ wpc' \in {"compact", "idle"}
          /\ UNCHANGED <<wfile, nextL0, nextL1, manifest, current, cstep, cfile>>
      BY <1>4 DEF AfterClear, versionVars, compactVars
    <2> QED
      BY <1>0, <2>1 DEF VersionsFixed, Unborn
  <1>5. CASE LoadBatch \/ CompactionFails
    <2>1. /\ cstep \in {"load", "merge"} /\ cstep' \in {"load", "merge"}
          /\ UNCHANGED <<wfile, nextL0, nextL1, manifest, current>>
          /\ wpc' = wpc \/ (wpc' = "idle" /\ holder = Worker)
      BY <1>5 DEF LoadBatch, CompactionFails, ReturnFromCompact, versionVars
    <2>2. wpc' = wpc \/ (wpc' = "idle" /\ wpc = "compact")
      BY <2>1 DEF CountInv, Control
    <2> QED
      BY <1>0, <2>1, <2>2 DEF VersionsFixed, Unborn
  <1>6. CASE CompactL0toL1
    <2>1. /\ cstep = "merge" /\ cstep' = "reload" /\ nextL1 \in L1Id
          /\ cfile' = nextL1 /\ nextL1' = nextL1 + 1
          /\ UNCHANGED <<nextL0, manifest, current, wpc, wfile>>
      BY <1>6 DEF CompactL0toL1, versionVars, workerVars
    <2>2. \A v \in L1Id : v >= nextL1 <=> v >= nextL1 + 1 \/ v = nextL1
      BY Numbers
    <2>3. Unborn' = Unborn
      BY <2>1, <2>2 DEF Unborn
    <2>4. \A v \in VersionId : \A f \in manifest[v].l1 : f < nextL1 + 1
      <3> SUFFICES ASSUME NEW v \in VersionId, NEW f \in manifest[v].l1
                   PROVE  f < nextL1 + 1
        OBVIOUS
      <3>1. f \in Int /\ nextL1 \in Int
        BY Numbers, ListedFiles
      <3>2. f < nextL1
        BY DEF VersionsFixed
      <3> QED
        BY <3>1, <3>2
    <2> QED
      BY <1>0, <2>1, <2>3, <2>4, Numbers DEF VersionsFixed
  <1>7. CASE ReloadVersion
    <2>1. /\ cstep = "reload" /\ cstep' = "install"
          /\ UNCHANGED <<wfile, wpc, nextL0, nextL1, manifest, current, cfile>>
      BY <1>7 DEF ReloadVersion, versionVars, workerVars
    <2> QED
      BY <1>0, <2>1 DEF VersionsFixed, Unborn
  <1>8. CASE InstallCompacted
    <2>1. /\ cstep = "install" /\ cstep' = "load" /\ cfile \in L1Id
          /\ manifest' = [manifest EXCEPT
                            ![cfile] = Compacted(manifest[cver], captured, cfile)]
          /\ current' = cfile /\ cver \in VersionId
          /\ UNCHANGED <<wfile, nextL0, nextL1>>
          /\ wpc' = wpc \/ (wpc' = "idle" /\ wpc = "compact")
      BY <1>8 DEF InstallCompacted, ReturnFromCompact, CountInv, Control, VsTypeOK
    <2>2. Unborn' = Unborn \ {cfile}
      BY <2>1, FileIds, Numbers DEF Unborn, VersionsFixed
    <2>3. cfile < nextL1
      BY <2>1 DEF VersionsFixed
    <2>4. manifest \in [VersionId -> VsManifest]
      BY DEF CountInv, VsTypeOK
    <2>5. \A v \in VersionId :
            manifest'[v] = IF v = cfile
                           THEN Compacted(manifest[cver], captured, cfile)
                           ELSE manifest[v]
      BY <2>1, <2>4
    <2>6. \A v \in VersionId : \A f \in manifest'[v].l0 : f < nextL0
      BY <2>1, <2>5 DEF VersionsFixed, Compacted
    <2>7. \A v \in VersionId : \A f \in manifest'[v].l1 : f < nextL1
      BY <2>1, <2>3, <2>5 DEF VersionsFixed, Compacted
    <2> QED
      BY <1>0, <2>1, <2>2, <2>6, <2>7 DEF VersionsFixed
  <1> QED
    BY <1>1, <1>2, <1>3, <1>4, <1>5, <1>6, <1>7, <1>8 DEF WorkerStep, HolderStep

\* A step that changes no number, file or manifest.
LEMMA SettledOther ==
  ASSUME CountInv, VersionsFixed,
         UNCHANGED <<data, nextL0, nextL1, manifest, current, wpc, wfile, cstep,
                     cfile>>,
         \A r \in Readers : rver'[r] \in {rver[r], current, 0}
  PROVE  VersionsFixed'
PROOF
  <1>1. Unborn' = Unborn
    BY DEF Unborn
  <1>2. 0 \notin Unborn
    BY FileIds DEF Unborn, FileId
  <1>3. \A r \in Readers : rver'[r] \notin Unborn
    BY <1>2 DEF VersionsFixed
  <1> QED
    BY <1>1, <1>3 DEF VersionsFixed

\* Only Versions still unborn, and files no Version lists yet, are written.
LEMMA Frozen ==
  ASSUME CountInv, VersionsFixed,
         \/ \E t \in Tables : FlushMemTable(t)
         \/ WorkerStep \/ HolderStep,
         NEW v \in VersionId, v \notin Unborn
  PROVE  /\ manifest'[v] = manifest[v]
         /\ \A f \in FilesOf(manifest[v]) : data'[f] = data[f]
PROOF
  <1>0. /\ manifest \in [VersionId -> VsManifest]
        /\ data \in [FileId -> Table]
    BY DEF CountInv, VsTypeOK
  <1>1. CASE \E t \in Tables : FlushMemTable(t)
    <2>1. /\ manifest' = manifest /\ nextL0 \in L0Id
          /\ \E t \in Tables : data' = [data EXCEPT ![nextL0] = t]
      BY <1>1 DEF FlushMemTable, versionVars
    <2>2. nextL0 \notin FilesOf(manifest[v])
      BY <2>1, ListedFiles, FileIds, Numbers DEF VersionsFixed
    <2> QED
      BY <1>0, <2>1, <2>2, ListedFiles
  <1>2. CASE LoadVersion \/ AfterClear \/ LoadBatch \/ CompactionFails
             \/ ReloadVersion
    BY <1>2 DEF LoadVersion, AfterClear, LoadBatch, CompactionFails,
       ReloadVersion, fileVars, versionVars
  <1>3. CASE StoreVersion
    <2>1. /\ data' = data /\ wpc = "store" /\ wfile \in L0Id
          /\ manifest' = [manifest EXCEPT ![wfile] = Flushed(manifest[wver], wfile)]
      BY <1>3 DEF StoreVersion, fileVars, CountInv, Control
    <2>2. v # wfile
      BY <2>1 DEF Unborn
    <2> QED
      BY <1>0, <2>1, <2>2
  <1>4. CASE CompactL0toL1
    <2>1. /\ manifest' = manifest /\ nextL1 \in L1Id
          /\ data' = [data EXCEPT ![nextL1] = Merge(captured)]
      BY <1>4 DEF CompactL0toL1, versionVars
    <2>2. nextL1 \notin FilesOf(manifest[v])
      BY <2>1, ListedFiles, FileIds, Numbers DEF VersionsFixed
    <2> QED
      BY <1>0, <2>1, <2>2, ListedFiles
  <1>5. CASE InstallCompacted
    <2>1. /\ data' = data /\ cstep = "install" /\ cfile \in L1Id
          /\ manifest' = [manifest EXCEPT
                            ![cfile] = Compacted(manifest[cver], captured, cfile)]
      BY <1>5 DEF InstallCompacted, fileVars, CountInv, Control
    <2>2. v # cfile
      BY <2>1 DEF Unborn
    <2> QED
      BY <1>0, <2>1, <2>2
  <1> QED
    BY <1>1, <1>2, <1>3, <1>4, <1>5 DEF WorkerStep, HolderStep

\* A Version whose manifest and files stay as they are answers as before.
LEMMA AnswerFrozen ==
  ASSUME CountInv, NEW v \in VersionId, NEW k, manifest'[v] = manifest[v],
         \A f \in FilesOf(manifest[v]) : data'[f] = data[f]
  PROVE  /\ Answer(manifest[v], k)' = Answer(manifest[v], k)
         /\ \A S : S \subseteq FilesOf(manifest[v]) =>
              {f \in S : data'[f][k] # Absent} = {f \in S : data[f][k] # Absent}
PROOF
  <1>1. /\ manifest[v].l0 \subseteq FilesOf(manifest[v])
        /\ manifest[v].l1 \subseteq FilesOf(manifest[v])
        /\ FilesOf(manifest[v]) \subseteq FileId
    BY ListedFiles
  <1>2. \A S : S \subseteq FilesOf(manifest[v]) =>
          {f \in S : data'[f][k] # Absent} = {f \in S : data[f][k] # Absent}
    OBVIOUS
  <1> DEFINE h0 == {f \in manifest[v].l0 : data[f][k] # Absent}
             h1 == {f \in manifest[v].l1 : data[f][k] # Absent}
  <1>3. /\ {f \in manifest'[v].l0 : data'[f][k] # Absent} = h0
        /\ {f \in manifest'[v].l1 : data'[f][k] # Absent} = h1
    BY <1>1, <1>2
  <1>4. /\ h0 # {} => Newest(h0) \in FilesOf(manifest[v])
        /\ h1 # {} => Newest(h1) \in FilesOf(manifest[v])
    BY <1>1, NewestOfFiles
  <1>5. /\ h0 # {} => data'[Newest(h0)][k] = data[Newest(h0)][k]
        /\ h1 # {} => data'[Newest(h1)][k] = data[Newest(h1)][k]
    BY <1>4
  <1>6. Answer(manifest[v], k) = IF h0 # {} THEN data[Newest(h0)][k]
                                 ELSE IF h1 # {} THEN data[Newest(h1)][k]
                                 ELSE Absent
    BY DEF Answer, Holding
  <1>7. Answer(manifest[v], k)' = IF h0 # {} THEN data'[Newest(h0)][k]
                                  ELSE IF h1 # {} THEN data'[Newest(h1)][k]
                                  ELSE Absent
    <2> HIDE DEF h0, h1
    <2> QED
      BY <1>3 DEF Answer, Holding
  <1> HIDE DEF h0, h1
  <1> QED
    BY <1>2, <1>5, <1>6, <1>7

-----------------------------------------------------------------------------
(* Reads.                                                                  *)

\* A read that is searching is not disturbed by a step that leaves its own
\* state, the manifest of its Version and the files of that Version alone.
LEMMA SnapshotKept ==
  ASSUME CountInv, NEW r \in Readers, Snapshot(r),
         rver'[r] = rver[r], left'[r] = left[r], want'[r] = want[r],
         got'[r] = got[r], err'[r] = err[r],
         manifest'[rver[r]] = manifest[rver[r]],
         \A f \in FilesOf(manifest[rver[r]]) : data'[f] = data[f]
  PROVE  Snapshot(r)'
PROOF
  <1> PICK v \in VersionId : v = rver[r]
    BY DEF CountInv, VsTypeOK
  <1>1. \A k : /\ Answer(manifest[v], k)' = Answer(manifest[v], k)
               /\ \A S : S \subseteq FilesOf(manifest[v]) =>
                    {f \in S : data'[f][k] # Absent} = {f \in S : data[f][k] # Absent}
    BY AnswerFrozen
  <1>2. \A k : Answer(manifest[rver[r]], k)' = Answer(manifest[rver[r]], k)
    BY <1>1
  <1>3. FilesOf(manifest'[rver'[r]]) = FilesOf(manifest[rver[r]])
    OBVIOUS
  <1>4. Searched(r)' = Searched(r) /\ Searched(r) \subseteq FilesOf(manifest[rver[r]])
    BY <1>3 DEF Searched
  <1>5. \A k : Holding(Searched(r), k)' = Holding(Searched(r), k)
    BY <1>1, <1>4 DEF Holding
  <1> QED
    BY <1>2, <1>3, <1>5 DEF Snapshot

\* Steps of other goroutines.
LEMMA SnapshotsOther ==
  ASSUME CountInv, VersionsFixed, Snapshots,
         UNCHANGED readVars,
         \A v \in VersionId \ Unborn :
           /\ manifest'[v] = manifest[v]
           /\ \A f \in FilesOf(manifest[v]) : data'[f] = data[f]
  PROVE  Snapshots'
PROOF
  <1>1. UNCHANGED <<rpc, rver, left, want, got, scan, err>>
    BY DEF readVars
  <1>2. ASSUME NEW r \in Readers, rpc[r] = "search" PROVE Snapshot(r)'
    <2>1. rver[r] \in VersionId \ Unborn
      BY DEF CountInv, VsTypeOK, VersionsFixed
    <2>2. Snapshot(r)
      BY <1>2 DEF Snapshots
    <2> QED
      BY <1>1, <2>1, <2>2, SnapshotKept
  <1> QED
    BY <1>1, <1>2 DEF Snapshots

\* The next file of a read answers, for the keys it still wants and the file
\* holds, what the whole Version answers: L0 is searched before L1, and each
\* from its newest file on (db.go:172-201, db.go:264-287).
LEMMA HitIsAnswer ==
  ASSUME CountInv, NEW r \in Readers, Snapshot(r), ~ err[r], left[r] # {},
         NEW k \in want[r], data[NextFile(left[r])][k] # Absent
  PROVE  data[NextFile(left[r])][k] = Answer(manifest[rver[r]], k)
PROOF
  <1> PICK v \in VersionId : v = rver[r]
    BY DEF CountInv, VsTypeOK
  <1> DEFINE m == manifest[v]
             h0 == Holding(m.l0, k)
             h1 == Holding(m.l1, k)
  <1>1. PICK f \in left[r] : f = NextFile(left[r])
    BY NextFileIsMember DEF CountInv, VsTypeOK
  <1>2. /\ m.l0 \subseteq L0Id /\ m.l1 \subseteq L1Id
        /\ left[r] \subseteq m.l0 \cup m.l1
        /\ L0Id \cap L1Id = {} /\ FileId = L0Id \cup L1Id
    BY ListedFiles, FileIds DEF Snapshot, FileId
  <1>3. h0 \subseteq left[r] \cap L0Id /\ h1 \subseteq left[r]
    BY <1>2 DEF Snapshot, Searched, Holding, FilesOf
  <1>4. h0 \in SUBSET FileId /\ h1 \in SUBSET FileId
        /\ left[r] \in SUBSET FileId /\ left[r] \cap L0Id \in SUBSET FileId
    BY <1>2, <1>3
  <1>5. CASE left[r] \cap L0Id # {}
    <2>1. f = Newest(left[r] \cap L0Id)
      BY <1>1, <1>5 DEF NextFile
    <2>2. f \in left[r] \cap L0Id /\ \A g \in left[r] \cap L0Id : g <= f
      BY <1>4, <1>5, <2>1, NewestOfFiles
    <2>3. f \in h0
      BY <1>1, <1>2, <2>2 DEF Holding
    <2>4. Newest(h0) = f
      BY <1>3, <1>4, <2>2, <2>3, NewestOfFiles
    <2> QED
      BY <1>1, <2>3, <2>4 DEF Answer
  <1>6. CASE left[r] \cap L0Id = {}
    <2>1. f = Newest(left[r])
      BY <1>1, <1>6 DEF NextFile
    <2>2. \A g \in left[r] : g <= f
      BY <1>4, <2>1, NewestOfFiles
    <2>3. f \in h1 /\ h0 = {}
      BY <1>1, <1>2, <1>3, <1>6 DEF Holding
    <2>4. Newest(h1) = f
      BY <1>3, <1>4, <2>2, <2>3, NewestOfFiles
    <2> QED
      BY <1>1, <2>3, <2>4 DEF Answer
  <1> QED
    BY <1>5, <1>6

\* A read opens its next file.
LEMMA ReadSnap ==
  ASSUME CountInv, VersionsFixed, Snapshots, NEW r \in Readers, ReadSSTable(r)
  PROVE  Snapshots'
PROOF
  <1> DEFINE f == NextFile(left[r])
             hit == {k \in want[r] : data[f][k] # Absent}
  <1>1. /\ rpc[r] = "search" /\ left[r] # {} /\ ~ err[r] /\ Snapshot(r)
        /\ UNCHANGED <<data, manifest, rpc, rver, scan>>
        /\ r \in DOMAIN left /\ r \in DOMAIN want /\ r \in DOMAIN got
        /\ r \in DOMAIN err
    BY DEF ReadSSTable, Snapshots, CountInv, VsTypeOK, fileVars, versionVars
  <1>2. ASSUME NEW q \in Readers, q # r
        PROVE  /\ left'[q] = left[q] /\ want'[q] = want[q] /\ got'[q] = got[q]
               /\ err'[q] = err[q]
    BY <1>2 DEF ReadSSTable, CountInv, VsTypeOK
  <1>3. \/ /\ got'[r] = [k \in Keys |-> IF k \in hit THEN data[f][k] ELSE got[r][k]]
           /\ want'[r] = want[r] \ hit
           /\ left'[r] = IF ~ scan[r] /\ hit # {} THEN {} ELSE left[r] \ {f}
           /\ err'[r] = err[r]
        \/ left'[r] = {} /\ err'[r] = TRUE /\ got'[r] = got[r] /\ want'[r] = want[r]
    BY <1>1 DEF ReadSSTable
  <1>4. want[r] \subseteq Keys /\ f \in left[r] /\ got[r] \in Table
    BY <1>1, NextFileIsMember DEF CountInv, VsTypeOK
  <1>5. \A k : /\ Answer(manifest[rver[r]], k)' = Answer(manifest[rver[r]], k)
               /\ \A S : Holding(S, k)' = Holding(S, k)
    BY <1>1 DEF Answer, Holding
  <1>6. \A k \in hit : data[f][k] = Answer(manifest[rver[r]], k)
    BY <1>1, HitIsAnswer
  <1> HIDE DEF f
  <1>7. /\ Snapshot(r)'
        /\ ~ scan[r] => \A j, k \in want'[r] : j = k
        /\ err'[r] => left'[r] = {}
    <2>1. CASE left'[r] = {} /\ err'[r] = TRUE /\ got'[r] = got[r] /\ want'[r] = want[r]
      BY <1>1, <1>5, <2>1 DEF Snapshot, Snapshots
    <2>2. CASE /\ got'[r] = [k \in Keys |-> IF k \in hit THEN data[f][k] ELSE got[r][k]]
               /\ want'[r] = want[r] \ hit
               /\ left'[r] = IF ~ scan[r] /\ hit # {} THEN {} ELSE left[r] \ {f}
               /\ err'[r] = err[r]
      <3>1. \A k \in Keys : got'[r][k] # Absent =>
              got'[r][k] = Answer(manifest[rver[r]], k)'
        BY <1>1, <1>5, <1>6, <2>2 DEF Snapshot
      <3>2. ~ scan[r] /\ hit # {} => want'[r] = {}
        BY <2>2 DEF Snapshots
      <3>3. ASSUME NEW k \in want'[r]
            PROVE  got'[r][k] = Absent /\ Holding(Searched(r), k)' = {}
        <4>1. k \in want[r] /\ k \notin hit /\ k \in Keys /\ data[f][k] = Absent
          BY <1>4, <2>2, <3>3
        <4>2. left'[r] = left[r] \ {f}
          BY <2>2, <3>2, <3>3
        <4>3. Searched(r)' \subseteq Searched(r) \cup {f}
          BY <1>1, <4>2 DEF Searched
        <4>4. Holding(Searched(r), k) = {} /\ got[r][k] = Absent
          BY <1>1, <4>1 DEF Snapshot
        <4>5. got'[r][k] = Absent
          BY <2>2, <4>1, <4>4
        <4> QED
          BY <1>1, <4>1, <4>3, <4>4, <4>5 DEF Holding
      <3>4. left'[r] \subseteq left[r]
        BY <2>2
      <3>5. left'[r] \subseteq FilesOf(manifest'[rver'[r]])
        BY <1>1, <3>4 DEF Snapshot
      <3>6. Snapshot(r)'
        BY <1>1, <3>1, <3>3, <3>5 DEF Snapshot
      <3>7. ~ scan[r] => \A j, k \in want'[r] : j = k
        BY <2>2 DEF Snapshots
      <3> QED
        BY <1>1, <2>2, <3>6, <3>7
    <2> QED
      BY <1>3, <2>1, <2>2
  <1>8. ASSUME NEW q \in Readers, q # r, rpc[q] = "search" PROVE Snapshot(q)'
    <2>1. Snapshot(q)
      BY <1>8 DEF Snapshots
    <2> QED
      BY <1>1, <1>2, <1>8, <2>1, SnapshotKept
  <1> QED
    BY <1>1, <1>2, <1>7, <1>8 DEF Snapshots

\* A read starts, loads currentVersion, acquires it or releases it.
LEMMA CallSnap ==
  ASSUME CountInv, VersionsFixed, Snapshots, NEW r \in Readers,
         StartRead(r) \/ LoadCurrent(r) \/ Acquire(r) \/ Release(r)
  PROVE  Snapshots'
PROOF
  <1>1. /\ UNCHANGED <<data, manifest>>
        /\ rpc \in [Readers -> {"idle", "load", "acquire", "search"}]
        /\ rver \in [Readers -> VersionId] /\ left \in [Readers -> SUBSET FileId]
        /\ want \in [Readers -> SUBSET Keys] /\ got \in [Readers -> Table]
        /\ scan \in [Readers -> BOOLEAN] /\ err \in [Readers -> BOOLEAN]
    BY DEF StartRead, LoadCurrent, Acquire, Release, fileVars, versionVars,
       CountInv, VsTypeOK
  <1>2. ASSUME NEW q \in Readers, q # r
        PROVE  /\ rpc'[q] = rpc[q] /\ rver'[q] = rver[q] /\ left'[q] = left[q]
               /\ want'[q] = want[q] /\ got'[q] = got[q] /\ scan'[q] = scan[q]
               /\ err'[q] = err[q]
    BY <1>1, <1>2 DEF StartRead, BeginRead, LoadCurrent, Acquire, Release
  <1>3. ASSUME NEW q \in Readers, q # r, rpc'[q] = "search" PROVE Snapshot(q)'
    <2>1. Snapshot(q)
      BY <1>2, <1>3 DEF Snapshots
    <2> QED
      BY <1>1, <1>2, <1>3, <2>1, SnapshotKept
  <1>4. /\ rpc'[r] = "search" => Snapshot(r)'
        /\ rpc'[r] # "search" => got'[r] = NoTable /\ err'[r] = FALSE
        /\ ~ scan'[r] => \A j, k \in want'[r] : j = k
        /\ err'[r] => left'[r] = {}
    <2>1. CASE StartRead(r)
      <3>1. /\ rpc[r] = "idle" /\ rpc'[r] = "load"
            /\ UNCHANGED <<left, got, err>>
        BY <1>1, <2>1 DEF StartRead, BeginRead
      <3>2. ~ scan'[r] => \A j, k \in want'[r] : j = k
        <4>1. CASE \E k \in Keys : BeginRead(r, FALSE, {k})
          <5>1. \E k \in Keys : want'[r] = {k}
            BY <1>1, <4>1 DEF BeginRead
          <5> QED
            BY <5>1
        <4>2. CASE \E K \in SUBSET Keys : BeginRead(r, TRUE, K)
          BY <1>1, <4>2 DEF BeginRead
        <4> QED
          BY <2>1, <4>1, <4>2 DEF StartRead
      <3> QED
        BY <3>1, <3>2 DEF Snapshots
    <2>2. CASE LoadCurrent(r)
      <3>1. /\ rpc[r] = "load" /\ rpc'[r] = "acquire"
            /\ UNCHANGED <<left, want, got, scan, err>>
        BY <1>1, <2>2 DEF LoadCurrent
      <3> QED
        BY <3>1 DEF Snapshots
    <2>3. CASE Acquire(r)
      <3>1. /\ rpc[r] = "acquire" /\ UNCHANGED <<rver, want, got, scan, err>>
            /\ \/ rpc'[r] = "load" /\ left' = left
               \/ rpc'[r] = "search" /\ left'[r] = FilesOf(manifest[rver[r]])
        BY <1>1, <2>3 DEF Acquire
      <3>2. got[r] = NoTable /\ ~ err[r]
        BY <3>1 DEF Snapshots
      <3>3. \A k \in Keys : got[r][k] = Absent
        BY <3>2 DEF NoTable
      <3>4. rpc'[r] = "search" => Searched(r)' = {}
        BY <1>1, <3>1 DEF Searched
      <3>5. rpc'[r] = "search" => Snapshot(r)'
        BY <1>1, <3>1, <3>3, <3>4 DEF Snapshot, Holding
      <3> QED
        BY <3>1, <3>5 DEF Snapshots
    <2>4. CASE Release(r)
      <3>1. rpc'[r] = "idle" /\ got'[r] = NoTable /\ err'[r] = FALSE /\ want'[r] = {}
        BY <1>1, <2>4 DEF Release
      <3> QED
        BY <3>1
    <2> QED
      BY <2>1, <2>2, <2>3, <2>4
  <1> QED
    BY <1>2, <1>3, <1>4 DEF Snapshots

\* SnapInv is inductive.
LEMMA NextSnap == CountInv /\ SnapInv /\ [VsNext]_vsVars => SnapInv'
PROOF
  <1> SUFFICES ASSUME CountInv, VersionsFixed, Snapshots, [VsNext]_vsVars
               PROVE  VersionsFixed' /\ Snapshots'
    BY DEF SnapInv
  <1>0. CountInv'
    BY NextCount
  <1>1. CASE (\E t \in Tables : FlushMemTable(t)) \/ WorkerStep \/ HolderStep
    <2>1. UNCHANGED readVars
      BY <1>1 DEF WorkerStep, FlushMemTable, LoadVersion, StoreVersion,
         AfterClear, HolderStep, LoadBatch, CompactL0toL1, CompactionFails,
         ReloadVersion, InstallCompacted
    <2>2. \A v \in VersionId \ Unborn :
            /\ manifest'[v] = manifest[v]
            /\ \A f \in FilesOf(manifest[v]) : data'[f] = data[f]
      BY <1>1, Frozen
    <2> QED
      BY <1>0, <1>1, <2>1, <2>2, SettledWriter, SnapshotsOther
  <1>2. CASE \/ \E c \in Compactors : LockCompaction(c)
             \/ \E v \in VersionId : PurgeStep(v)
             \/ UNCHANGED vsVars
    <2>1. UNCHANGED <<data, nextL0, nextL1, manifest, current, wpc, wfile, cstep,
                      cfile, readVars>>
      BY <1>2 DEF LockCompaction, PurgeStep, PurgeClaim, PurgeRemove, vsVars,
         fileVars, versionVars, workerVars, compactVars
    <2>2. rver' = rver
      BY <2>1 DEF readVars
    <2> QED
      BY <2>1, <2>2, SettledOther, SnapshotsOther
  <1>3. CASE \E r \in Readers : StartRead(r) \/ ReadStep(r)
    <2> PICK r \in Readers : StartRead(r) \/ ReadStep(r)
      BY <1>3
    <2>1. UNCHANGED <<data, nextL0, nextL1, manifest, current, wpc, wfile, cstep,
                      cfile>>
      BY DEF StartRead, ReadStep, LoadCurrent, Acquire, ReadSSTable, Release,
         fileVars, versionVars, workerVars, compactVars
    <2>2. \A q \in Readers : rver'[q] \in {rver[q], current, 0}
      BY DEF StartRead, BeginRead, ReadStep, LoadCurrent, Acquire, ReadSSTable,
         Release, CountInv, VsTypeOK
    <2>3. Snapshots'
      BY CallSnap, ReadSnap DEF ReadStep
    <2> QED
      BY <2>1, <2>2, <2>3, SettledOther
  <1> QED
    BY <1>1, <1>2, <1>3 DEF VsNext

\* A read with nothing left to search has found what its Version holds.
LEMMA SnapReads ==
  ASSUME CountInv, SnapInv
  PROVE  ReadsOneSnapshot
PROOF
  <1> SUFFICES ASSUME NEW r \in Readers, rpc[r] = "search", left[r] = {},
                      ~ err[r], NEW k \in Keys
               PROVE  /\ got[r][k] # Absent =>
                           got[r][k] = Answer(manifest[rver[r]], k)
                      /\ k \in want[r] => Answer(manifest[rver[r]], k) = Absent
    BY DEF ReadsOneSnapshot
  <1>1. Snapshot(r)
    BY DEF SnapInv, Snapshots
  <1>2. Searched(r) = FilesOf(manifest[rver[r]])
    BY DEF Searched
  <1>3. k \in want[r] => Answer(manifest[rver[r]], k) = Absent
    BY <1>1, <1>2 DEF Snapshot, Holding, FilesOf, Answer
  <1> QED
    BY <1>1, <1>3 DEF Snapshot

\* A Get or Scan that ends without an error returns what the one Version it
\* acquired holds, for any number of flushes, compactions and purges beside it
\* and whichever file operations fail (db.go:162-201, db.go:239-295).
THEOREM SnapshotReads == VsSpec => []ReadsOneSnapshot
PROOF
  <1>1. CountInv /\ SnapInv => ReadsOneSnapshot
    BY SnapReads
  <1> QED
    BY InitCount, InitSnap, NextCount, NextSnap, <1>1, PTL DEF VsSpec

-----------------------------------------------------------------------------
(* What the files of a level answer.                                       *)

\* The newest entry for k among the files S when d holds their contents.
TopOf(d, S, k) ==
  LET H == {f \in S : d[f][k] # Absent}
  IN  IF H = {} THEN Absent ELSE d[Newest(H)][k]

\* The answer of manifest m: that of its L0, below it that of its L1.
AnswerIn(d, m, k) ==
  IF TopOf(d, m.l0, k) # Absent THEN TopOf(d, m.l0, k) ELSE TopOf(d, m.l1, k)

\* Files whose contents agree give the same newest entry.
LEMMA TopSame ==
  ASSUME NEW S \in SUBSET FileId, NEW d, NEW e, NEW k,
         \A f \in S : d[f] = e[f]
  PROVE  TopOf(d, S, k) = TopOf(e, S, k)
PROOF
  <1> DEFINE H == {f \in S : d[f][k] # Absent}
  <1>1. H = {f \in S : e[f][k] # Absent} /\ H \in SUBSET FileId
    OBVIOUS
  <1>2. H # {} => Newest(H) \in S
    BY <1>1, NewestOfFiles
  <1>3. TopOf(d, S, k) = IF H = {} THEN Absent ELSE d[Newest(H)][k]
    BY DEF TopOf
  <1>4. TopOf(e, S, k) = IF H = {} THEN Absent ELSE e[Newest(H)][k]
    <2> HIDE DEF H
    <2> QED
      BY <1>1 DEF TopOf
  <1> HIDE DEF H
  <1> QED
    BY <1>2, <1>3, <1>4

\* A file newer than all others answers for the keys it holds.
LEMMA TopAdd ==
  ASSUME NEW d, NEW k
  PROVE  \A S \in SUBSET FileId, n \in FileId : (\A f \in S : f < n) =>
           TopOf(d, S \cup {n}, k) =
             IF d[n][k] # Absent THEN d[n][k] ELSE TopOf(d, S, k)
PROOF
  <1> SUFFICES ASSUME NEW S \in SUBSET FileId, NEW n \in FileId,
                      \A f \in S : f < n
               PROVE  TopOf(d, S \cup {n}, k) =
                        IF d[n][k] # Absent THEN d[n][k] ELSE TopOf(d, S, k)
    OBVIOUS
  <1> DEFINE H == {f \in S \cup {n} : d[f][k] # Absent}
  <1>1. CASE d[n][k] # Absent
    <2>1. n \in H /\ H \in SUBSET FileId
      BY <1>1
    <2>2. FileId \subseteq Int
      BY FileIds
    <2>3. \A g \in H : g <= n
      BY <2>2
    <2>4. Newest(H) = n
      BY <2>1, <2>3, NewestOfFiles
    <2> QED
      BY <1>1, <2>1, <2>4 DEF TopOf
  <1>2. CASE d[n][k] = Absent
    <2>1. H = {f \in S : d[f][k] # Absent}
      BY <1>2
    <2> QED
      BY <1>2, <2>1 DEF TopOf
  <1> QED
    BY <1>1, <1>2

\* A level has no entry for a key exactly when none of its files has.
LEMMA TopAbsent ==
  ASSUME NEW S \in SUBSET FileId, NEW d, NEW k
  PROVE  TopOf(d, S, k) # Absent <=> {f \in S : d[f][k] # Absent} # {}
PROOF
  <1> DEFINE H == {f \in S : d[f][k] # Absent}
  <1>1. H \in SUBSET FileId
    OBVIOUS
  <1>2. H # {} => Newest(H) \in H
    BY <1>1, NewestOfFiles
  <1>3. H # {} => d[Newest(H)][k] # Absent
    BY <1>2
  <1> HIDE DEF H
  <1>4. TopOf(d, S, k) = IF H = {} THEN Absent ELSE d[Newest(H)][k]
    BY DEF TopOf, H
  <1>5. TopOf(d, S, k) # Absent <=> H # {}
    BY <1>3, <1>4
  <1> QED
    BY <1>5 DEF H

\* Complete, in the present and in the next state, in these terms.
LEMMA CompleteByTop ==
  /\ CountInv =>
       (Complete <=> \A k \in Keys \ {EmptyKey} :
          AnswerIn(data, manifest[current], k) = TopOf(data, Published, k))
  /\ CountInv' =>
       (Complete' <=> \A k \in Keys \ {EmptyKey} :
          AnswerIn(data', manifest'[current'], k) = TopOf(data', Published', k))
PROOF
  <1>1. ASSUME CountInv, NEW k
        PROVE  /\ Answer(manifest[current], k) = AnswerIn(data, manifest[current], k)
               /\ NewestPublished(k) = TopOf(data, Published, k)
    <2>1. /\ manifest[current].l0 \in SUBSET FileId
          /\ manifest[current].l1 \in SUBSET FileId
      BY <1>1 DEF CountInv, VsTypeOK, VsManifest, FileId
    <2>2. Answer(manifest[current], k) = AnswerIn(data, manifest[current], k)
      BY <2>1, TopAbsent DEF Answer, Holding, AnswerIn, TopOf
    <2> QED
      BY <2>2 DEF NewestPublished, Holding, TopOf
  <1>2. ASSUME CountInv', NEW k
        PROVE  /\ Answer(manifest[current], k)' = AnswerIn(data', manifest'[current'], k)
               /\ NewestPublished(k)' = TopOf(data', Published', k)
    <2>1. /\ manifest'[current'].l0 \in SUBSET FileId
          /\ manifest'[current'].l1 \in SUBSET FileId
      BY <1>2 DEF CountInv, VsTypeOK, VsManifest, FileId
    <2>2. Answer(manifest[current], k)' = AnswerIn(data', manifest'[current'], k)
      BY <2>1, TopAbsent DEF Answer, Holding, AnswerIn, TopOf
    <2> QED
      BY <2>2 DEF NewestPublished, Holding, TopOf
  <1> QED
    BY <1>1, <1>2 DEF Complete

-----------------------------------------------------------------------------
(* The current manifest is complete.                                       *)

\* The published files are L0 files already written.
LEMMA PublishedFiles ==
  ASSUME CountInv
  PROVE  Published \subseteq FileId /\ \A f \in Published : f < nextL0
PROOF
  BY ConstantsAssumption DEF CountInv, VsTypeOK, Published, FileId, L0Id

\* A step that changes neither the current manifest nor a file it lists, nor a
\* published file.
LEMMA CompleteKept ==
  ASSUME CountInv, CountInv', Complete, Published' = Published,
         manifest' = manifest, current' = current,
         \A f \in FilesOf(manifest[current]) \cup Published : data'[f] = data[f]
  PROVE  Complete'
PROOF
  <1> DEFINE m == manifest[current]
  <1>1. /\ m.l0 \in SUBSET FileId /\ m.l1 \in SUBSET FileId
        /\ Published \in SUBSET FileId
        /\ FilesOf(m) = m.l0 \cup m.l1
    BY PublishedFiles DEF CountInv, VsTypeOK, VsManifest, FileId, FilesOf
  <1>2. ASSUME NEW k
        PROVE  /\ TopOf(data', m.l0, k) = TopOf(data, m.l0, k)
               /\ TopOf(data', m.l1, k) = TopOf(data, m.l1, k)
               /\ TopOf(data', Published, k) = TopOf(data, Published, k)
    BY <1>1, TopSame
  <1> QED
    BY <1>2, CompleteByTop DEF AnswerIn

\* A MemTable is written: its file is in no manifest and not published yet.
LEMMA FlushComplete ==
  ASSUME CountInv, CountInv', FileInv, VersionsFixed, CompleteInv,
         NEW t \in Tables, FlushMemTable(t)
  PROVE  CompleteInv'
PROOF
  <1>1. /\ wpc = "idle" /\ wpc' = "load" /\ cstep = "load" /\ cstep' = cstep
        /\ nextL0 \in L0Id /\ wfile' = nextL0 /\ nextL0' = nextL0 + 1
        /\ data' = [data EXCEPT ![nextL0] = t]
        /\ UNCHANGED <<manifest, current>>
    BY DEF FlushMemTable, FileInv, Serial, versionVars, compactVars
  <1>2. /\ nextL0 \in Int /\ current \in VersionId /\ data \in [FileId -> Table]
    BY Numbers DEF CountInv, VsTypeOK
  <1>3. Published' = Published
    BY <1>1, <1>2 DEF Published
  <1>4. nextL0 \notin FilesOf(manifest[current]) \cup Published
    BY <1>1, <1>2, ListedFiles, FileIds, PublishedFiles DEF VersionsFixed
  <1>5. \A f \in FilesOf(manifest[current]) \cup Published : data'[f] = data[f]
    BY <1>1, <1>2, <1>4, ListedFiles, PublishedFiles
  <1>6. Complete'
    BY <1>1, <1>3, <1>5, CompleteKept DEF CompleteInv
  <1>7. Fresh'
    BY <1>1, <1>2 DEF Fresh, VersionsFixed
  <1> QED
    BY <1>6, <1>7 DEF CompleteInv

\* The worker publishes its file: newer than all of L0 and all published so far.
LEMMA StoreComplete ==
  ASSUME CountInv, CountInv', FileInv, VersionsFixed, CompleteInv, StoreVersion
  PROVE  CompleteInv'
PROOF
  <1> DEFINE m == manifest[current]
  <1>1. /\ wpc = "store" /\ wpc' = "clear" /\ cstep = "load" /\ cstep' = cstep
        /\ wfile \in L0Id /\ wver = current /\ current' = wfile
        /\ manifest' = [manifest EXCEPT ![wfile] = Flushed(manifest[wver], wfile)]
        /\ UNCHANGED <<data, nextL0>>
    BY DEF StoreVersion, FileInv, Serial, CountInv, Control, fileVars, compactVars
  <1>2. wfile = nextL0 - 1 /\ nextL0 \in Int /\ \A f \in m.l0 : f < wfile
    BY <1>1, Numbers DEF CompleteInv, Fresh
  <1>3. /\ manifest'[current'].l0 = m.l0 \cup {wfile}
        /\ manifest'[current'].l1 = m.l1
    BY <1>1 DEF Flushed, CountInv, VsTypeOK, VersionId, FileId
  <1>4. /\ m.l0 \in SUBSET FileId /\ m.l1 \in SUBSET FileId /\ wfile \in FileId
    BY <1>1 DEF CountInv, VsTypeOK, VsManifest, FileId
  <1>5. Published' = Published \cup {wfile} /\ \A f \in Published : f < wfile
    BY <1>1, <1>2 DEF Published, L0Id
  <1>6. ASSUME NEW k \in Keys \ {EmptyKey}
        PROVE  AnswerIn(data', manifest'[current'], k) = TopOf(data', Published', k)
    <2>1. TopOf(data, m.l0 \cup {wfile}, k) =
            IF data[wfile][k] # Absent THEN data[wfile][k] ELSE TopOf(data, m.l0, k)
      BY <1>2, <1>4, TopAdd
    <2>2. TopOf(data, Published \cup {wfile}, k) =
            IF data[wfile][k] # Absent THEN data[wfile][k]
            ELSE TopOf(data, Published, k)
      BY <1>4, <1>5, PublishedFiles, TopAdd
    <2>3. AnswerIn(data, m, k) = TopOf(data, Published, k)
      BY CompleteByTop DEF CompleteInv
    <2> QED
      BY <1>1, <1>3, <1>5, <2>1, <2>2, <2>3 DEF AnswerIn
  <1>7. Complete'
    BY <1>6, CompleteByTop
  <1>8. Fresh'
    BY <1>1 DEF Fresh
  <1> QED
    BY <1>7, <1>8 DEF CompleteInv

\* The captured files are merged into a file newer than all of L1.
LEMMA MergeComplete ==
  ASSUME CountInv, CountInv', FileInv, VersionsFixed, CompleteInv, CompactL0toL1
  PROVE  CompleteInv'
PROOF
  <1>1. /\ cstep = "merge" /\ cstep' = "reload" /\ wpc \in {"clear", "compact"}
        /\ nextL1 \in L1Id /\ cfile' = nextL1
        /\ data' = [data EXCEPT ![nextL1] = Merge(captured)]
        /\ UNCHANGED <<manifest, current, captured, wpc, wfile, nextL0>>
    BY DEF CompactL0toL1, FileInv, Serial, versionVars, workerVars
  <1>2. /\ current \in VersionId /\ data \in [FileId -> Table]
        /\ captured \subseteq L0Id /\ nextL1 \in FileId /\ nextL1 \notin L0Id
    BY <1>1, FileIds DEF CountInv, VsTypeOK, FileId
  <1>3. Published' = Published
    BY <1>1 DEF Published
  <1>4. Published \subseteq L0Id
    BY ConstantsAssumption DEF Published, CountInv, VsTypeOK, L0Id
  <1>5. nextL1 \notin FilesOf(manifest[current]) \cup Published
    BY <1>1, <1>2, <1>4, ListedFiles, Numbers DEF VersionsFixed
  <1>6. \A f \in FilesOf(manifest[current]) \cup Published : data'[f] = data[f]
    BY <1>1, <1>2, <1>5, ListedFiles, PublishedFiles
  <1>7. Complete'
    BY <1>1, <1>3, <1>6, CompleteKept DEF CompleteInv
  <1>8. \A f \in captured : data'[f] = data[f]
    BY <1>1, <1>2
  <1>9. \A k \in Keys : Holding(captured, k)' = Holding(captured, k)
    BY <1>1, <1>8 DEF Holding
  <1>10. \A k \in Keys : Holding(captured, k) # {} =>
           Newest(Holding(captured, k)) \in captured
    <2> SUFFICES ASSUME NEW k \in Keys, Holding(captured, k) # {}
                 PROVE  Newest(Holding(captured, k)) \in captured
      OBVIOUS
    <2>1. Holding(captured, k) \in SUBSET FileId
      BY <1>2 DEF Holding, FileId
    <2> QED
      BY <2>1, NewestOfFiles DEF Holding
  <1>11. Merge(captured)' = Merge(captured)
    BY <1>8, <1>9, <1>10 DEF Merge
  <1>12. data'[cfile'] = Merge(captured)'
    BY <1>1, <1>2, <1>11
  <1>13. Fresh'
    BY <1>1, <1>2, <1>12 DEF Fresh, VersionsFixed
  <1> QED
    BY <1>7, <1>13 DEF CompleteInv

\* The compaction is installed: L0 is emptied, and the merged file answers for
\* every key that one of the captured files held.
LEMMA InstallComplete ==
  ASSUME CountInv, CountInv', FileInv, VersionsFixed, CompleteInv, InstallCompacted
  PROVE  CompleteInv'
PROOF
  <1> DEFINE m == manifest[current]
  <1>1. /\ cstep = "install" /\ cstep' = "load" /\ wpc \in {"clear", "compact"}
        /\ wpc' \notin {"load", "store"}
        /\ cfile \in L1Id /\ cver = current /\ current' = cfile
        /\ captured = m.l0
        /\ manifest' = [manifest EXCEPT
                          ![cfile] = Compacted(manifest[cver], captured, cfile)]
        /\ UNCHANGED <<data, nextL0>>
    BY DEF InstallCompacted, ReturnFromCompact, FileInv, Serial, CountInv,
       Control, fileVars
  <1>2. data[cfile] = Merge(m.l0) /\ \A f \in m.l1 : f < cfile
    BY <1>1 DEF CompleteInv, Fresh
  <1>3. /\ manifest'[current'].l0 = {}
        /\ manifest'[current'].l1 = m.l1 \cup {cfile}
    BY <1>1 DEF Compacted, CountInv, VsTypeOK, VersionId, FileId
  <1>4. /\ m.l0 \in SUBSET FileId /\ m.l1 \in SUBSET FileId /\ cfile \in FileId
    BY <1>1 DEF CountInv, VsTypeOK, VsManifest, FileId
  <1>5. Published' = Published
    BY <1>1 DEF Published
  <1>6. ASSUME NEW k \in Keys \ {EmptyKey}
        PROVE  AnswerIn(data', manifest'[current'], k) = TopOf(data', Published', k)
    <2>1. TopOf(data, m.l1 \cup {cfile}, k) =
            IF data[cfile][k] # Absent THEN data[cfile][k] ELSE TopOf(data, m.l1, k)
      BY <1>2, <1>4, TopAdd
    <2>2. data[cfile][k] = TopOf(data, m.l0, k)
      BY <1>2 DEF Merge, TopOf, Holding
    <2>3. TopOf(data, {}, k) = Absent
      BY DEF TopOf
    <2>4. AnswerIn(data, m, k) = TopOf(data, Published, k)
      BY CompleteByTop DEF CompleteInv
    <2> QED
      BY <1>1, <1>3, <1>5, <2>1, <2>2, <2>3, <2>4 DEF AnswerIn
  <1>7. Complete'
    BY <1>6, CompleteByTop
  <1>8. Fresh'
    BY <1>1 DEF Fresh
  <1> QED
    BY <1>7, <1>8 DEF CompleteInv

\* Steps that write no file and swap no manifest.
LEMMA OtherComplete ==
  ASSUME CountInv, CountInv', CompleteInv,
         UNCHANGED <<data, manifest, current, nextL0, wfile>>,
         wpc' \in {"load", "store"} <=> wpc \in {"load", "store"},
         cstep' \in {"reload", "install"} =>
           /\ cstep \in {"reload", "install"}
           /\ cfile' = cfile /\ captured' = captured
  PROVE  CompleteInv'
PROOF
  <1>1. Published' = Published
    BY DEF Published
  <1>2. Complete'
    BY <1>1, CompleteKept DEF CompleteInv
  <1>3. cstep' \in {"reload", "install"} => Merge(captured)' = Merge(captured)
    BY DEF Merge, Holding
  <1>4. Fresh'
    BY <1>3 DEF CompleteInv, Fresh
  <1> QED
    BY <1>2, <1>4 DEF CompleteInv

\* Nothing is published yet.
LEMMA InitComplete == VsInit => CompleteInv
PROOF
  <1> SUFFICES ASSUME VsInit PROVE CompleteInv
    OBVIOUS
  <1>1. manifest[current] = [l0 |-> {}, l1 |-> {}] /\ Published = {}
    BY DEF VsInit, VersionId, Published
  <1>2. Complete
    BY <1>1 DEF Complete, Answer, NewestPublished, Holding
  <1>3. Fresh
    BY DEF VsInit, Fresh
  <1> QED
    BY <1>2, <1>3 DEF CompleteInv

\* CompleteInv is inductive relative to the invariants on files and Versions.
LEMMA NextComplete ==
  ASSUME Faults = {}
  PROVE  CountInv /\ FileInv /\ SnapInv /\ CompleteInv /\ [VsNext]_vsVars
           => CompleteInv'
PROOF
  <1> SUFFICES ASSUME CountInv, FileInv, VersionsFixed, CompleteInv, [VsNext]_vsVars
               PROVE  CompleteInv'
    BY DEF SnapInv
  <1>0. CountInv'
    BY NextCount
  <1>1. CASE \E t \in Tables : FlushMemTable(t)
    BY <1>0, <1>1, FlushComplete
  <1>2. CASE StoreVersion
    BY <1>0, <1>2, StoreComplete
  <1>3. CASE LoadVersion \/ AfterClear
    <2>1. /\ UNCHANGED <<data, manifest, current, nextL0, wfile, cstep, cfile,
                         captured>>
          /\ wpc' \in {"load", "store"} <=> wpc \in {"load", "store"}
      BY <1>3 DEF LoadVersion, AfterClear, fileVars, versionVars, compactVars
    <2> QED
      BY <1>0, <2>1, OtherComplete
  <1>4. CASE CompactL0toL1
    BY <1>0, <1>4, MergeComplete
  <1>5. CASE InstallCompacted
    BY <1>0, <1>5, InstallComplete
  <1>6. CASE LoadBatch \/ CompactionFails \/ ReloadVersion
    <2>1. /\ UNCHANGED <<data, manifest, current, nextL0, wfile>>
          /\ wpc' = wpc \/ (wpc' = "idle" /\ holder = Worker)
      BY <1>6 DEF LoadBatch, CompactionFails, ReloadVersion, ReturnFromCompact,
         fileVars, versionVars, workerVars
    <2>2. wpc' \in {"load", "store"} <=> wpc \in {"load", "store"}
      BY <2>1 DEF CountInv, Control
    <2>3. cstep' \in {"reload", "install"} =>
            /\ cstep \in {"reload", "install"}
            /\ cfile' = cfile /\ captured' = captured
      BY <1>6 DEF LoadBatch, CompactionFails, ReloadVersion, ReturnFromCompact
    <2> QED
      BY <1>0, <2>1, <2>2, <2>3, OtherComplete
  <1>7. CASE \/ \E c \in Compactors : LockCompaction(c)
             \/ \E v \in VersionId : PurgeStep(v)
             \/ \E r \in Readers : StartRead(r) \/ ReadStep(r)
             \/ UNCHANGED vsVars
    <2>1. UNCHANGED <<data, manifest, current, nextL0, wfile, wpc, cstep, cfile,
                      captured>>
      BY <1>7 DEF LockCompaction, PurgeStep, PurgeClaim, PurgeRemove, StartRead,
         ReadStep, LoadCurrent, Acquire, ReadSSTable, Release, vsVars, fileVars,
         versionVars, workerVars, compactVars
    <2> QED
      BY <1>0, <2>1, OtherComplete
  <1> QED
    BY <1>1, <1>2, <1>3, <1>4, <1>5, <1>6, <1>7 DEF VsNext, WorkerStep, HolderStep

\* No flush or compaction, worker's or caller's, loses or reorders an entry:
\* currentVersion answers every key but the zero-length one with the newest
\* entry published for it (db.go:405-428, compactor.go:106-153).
THEOREM CompleteButEmptyKey ==
  ASSUME Faults = {}
  PROVE  VsSpec => []Complete
PROOF
  <1>1. CompleteInv => Complete
    BY DEF CompleteInv
  <1>2. VsInit => CountInv /\ FileInv /\ SnapInv /\ CompleteInv
    BY InitComplete, InitCount, InitFile, InitSnap
  <1>3. CountInv /\ FileInv /\ SnapInv /\ CompleteInv /\ [VsNext]_vsVars
          => (CountInv /\ FileInv /\ SnapInv /\ CompleteInv)'
    BY NextCount, NextFiles, NextSnap, NextComplete
  <1> QED
    BY <1>1, <1>2, <1>3, PTL DEF VsSpec

\* When no key is zero-length the current manifest is complete: it answers every
\* key with the newest entry ever published (db.go:405-428).
THEOREM ManifestStaysComplete ==
  ASSUME Faults = {}, EmptyKey \notin Keys
  PROVE  VsSpec => []ManifestComplete
PROOF
  <1>1. Complete => ManifestComplete
    BY DEF Complete, ManifestComplete
  <1> QED
    BY CompleteButEmptyKey, <1>1, PTL
=============================================================================
