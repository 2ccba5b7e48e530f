------------------------------ MODULE DBProofs ------------------------------
(***************************************************************************)
(* Proofs about the engine put together: its write path is that of         *)
(* Rotation and its manifest that of VersionSet, so that what is proved of *)
(* the parts holds of the whole; the published files answer what the write *)
(* path takes them for; and every Get and Scan returns values that its     *)
(* keys had during the call.                                               *)
(***************************************************************************)
EXTENDS DB, RotationProofs, VersionSetProofs

-----------------------------------------------------------------------------
(* The inductive invariant.                                                *)

\* The engine is open, and the two halves of flushWorker are in step.
Joined ==
  /\ cpc = "open" /\ panicked = FALSE
  /\ fpc = "publish" <=> wpc \in {"load", "store"}
  /\ fpc = "clear" <=> wpc = "clear"
  /\ fpc = "write" => wpc = "idle"

\* immutableMT takes no more entries; the file of a flush is its copy; until it
\* is cleared the published files answer its keys as it does.
Copied ==
  /\ imm # None => frozen[imm]
  /\ fpc = "publish" => fdata = mem[imm] /\ data[wfile] = fdata
  /\ fpc = "clear" => \A k \in Keys : mem[imm][k] # Absent => base[k] = mem[imm][k]

\* The base of the write path is the newest of the published files.
BaseIsNewest == \A k \in Keys : base[k] = TopOf(data, Published, k)

\* The arguments and the control of each call.
CallsOK ==
  /\ dpc \in [Readers -> {"idle", "active", "searchActive", "imm", "searchImm",
                          "version", "sst", "return", "failed"}]
  /\ dkeys \in [Readers -> SUBSET Keys] /\ dscan \in [Readers -> BOOLEAN]
  /\ dtab \in [Readers -> TableId \cup {None}] /\ dgot \in [Readers -> Table]
  /\ window \in [Readers -> [Keys -> SUBSET Entry]]
  /\ \A r \in Readers :
       /\ dpc[r] = "sst" <=> rpc[r] # "idle"
       /\ dpc[r] # "idle" /\ ~ dscan[r] => \E k \in Keys : dkeys[r] = {k}
       /\ dpc[r] \in {"active", "searchActive"} => dgot[r] = NoTable
       /\ dpc[r] \in {"imm", "searchImm", "version"} /\ ~ dscan[r] =>
            Unseen(r) = dkeys[r]

\* What a lookup that begins behind the active MemTable meets.
Lower == Overlay(TableOf(imm), base)

\* Call r may return entry e for key k.
Good(r, k, e) == Visible(e) \in window[r][k]

\* The table a call is about to search answers with what the key has had during
\* the call, and so do the places behind it, unless the table is still the one
\* that hides them from every lookup.
ActiveSearched(r, k) ==
  /\ dtab[r] \in TableId /\ dtab[r] < nextTable
  /\ mem[dtab[r]][k] # Absent => Good(r, k, mem[dtab[r]][k])
  /\ (dtab[r] = active /\ imm # active) \/ Good(r, k, Lower[k])

ImmSearched(r, k) ==
  /\ dtab[r] # None => frozen[dtab[r]]
  /\ dtab[r] # None /\ mem[dtab[r]][k] # Absent => Good(r, k, mem[dtab[r]][k])
  /\ dtab[r] = imm \/ Good(r, k, base[k])

\* A key that call r has not met: what it can still meet, and what it concludes.
Missing(r, k) ==
  /\ dpc[r] \in {"imm", "searchImm", "version", "sst"} => Good(r, k, Lower[k])
  /\ dpc[r] = "searchImm" => ImmSearched(r, k)
  /\ dpc[r] \in {"version", "sst"} => Good(r, k, base[k])
  /\ dpc[r] = "sst" => k \in want[r] \/ got[r][k] # Absent
  /\ dpc[r] = "sst" /\ rpc[r] \in {"acquire", "search"} =>
       Good(r, k, Answer(manifest[rver[r]], k))
  /\ dpc[r] = "return" => Good(r, k, Absent)

Lookup(r, k) ==
  /\ Good(r, k, View[k])
  /\ dgot[r][k] # Absent => Good(r, k, dgot[r][k])
  /\ dpc[r] = "searchActive" => ActiveSearched(r, k)
  /\ dgot[r][k] = Absent => Missing(r, k)

Lookups == \A r \in Readers : dpc[r] # "idle" => \A k \in dkeys[r] : Lookup(r, k)

PartsInv == ControlInv /\ Readable /\ CountInv /\ FileInv /\ SnapInv /\ CompleteInv

JoinInv == Joined /\ Copied /\ BaseIsNewest /\ CallsOK

DbInv == PartsInv /\ JoinInv /\ Lookups

-----------------------------------------------------------------------------
(* Every step of the engine is a step of each part, or none of its business. *)

\* The step of a read that is not one of VersionSet leaves the manifest alone.
LEMMA CallKeepsParts ==
  ASSUME NEW r \in Readers,
         Get(r) \/ Scan(r) \/ LoadActivePointer(r) \/ LoadImmutablePointer(r)
           \/ SearchMemTable(r) \/ Return(r)
  PROVE  UNCHANGED <<rotVars, vsVars>>
PROOF
  BY DEF Get, Scan, Begin, LoadActivePointer, LoadImmutablePointer,
     SearchMemTable, Return

\* The write path.
LEMMA DbStepIsRotStep ==
  ASSUME Joined, [DbNext]_dbVars
  PROVE  [RotNext]_rotVars
PROOF
  <1>0. ~ panicked
    BY DEF Joined
  <1>1. CASE \E w \in Writers : DbWriterStep(w)
    BY <1>0, <1>1 DEF DbWriterStep, RotNext
  <1>2. CASE DbReceive \/ DbFlushMemTable \/ DbStoreVersion
    BY <1>0, <1>2 DEF DbReceive, DbFlushMemTable, DbStoreVersion, RotNext,
       FlusherStep
  <1>3. CASE DbClearImmutable
    BY <1>0, <1>3 DEF DbClearImmutable, RotNext
  <1>4. CASE DbLoadVersion \/ DbCompact \/ (\E v \in VersionId : DbPurge(v))
    BY <1>4 DEF DbLoadVersion, DbCompact, DbPurge
  <1>5. CASE \E r \in Readers :
               \/ Get(r) \/ Scan(r)
               \/ LoadActivePointer(r) \/ LoadImmutablePointer(r)
               \/ SearchMemTable(r) \/ SearchVersion(r) \/ SearchStep(r)
               \/ ReleaseVersion(r) \/ Return(r)
    BY <1>5, CallKeepsParts DEF SearchVersion, SearchStep, ReleaseVersion
  <1>6. CASE UNCHANGED dbVars
    BY <1>6 DEF dbVars
  <1> QED
    BY <1>1, <1>2, <1>3, <1>4, <1>5, <1>6 DEF DbNext

\* The files and the manifest.  A flush may persist any MemTable.
LEMMA DbStepIsVsStep ==
  ASSUME Tables = Table, ControlInv, CallsOK, [DbNext]_dbVars
  PROVE  [VsNext]_vsVars
PROOF
  <1>1. CASE (\E w \in Writers : DbWriterStep(w)) \/ DbReceive
    BY <1>1 DEF DbWriterStep, DbReceive
  <1>2. CASE DbFlushMemTable
    <2>1. mem[ftab] \in Table
      BY <1>2 DEF DbFlushMemTable, WriteFile, ControlInv, Rotating, Flushing,
         RotTypeOK
    <2> QED
      BY <1>2, <2>1 DEF DbFlushMemTable, VsNext
  <1>3. CASE DbLoadVersion \/ DbStoreVersion \/ DbClearImmutable
    BY <1>3 DEF DbLoadVersion, DbStoreVersion, DbClearImmutable, WorkerStep, VsNext
  <1>4. CASE DbCompact \/ (\E v \in VersionId : DbPurge(v))
    BY <1>4 DEF DbCompact, DbPurge, VsNext
  <1>5. ASSUME NEW r \in Readers,
               \/ Get(r) \/ Scan(r)
               \/ LoadActivePointer(r) \/ LoadImmutablePointer(r)
               \/ SearchMemTable(r) \/ Return(r)
        PROVE  [VsNext]_vsVars
    BY <1>5, CallKeepsParts
  <1>6. ASSUME NEW r \in Readers, SearchVersion(r)
        PROVE  [VsNext]_vsVars
    <2>1. /\ BeginRead(r, dscan[r], Unseen(r)) /\ dpc[r] = "version"
          /\ UNCHANGED <<fileVars, nextL0, nextL1, versionVars, workerVars,
                         compactVars>>
      BY <1>6 DEF SearchVersion
    <2>2. CASE dscan[r] = TRUE
      <3>1. Unseen(r) \in SUBSET Keys
        BY DEF Unseen, CallsOK
      <3> QED
        BY <2>1, <2>2, <3>1 DEF StartRead, VsNext
    <2>3. CASE dscan[r] = FALSE
      <3>1. PICK k \in Keys : Unseen(r) = {k}
        BY <2>1, <2>3 DEF CallsOK
      <3>2. BeginRead(r, FALSE, {k})
        BY <2>1, <2>3, <3>1
      <3> QED
        BY <2>1, <3>2 DEF StartRead, VsNext
    <2> QED
      BY <2>2, <2>3 DEF CallsOK
  <1>7. ASSUME NEW r \in Readers, SearchStep(r) \/ ReleaseVersion(r)
        PROVE  [VsNext]_vsVars
    BY <1>7 DEF SearchStep, ReleaseVersion, ReadStep, VsNext
  <1>8. CASE UNCHANGED dbVars
    BY <1>8 DEF dbVars
  <1> QED
    BY <1>1, <1>2, <1>3, <1>4, <1>5, <1>6, <1>7, <1>8 DEF DbNext

\* So the invariants of the parts are kept.
LEMMA NextParts ==
  ASSUME Tables = Table, Faults = {}
  PROVE  PartsInv /\ JoinInv /\ [DbNext]_dbVars => PartsInv'
PROOF
  <1> SUFFICES ASSUME PartsInv, JoinInv, [DbNext]_dbVars PROVE PartsInv'
    OBVIOUS
  <1>1. [RotNext]_rotVars
    BY DbStepIsRotStep DEF JoinInv
  <1>2. [VsNext]_vsVars
    BY DbStepIsVsStep DEF PartsInv, JoinInv
  <1>3. Readable'
    BY <1>1, ReadableKept, DbAssumption, RotationAssumption DEF PartsInv
  <1> QED
    BY <1>1, <1>2, <1>3, NextControl, NextCount, NextFiles, NextSnap, NextComplete
    DEF PartsInv

-----------------------------------------------------------------------------
(* The initial state.                                                      *)

LEMMA InitDb == DbInit => DbInv
PROOF
  <1> SUFFICES ASSUME DbInit PROVE DbInv
    OBVIOUS
  <1>1. RotInit /\ VsInit
    BY DEF DbInit
  <1>2. ControlInv /\ CountInv /\ FileInv /\ SnapInv
    BY <1>1, InitControl, InitCount, InitFile, InitSnap
  <1>3. CompleteInv /\ Readable
    BY <1>1, InitComplete DEF RotInit, Readable, NoTable, Table, Entry
  <1>4. Joined /\ Copied
    BY <1>1 DEF RotInit, VsInit, Joined, Copied
  <1>5. BaseIsNewest
    <2>1. Published = {} /\ \A k \in Keys : base[k] = Absent
      BY <1>1 DEF RotInit, VsInit, Published, NoTable
    <2> QED
      BY <2>1 DEF BaseIsNewest, TopOf
  <1>6. CallsOK
    <2>1. NoTable \in Table
      BY DEF NoTable, Table, Entry
    <2> QED
      BY <1>1, <2>1 DEF DbInit, VsInit, CallsOK
  <1>7. Lookups
    BY DEF DbInit, Lookups
  <1> QED
    BY <1>2, <1>3, <1>4, <1>5, <1>6, <1>7 DEF DbInv, PartsInv, JoinInv

-----------------------------------------------------------------------------
(* The two halves of the worker, and what it has published.                *)

\* A step that neither publishes nor writes an L0 file, and merges at most into
\* an L1 file, leaves the newest published entries as they are.
LEMMA BaseKept ==
  ASSUME CountInv, BaseIsNewest, base' = base, Published' = Published,
         \A f \in Published : data'[f] = data[f]
  PROVE  BaseIsNewest'
PROOF
  <1>1. Published \in SUBSET FileId
    BY PublishedFiles
  <1>2. ASSUME NEW k PROVE TopOf(data', Published, k) = TopOf(data, Published, k)
    BY <1>1, TopSame
  <1> QED
    BY <1>2 DEF BaseIsNewest

\* immutableMT while it is being flushed.
LEMMA FlushedTable ==
  ASSUME ControlInv, fpc \in {"write", "publish", "clear"}
  PROVE  ftab = imm /\ imm \in TableId /\ imm # None /\ mem[imm] \in Table
PROOF
  BY RotationAssumption DEF ControlInv, PendingIsImmutable, Rotating, Flushing,
     RotTypeOK

\* Writers freeze a table before they hand it over, and do not touch it again.
LEMMA WriterJoin ==
  ASSUME ControlInv, CountInv, Joined, Copied, BaseIsNewest,
         NEW w \in Writers, DbWriterStep(w)
  PROVE  Joined' /\ Copied' /\ BaseIsNewest'
PROOF
  <1>1. /\ AppendWAL(w) \/ WriterStep(w) \/ LockAndFreeze(w)
        /\ UNCHANGED <<data, nextL0, wpc, wfile>>
    BY DEF DbWriterStep, vsVars, fileVars, workerVars
  <1>2. UNCHANGED <<fpc, ftab, fdata, base, cpc>>
    BY <1>1 DEF AppendWAL, WriterStep, LoadActive, Insert, CheckSize,
       StoreImmutable, StoreActive, SendAndUnlock, LockAndFreeze, workerVarsR,
       closeVars
  <1>3. BaseIsNewest'
    <2>1. Published' = Published
      BY <1>1 DEF Published
    <2> QED
      BY <1>1, <1>2, <2>1, BaseKept
  <1>4. ~ qclosed
    BY DEF Joined, ControlInv, Stopping
  <1>5. panicked' = panicked
    BY <1>1, <1>4 DEF AppendWAL, WriterStep, LoadActive, Insert, CheckSize,
       StoreImmutable, StoreActive, SendAndUnlock, LockAndFreeze
  <1>6. Joined'
    BY <1>1, <1>2, <1>5 DEF Joined
  <1>7. imm \in TableId \cup {None} /\ active \in TableId
        /\ frozen \in [TableId -> BOOLEAN]
    BY DEF ControlInv, RotTypeOK
  <1>8. CASE UNCHANGED <<mem, imm>> /\ \A t \in TableId : frozen[t] => frozen'[t]
    BY <1>1, <1>2, <1>6, <1>3, <1>7, <1>8 DEF Copied
  <1>9. CASE Insert(w)
    <2>1. UNCHANGED <<imm, frozen>> /\ pc[w] = "insert"
      BY <1>9 DEF Insert
    <2>2. \A t \in TableId : frozen[t] => mem'[t] = mem[t]
      <3>1. CASE frozen[tab[w]]
        BY <1>9, <3>1 DEF Insert, Rejects
      <3>2. CASE ~ frozen[tab[w]]
        BY <1>9, <3>2 DEF Insert, Rejects, ControlInv, RotTypeOK
      <3> QED
        BY <3>1, <3>2
    <2>3. fpc \in {"publish", "clear"} => imm \in TableId /\ imm # None
      BY FlushedTable
    <2>4. fpc \in {"publish", "clear"} => mem'[imm] = mem[imm]
      BY <2>2, <2>3 DEF Copied
    <2> QED
      BY <1>1, <1>2, <1>3, <1>6, <2>1, <2>4 DEF Copied
  <1>10. CASE StoreImmutable(w)
    <2>1. /\ imm = None /\ frozen[active] /\ ~ Flushing
          /\ imm' = active /\ frozen' = frozen
      BY <1>10 DEF StoreImmutable, ControlInv, Rotating, tableVars
    <2>2. fpc' \notin {"publish", "clear"}
      BY <1>2, <2>1 DEF Flushing
    <2> QED
      BY <1>3, <1>6, <2>1, <2>2 DEF Copied
  <1>11. CASE LockAndFreeze(w)
    <2>1. UNCHANGED <<mem, imm>> /\ frozen' \in {frozen, [frozen EXCEPT ![active] = TRUE]}
      BY <1>11 DEF LockAndFreeze, Freeze
    <2> QED
      BY <1>7, <1>8, <2>1
  <1>12. CASE AppendWAL(w) \/ LoadActive(w) \/ CheckSize(w) \/ StoreActive(w)
              \/ SendAndUnlock(w)
    <2>1. UNCHANGED <<mem, imm, frozen>>
      BY <1>12 DEF AppendWAL, LoadActive, CheckSize, StoreActive, SendAndUnlock,
         tableVars
    <2> QED
      BY <1>8, <2>1
  <1> QED
    BY <1>1, <1>9, <1>10, <1>11, <1>12 DEF WriterStep

\* The worker, from the channel to the cleared pointer.
LEMMA WorkerJoin ==
  ASSUME FlushMayFail = FALSE, Readable, ControlInv, CountInv, FileInv, CompleteInv, Joined, Copied, BaseIsNewest,
         \/ DbReceive \/ DbFlushMemTable \/ DbLoadVersion \/ DbStoreVersion
         \/ DbClearImmutable
  PROVE  Joined' /\ Copied' /\ BaseIsNewest'
PROOF
  <1>0. data \in [FileId -> Table] /\ nextL0 \in Int /\ L0Id \subseteq FileId
    BY Numbers DEF CountInv, VsTypeOK, FileId
  <1>1. CASE DbReceive
    <2>1. /\ fpc = "recv" /\ fpc' = "write" /\ wpc = "idle"
          /\ UNCHANGED <<mem, imm, frozen, base, data, wpc, wfile, nextL0, cpc,
                         panicked>>
      BY <1>1 DEF DbReceive, Receive, tableVars, closeVars, vsVars, fileVars,
         workerVars
    <2>2. Published' = Published
      BY <2>1 DEF Published
    <2> QED
      BY <2>1, <2>2, BaseKept DEF Joined, Copied
  <1>2. CASE DbFlushMemTable
    <2>1. /\ fpc = "write" /\ fpc' = "publish" /\ wpc = "idle" /\ wpc' = "load"
          /\ fdata' = mem[ftab] /\ nextL0 \in L0Id /\ wfile' = nextL0
          /\ data' = [data EXCEPT ![nextL0] = mem[ftab]] /\ nextL0' = nextL0 + 1
          /\ UNCHANGED <<mem, imm, frozen, base, cpc, panicked>>
      BY <1>2 DEF DbFlushMemTable, WriteFile, FlushMemTable, tableVars, closeVars
    <2>2. Published' = Published
      BY <1>0, <2>1 DEF Published
    <2>3. \A f \in Published : data'[f] = data[f]
      BY <1>0, <2>1, PublishedFiles
    <2>4. data'[wfile'] = fdata' /\ fdata' = mem'[imm']
      BY <1>0, <2>1, FlushedTable
    <2> QED
      BY <2>1, <2>2, <2>3, <2>4, BaseKept DEF Joined, Copied
  <1>3. CASE DbLoadVersion
    <2>1. /\ wpc = "load" /\ wpc' = "store"
          /\ UNCHANGED <<rotVars, data, wfile, nextL0>>
      BY <1>3 DEF DbLoadVersion, LoadVersion, fileVars
    <2>2. UNCHANGED <<fpc, mem, imm, frozen, base, fdata, cpc, panicked>>
      BY <2>1 DEF rotVars, tableVars, workerVarsR, closeVars
    <2>3. Published' = Published
      BY <2>1 DEF Published
    <2> QED
      BY <2>1, <2>2, <2>3, BaseKept DEF Joined, Copied
  <1>4. CASE DbStoreVersion
    <2>1. /\ fpc = "publish" /\ fpc' = "clear" /\ wpc = "store" /\ wpc' = "clear"
          /\ base' = Overlay(fdata, base)
          /\ UNCHANGED <<mem, imm, frozen, cpc, panicked, data, wfile, nextL0>>
      BY <1>4 DEF DbStoreVersion, Publish, StoreVersion, tableVars, closeVars,
         fileVars
    <2>2. fdata = mem[imm] /\ data[wfile] = fdata /\ fdata \in Table /\ base \in Table
      BY <2>1 DEF Copied, Readable
    <2>3. /\ wfile = nextL0 - 1 /\ wfile \in L0Id
          /\ Published' = Published \cup {wfile} /\ \A f \in Published : f < wfile
      BY <1>0, <2>1 DEF CompleteInv, Fresh, CountInv, Control, Published, L0Id
    <2>4. ASSUME NEW k \in Keys PROVE base'[k] = TopOf(data', Published', k)
      <3>1. TopOf(data, Published \cup {wfile}, k) =
              IF data[wfile][k] # Absent THEN data[wfile][k]
              ELSE TopOf(data, Published, k)
        BY <1>0, <2>3, PublishedFiles, TopAdd
      <3>2. base'[k] = IF fdata[k] = Absent THEN base[k] ELSE fdata[k]
        BY <2>1 DEF Overlay
      <3> QED
        BY <2>1, <2>2, <2>3, <3>1, <3>2 DEF BaseIsNewest
    <2>5. BaseIsNewest'
      BY <2>4 DEF BaseIsNewest
    <2>6. \A k \in Keys : mem[imm][k] # Absent => base'[k] = mem[imm][k]
      BY <2>1, <2>2 DEF Overlay
    <2> QED
      BY <2>1, <2>5, <2>6 DEF Joined, Copied
  <1>5. CASE DbClearImmutable
    <2>1. /\ fpc = "clear" /\ fpc' = "recv" /\ wpc = "clear"
          /\ wpc' \in {"compact", "idle"} /\ imm' = None
          /\ UNCHANGED <<base, cpc, panicked, data, wfile, nextL0>>
      BY <1>5 DEF DbClearImmutable, ClearImmutable, ImmutableCleared, AfterClear,
         closeVars, fileVars
    <2>2. Published' = Published
      BY <2>1 DEF Published
    <2> QED
      BY <2>1, <2>2, BaseKept DEF Joined, Copied
  <1> QED
    BY <1>1, <1>2, <1>3, <1>4, <1>5

\* A compaction, a purge or a read: the worker's tables are left alone, and a
\* merge writes an L1 file.
LEMMA OtherJoin ==
  ASSUME ControlInv, CountInv, FileInv, Joined, Copied, BaseIsNewest,
         UNCHANGED rotVars,
         \/ DbCompact \/ (\E v \in VersionId : DbPurge(v))
         \/ UNCHANGED <<data, wpc, wfile, nextL0>>
  PROVE  Joined' /\ Copied' /\ BaseIsNewest'
PROOF
  <1>1. UNCHANGED <<fpc, mem, imm, frozen, base, fdata, cpc, panicked>>
    BY DEF rotVars, tableVars, workerVarsR, closeVars
  <1>2. /\ wpc' = wpc \/ (wpc = "compact" /\ wpc' = "idle")
        /\ wfile' = wfile /\ nextL0' = nextL0
        /\ data' = data \/ (nextL1 \in L1Id /\ data' = [data EXCEPT ![nextL1] = Merge(captured)])
    <2>1. CASE DbCompact
      <3>1. CASE \E c \in Compactors : LockCompaction(c)
        BY <3>1 DEF LockCompaction, fileVars, workerVars
      <3>2. CASE HolderStep
        <4>1. /\ wpc' = wpc \/ (holder = Worker /\ wpc' = "idle")
              /\ wfile' = wfile /\ nextL0' = nextL0
              /\ data' = data
                 \/ (nextL1 \in L1Id /\ data' = [data EXCEPT ![nextL1] = Merge(captured)])
          BY <3>2 DEF HolderStep, LoadBatch, CompactL0toL1, CompactionFails,
             ReloadVersion, InstallCompacted, ReturnFromCompact, fileVars, workerVars
        <4> QED
          BY <4>1 DEF CountInv, Control
      <3> QED
        BY <2>1, <3>1, <3>2 DEF DbCompact
    <2>2. CASE \E v \in VersionId : DbPurge(v)
      BY <2>2 DEF DbPurge, PurgeStep, PurgeClaim, PurgeRemove, fileVars, workerVars
    <2> QED
      BY <2>1, <2>2
  <1>3. \A f \in L0Id : data'[f] = data[f]
    BY <1>2, FileIds DEF CountInv, VsTypeOK, FileId
  <1>4. Published' = Published /\ Published \subseteq L0Id
    BY <1>2, ConstantsAssumption DEF Published, CountInv, VsTypeOK, L0Id
  <1>5. BaseIsNewest'
    BY <1>1, <1>3, <1>4, BaseKept
  <1>6. Joined'
    BY <1>1, <1>2 DEF Joined
  <1>7. fpc = "publish" => data'[wfile] = data[wfile]
    BY <1>3 DEF Joined, CountInv, Control
  <1> QED
    BY <1>1, <1>2, <1>5, <1>6, <1>7 DEF Copied

-----------------------------------------------------------------------------
(* Lookups.                                                                *)

\* What a lookup sees of a key, table by table, before and after a step.
LEMMA ViewAt ==
  /\ \A k \in Keys : View[k] = IF mem[active][k] = Absent THEN Lower[k]
                               ELSE mem[active][k]
  /\ \A k \in Keys : Lower[k] = IF TableOf(imm)[k] = Absent THEN base[k]
                                ELSE TableOf(imm)[k]
  /\ \A k \in Keys : View'[k] = IF mem'[active'][k] = Absent THEN Lower'[k]
                                ELSE mem'[active'][k]
  /\ \A k \in Keys : Lower'[k] = IF TableOf(imm)'[k] = Absent THEN base'[k]
                                 ELSE TableOf(imm)'[k]
PROOF
  BY DEF View, Lower, Overlay

\* It is an entry.
LEMMA ValueTyped ==
  /\ ControlInv /\ Readable => \A k \in Keys : Value(k) \in Entry
  /\ ControlInv' /\ Readable' => \A k \in Keys : Value(k)' \in Entry
PROOF
  <1>1. ASSUME ControlInv, Readable, NEW k \in Keys PROVE Value(k) \in Entry
    <2>1. mem[active] \in Table /\ base \in Table /\ TableOf(imm) \in Table
      BY <1>1, TablesTyped DEF Readable
    <2>2. View[k] \in Entry
      BY <2>1, ViewAt DEF Table
    <2> QED
      BY <2>2 DEF Value, Visible, Entry
  <1>2. ASSUME ControlInv', Readable', NEW k \in Keys PROVE Value(k)' \in Entry
    <2>1. mem'[active'] \in Table /\ base' \in Table /\ TableOf(imm)' \in Table
      BY <1>2 DEF ControlInv, Readable, RotTypeOK, TableOf, NoTable, Table, Entry
    <2>2. View'[k] \in Entry
      BY <2>1, ViewAt DEF Table
    <2> QED
      BY <2>2 DEF Value, Visible, Entry
  <1> QED
    BY <1>1, <1>2

\* A call that takes no step itself: what the step of another goroutine has to
\* respect.
LEMMA LookupKept ==
  ASSUME NEW r \in Readers, NEW k \in Keys, Lookup(r, k), CallsOK,
         dpc'[r] = dpc[r], dtab'[r] = dtab[r], dgot'[r] = dgot[r],
         rpc'[r] = rpc[r], rver'[r] = rver[r], want'[r] = want[r], got'[r] = got[r],
         window[r][k] \subseteq window'[r][k],
         Visible(View'[k]) \in window'[r][k],
         nextTable' \in Int /\ nextTable \in Int /\ nextTable <= nextTable',
         \A t \in TableId : frozen[t] => frozen'[t],
         \A t \in TableId : \/ mem'[t][k] = mem[t][k]
                            \/ Visible(mem'[t][k]) \in window'[r][k],
         Good(r, k, Lower[k]) => Visible(Lower'[k]) \in window'[r][k],
         dtab[r] = active /\ imm # active =>
           (active' = active /\ imm' # active) \/ Visible(Lower'[k]) \in window'[r][k],
         Good(r, k, Lower[k]) /\ Good(r, k, base[k]) =>
           Visible(base'[k]) \in window'[r][k],
         Good(r, k, Lower[k]) /\ dtab[r] = imm =>
           imm' = imm \/ Visible(base'[k]) \in window'[r][k],
         rpc[r] \in {"acquire", "search"} =>
           Answer(manifest[rver[r]], k)' = Answer(manifest[rver[r]], k)
  PROVE  Lookup(r, k)'
PROOF
  <1>1. dtab[r] \in TableId \cup {None} /\ TableId \subseteq Int
    BY RotationAssumption DEF CallsOK, TableId
  <1>2. /\ Good(r, k, View[k])'
        /\ dgot'[r][k] # Absent => Good(r, k, dgot[r][k])'
    BY DEF Lookup, Good
  <1>3. ASSUME dpc[r] = "searchActive" PROVE ActiveSearched(r, k)'
    <2>1. ActiveSearched(r, k)
      BY <1>3 DEF Lookup
    <2>2. dtab'[r] \in TableId /\ dtab'[r] < nextTable'
      <3>1. dtab[r] \in TableId /\ dtab[r] \in Int /\ dtab[r] < nextTable
        BY <1>1, <2>1 DEF ActiveSearched
      <3>2. dtab[r] < nextTable'
        BY <3>1
      <3> QED
        BY <3>1, <3>2
    <2>3. mem'[dtab'[r]][k] # Absent => Good(r, k, mem[dtab[r]][k])'
      BY <2>1 DEF ActiveSearched, Good
    <2>4. (dtab'[r] = active' /\ imm' # active') \/ Good(r, k, Lower[k])'
      BY <2>1 DEF ActiveSearched, Good
    <2> QED
      BY <2>2, <2>3, <2>4 DEF ActiveSearched
  <1>4. ASSUME dgot[r][k] = Absent PROVE Missing(r, k)'
    <2>1. Missing(r, k)
      BY <1>4 DEF Lookup
    <2>2. dpc[r] \in {"imm", "searchImm", "version", "sst"} => Good(r, k, Lower[k])'
      BY <2>1 DEF Missing, Good
    <2>3. ASSUME dpc[r] = "searchImm" PROVE ImmSearched(r, k)'
      <3>1. ImmSearched(r, k) /\ Good(r, k, Lower[k])
        BY <2>1, <2>3 DEF Missing
      <3>2. dtab'[r] # None => frozen'[dtab'[r]]
        BY <1>1, <3>1 DEF ImmSearched
      <3>3. dtab'[r] # None /\ mem'[dtab'[r]][k] # Absent =>
              Good(r, k, mem[dtab[r]][k])'
        BY <1>1, <3>1 DEF ImmSearched, Good
      <3>4. dtab'[r] = imm' \/ Good(r, k, base[k])'
        BY <3>1 DEF ImmSearched, Good
      <3> QED
        BY <3>2, <3>3, <3>4 DEF ImmSearched
    <2>4. dpc[r] \in {"version", "sst"} => Good(r, k, base[k])'
      BY <2>1 DEF Missing, Good
    <2>5. dpc[r] = "sst" /\ rpc[r] \in {"acquire", "search"} =>
            Good(r, k, Answer(manifest[rver[r]], k))'
      BY <2>1 DEF Missing, Good
    <2>6. /\ dpc[r] = "sst" => k \in want'[r] \/ got'[r][k] # Absent
          /\ dpc[r] = "return" => Good(r, k, Absent)'
      BY <2>1 DEF Missing, Good
    <2> QED
      BY <2>2, <2>3, <2>4, <2>5, <2>6 DEF Missing
  <1> QED
    BY <1>2, <1>3, <1>4 DEF Lookup

\* Steps that move no table and no pointer.
LEMMA LookupUndisturbed ==
  ASSUME ControlInv, CallsOK, NEW r \in Readers, NEW k \in Keys, Lookup(r, k),
         UNCHANGED <<mem, active, imm, base, nextTable>>,
         \A t \in TableId : frozen[t] => frozen'[t],
         dpc'[r] = dpc[r], dtab'[r] = dtab[r], dgot'[r] = dgot[r],
         rpc'[r] = rpc[r], rver'[r] = rver[r], want'[r] = want[r], got'[r] = got[r],
         window[r][k] \subseteq window'[r][k],
         rpc[r] \in {"acquire", "search"} =>
           Answer(manifest[rver[r]], k)' = Answer(manifest[rver[r]], k)
  PROVE  Lookup(r, k)'
PROOF
  <1>1. View' = View /\ Lower' = Lower
    BY DEF View, Lower, TableOf
  <1>2. Visible(View'[k]) \in window'[r][k]
    BY <1>1 DEF Lookup, Good
  <1>3. nextTable \in Int
    BY RotationAssumption DEF ControlInv, RotTypeOK
  <1>4. /\ Good(r, k, Lower[k]) => Visible(Lower'[k]) \in window'[r][k]
        /\ Good(r, k, base[k]) => Visible(base'[k]) \in window'[r][k]
    BY <1>1 DEF Good
  <1> QED
    BY <1>2, <1>3, <1>4, LookupKept

\* The step of a writer: whatever it does to a key, every call under way has
\* seen the value it leaves.
LEMMA WriterLookup ==
  ASSUME ControlInv, ControlInv', Readable, Copied, CallsOK, NEW w \in Writers, DbWriterStep(w),
         NEW r \in Readers, dpc[r] # "idle", NEW k \in Keys, Lookup(r, k)
  PROVE  Lookup(r, k)'
PROOF
  <1>1. /\ AppendWAL(w) \/ WriterStep(w) \/ LockAndFreeze(w)
        /\ UNCHANGED <<vsVars, callVars>>
        /\ window'[r][k] = window[r][k] \cup {Visible(View'[k])}
    BY DEF DbWriterStep, Value
  <1>2. /\ UNCHANGED <<dpc, dtab, dgot, rpc, rver, want, got, manifest, data>>
        /\ UNCHANGED base
    BY <1>1 DEF vsVars, callVars, readVars, versionVars, fileVars, AppendWAL,
       WriterStep, LoadActive, Insert, CheckSize, StoreImmutable, StoreActive,
       SendAndUnlock, LockAndFreeze, workerVarsR
  <1>3. Answer(manifest[rver[r]], k)' = Answer(manifest[rver[r]], k)
    BY <1>2 DEF Answer, Holding
  <1>4. /\ nextTable \in Int /\ nextTable' \in Int /\ TableId \subseteq Int
        /\ active \in TableId /\ imm \in TableId \cup {None} /\ None \notin TableId
        /\ frozen \in [TableId -> BOOLEAN] /\ mem \in [TableId -> Table]
        /\ base \in Table
    BY RotationAssumption DEF ControlInv, Readable, RotTypeOK, TableId
  <1>5. CASE AppendWAL(w) \/ LoadActive(w) \/ CheckSize(w) \/ SendAndUnlock(w)
             \/ LockAndFreeze(w) \/ (Insert(w) /\ frozen[tab[w]])
    <2>1. /\ UNCHANGED <<mem, active, imm, nextTable>>
          /\ frozen' \in {frozen, [frozen EXCEPT ![active] = TRUE]}
      BY <1>5 DEF AppendWAL, LoadActive, CheckSize, SendAndUnlock, LockAndFreeze,
         Freeze, Insert, Rejects, tableVars
    <2>2. \A t \in TableId : frozen[t] => frozen'[t]
      BY <1>4, <2>1
    <2> QED
      BY <1>1, <1>2, <1>3, <2>1, <2>2, LookupUndisturbed
  <1>6. CASE Insert(w) /\ ~ frozen[tab[w]]
    <2>1. /\ tab[w] \in TableId /\ tab[w] < nextTable /\ op[w] \in Op
          /\ UNCHANGED <<active, imm, nextTable, frozen>>
          /\ mem' = [mem EXCEPT ![tab[w]][op[w].key] = op[w].val]
      BY <1>6 DEF Insert, Rejects, ControlInv, Calls
    <2>2. tab[w] = active /\ imm # active
      <3>1. tab[w] = active
        BY <1>6, <2>1 DEF ControlInv, FlushedIsFinal
      <3>2. imm # None => frozen[imm]
        BY DEF Copied
      <3> QED
        BY <1>4, <1>6, <3>1, <3>2
    <2>3. op[w].val # Absent
      BY <2>1, EntriesAssumption DEF Op, Mutation
    <2>4. \A t \in TableId : t # active => mem'[t] = mem[t]
      BY <1>4, <2>1, <2>2
    <2>5. mem'[active][k] = mem[active][k] \/ mem'[active][k] # Absent
      BY <1>4, <2>1, <2>2, <2>3 DEF Table
    <2>6. Lower' = Lower
      <3>1. TableOf(imm)' = TableOf(imm)
        BY <1>4, <2>1, <2>2, <2>4 DEF TableOf
      <3> QED
        BY <1>2, <3>1 DEF Lower
    <2>7. \A t \in TableId : \/ mem'[t][k] = mem[t][k]
                             \/ Visible(mem'[t][k]) \in window'[r][k]
      <3>1. mem'[active][k] # Absent => View'[k] = mem'[active][k]
        BY <2>1, ViewAt
      <3> QED
        BY <1>1, <2>4, <2>5, <3>1
    <2>8. Good(r, k, Lower[k]) => Visible(Lower'[k]) \in window'[r][k]
      BY <1>1, <2>6 DEF Good
    <2>9. Good(r, k, base[k]) => Visible(base'[k]) \in window'[r][k]
      BY <1>1, <1>2 DEF Good
    <2> QED
      BY <1>1, <1>2, <1>3, <1>4, <2>1, <2>7, <2>8, <2>9, LookupKept
  <1>7. CASE StoreImmutable(w)
    <2>1. /\ imm = None /\ imm' = active
          /\ UNCHANGED <<mem, frozen, nextTable, active>>
      BY <1>7 DEF StoreImmutable, ControlInv, Rotating, tableVars
    <2>2. TableOf(imm)' = mem[active] /\ TableOf(imm) = NoTable
      BY <1>4, <2>1 DEF TableOf
    <2>3. NoTable[k] = Absent
      BY DEF NoTable
    <2>4. View'[k] = Lower'[k] /\ Lower[k] = base[k]
      BY <2>1, <2>2, <2>3, ViewAt
    <2>5. Visible(Lower'[k]) \in window'[r][k]
      BY <1>1, <2>4
    <2>6. Good(r, k, Lower[k]) => Visible(base'[k]) \in window'[r][k]
      BY <1>1, <1>2, <2>4 DEF Good
    <2> QED
      BY <1>1, <1>2, <1>3, <1>4, <2>1, <2>5, <2>6, LookupKept
  <1>8. CASE StoreActive(w)
    <2>1. /\ imm = active /\ active' = nextTable /\ nextTable' = nextTable + 1
          /\ UNCHANGED <<mem, frozen, imm>> /\ active' \in TableId
      BY <1>8 DEF StoreActive, NewMemTable, ControlInv, Rotating, RotTypeOK
    <2>2. Lower' = Lower
      BY <1>2, <2>1 DEF Lower, TableOf
    <2>3. Good(r, k, Lower[k]) => Visible(Lower'[k]) \in window'[r][k]
      BY <1>1, <2>2 DEF Good
    <2>4. Good(r, k, base[k]) => Visible(base'[k]) \in window'[r][k]
      BY <1>1, <1>2 DEF Good
    <2> QED
      BY <1>1, <1>2, <1>3, <1>4, <2>1, <2>3, <2>4, LookupKept
  <1> QED
    BY <1>1, <1>5, <1>6, <1>7, <1>8 DEF WriterStep

\* What a Version answers stays what it is while a read uses it.
LEMMA AnswerStays ==
  ASSUME CountInv, SnapInv, [VsNext]_vsVars, NEW r \in Readers, NEW k,
         rver'[r] = rver[r]
  PROVE  Answer(manifest[rver[r]], k)' = Answer(manifest[rver[r]], k)
PROOF
  <1> PICK v \in VersionId : v = rver[r]
    BY DEF CountInv, VsTypeOK
  <1>1. v \notin Unborn
    BY DEF SnapInv, VersionsFixed
  <1>2. /\ manifest'[v] = manifest[v]
        /\ \A f \in FilesOf(manifest[v]) : data'[f] = data[f]
    <2>1. CASE (\E t \in Tables : FlushMemTable(t)) \/ WorkerStep \/ HolderStep
      BY <1>1, <2>1, Frozen DEF SnapInv
    <2>2. CASE \/ \E c \in Compactors : LockCompaction(c)
               \/ \E u \in VersionId : PurgeStep(u)
               \/ \E q \in Readers : StartRead(q) \/ ReadStep(q)
               \/ UNCHANGED vsVars
      BY <2>2 DEF LockCompaction, PurgeStep, PurgeClaim, PurgeRemove, StartRead,
         ReadStep, LoadCurrent, Acquire, ReadSSTable, Release, vsVars, fileVars,
         versionVars
    <2> QED
      BY <2>1, <2>2 DEF VsNext
  <1>3. Answer(manifest[v], k)' = Answer(manifest[v], k)
    BY <1>2, AnswerFrozen
  <1> QED
    BY <1>3

\* The worker publishes and clears a table: a call finds its entries in
\* immutableMT or in the Version it loads later, and meets nothing else.
LEMMA WorkerLookup ==
  ASSUME ControlInv, CountInv, SnapInv, Copied, CallsOK, [VsNext]_vsVars,
         \/ DbReceive \/ DbFlushMemTable \/ DbLoadVersion \/ DbStoreVersion
         \/ DbClearImmutable,
         NEW r \in Readers, NEW k \in Keys, Lookup(r, k)
  PROVE  Lookup(r, k)'
PROOF
  <1>1. UNCHANGED <<callVars, window, readVars>>
    BY DEF DbReceive, DbFlushMemTable, DbLoadVersion, DbStoreVersion,
       DbClearImmutable, FlushMemTable, LoadVersion, StoreVersion, AfterClear, vsVars
  <1>2. UNCHANGED <<dpc, dtab, dgot, rpc, rver, want, got, window>>
    BY <1>1 DEF callVars, readVars
  <1>3. Answer(manifest[rver[r]], k)' = Answer(manifest[rver[r]], k)
    BY <1>2, AnswerStays
  <1>4. nextTable \in Int /\ None \notin TableId /\ active \in TableId
    BY RotationAssumption DEF ControlInv, RotTypeOK
  <1>5. CASE DbReceive \/ DbFlushMemTable \/ DbLoadVersion
    <2>1. UNCHANGED <<mem, active, imm, base, nextTable, frozen>>
      BY <1>5 DEF DbReceive, DbFlushMemTable, DbLoadVersion, Receive, WriteFile,
         rotVars, tableVars, workerVarsR
    <2> QED
      BY <1>2, <1>3, <2>1, LookupUndisturbed
  <1>6. CASE DbStoreVersion
    <2>1. /\ fpc = "publish" /\ base' = Overlay(fdata, base)
          /\ UNCHANGED <<mem, active, imm, nextTable, frozen>>
      BY <1>6 DEF DbStoreVersion, Publish, tableVars
    <2>2. imm \in TableId /\ imm # None /\ fdata = mem[imm]
      BY <2>1, FlushedTable DEF Copied
    <2>3. TableOf(imm) = mem[imm] /\ TableOf(imm)' = mem[imm]
      BY <2>1, <2>2 DEF TableOf
    <2>4. base'[k] = IF mem[imm][k] = Absent THEN base[k] ELSE mem[imm][k]
      BY <2>1, <2>2 DEF Overlay
    <2>5. Lower'[k] = Lower[k] /\ base'[k] = Lower[k]
      BY <2>3, <2>4, ViewAt
    <2>6. View'[k] = View[k]
      BY <2>1, <2>5, ViewAt
    <2>7. /\ Good(r, k, Lower[k]) => Visible(Lower'[k]) \in window'[r][k]
          /\ Good(r, k, Lower[k]) => Visible(base'[k]) \in window'[r][k]
          /\ Visible(View'[k]) \in window'[r][k]
      BY <1>2, <2>5, <2>6 DEF Good, Lookup
    <2> QED
      BY <1>2, <1>3, <1>4, <2>1, <2>7, LookupKept
  <1>7. CASE DbClearImmutable
    <2>1. /\ fpc = "clear" /\ imm' = None
          /\ UNCHANGED <<mem, active, base, nextTable, frozen>>
      BY <1>7 DEF DbClearImmutable, ClearImmutable, ImmutableCleared, tableVars
    <2>2. imm \in TableId /\ imm # None
          /\ (mem[imm][k] # Absent => base[k] = mem[imm][k])
      BY <2>1, FlushedTable DEF Copied
    <2>3. TableOf(imm) = mem[imm] /\ TableOf(imm)' = NoTable /\ NoTable[k] = Absent
      BY <2>1, <2>2 DEF TableOf, NoTable
    <2>4. Lower'[k] = base[k] /\ Lower[k] = base[k] /\ base'[k] = base[k]
      BY <2>1, <2>2, <2>3, ViewAt
    <2>5. View'[k] = View[k]
      BY <2>1, <2>4, ViewAt
    <2>6. /\ Good(r, k, Lower[k]) => Visible(Lower'[k]) \in window'[r][k]
          /\ Good(r, k, Lower[k]) => Visible(base'[k]) \in window'[r][k]
          /\ Visible(View'[k]) \in window'[r][k]
      BY <1>2, <2>4, <2>5 DEF Good, Lookup
    <2>7. imm' # active
      BY <1>4, <2>1
    <2> QED
      BY <1>2, <1>3, <1>4, <2>1, <2>6, <2>7, LookupKept
  <1> QED
    BY <1>5, <1>6, <1>7

\* Compactions, purges and the reads of others.
LEMMA OtherLookup ==
  ASSUME ControlInv, CountInv, SnapInv, CallsOK, [VsNext]_vsVars,
         UNCHANGED rotVars, NEW r \in Readers, NEW k \in Keys, Lookup(r, k),
         dpc'[r] = dpc[r], dtab'[r] = dtab[r], dgot'[r] = dgot[r],
         rpc'[r] = rpc[r], rver'[r] = rver[r], want'[r] = want[r], got'[r] = got[r],
         window'[r] = window[r]
  PROVE  Lookup(r, k)'
PROOF
  <1>1. UNCHANGED <<mem, active, imm, base, nextTable, frozen>>
    BY DEF rotVars, tableVars, workerVarsR
  <1>2. Answer(manifest[rver[r]], k)' = Answer(manifest[rver[r]], k)
    BY AnswerStays
  <1> QED
    BY <1>1, <1>2, LookupUndisturbed

\* A call begins, with the value its keys have.
LEMMA BeginLookup ==
  ASSUME ControlInv, CallsOK, NEW r \in Readers, Get(r) \/ Scan(r),
         NEW k \in dkeys'[r]
  PROVE  Lookup(r, k)'
PROOF
  <1>1. PICK isScan \in BOOLEAN, K \in SUBSET Keys : Begin(r, isScan, K)
    BY DEF Get, Scan
  <1>2. /\ dpc'[r] = "active" /\ dkeys'[r] = K /\ dgot'[r] = NoTable
        /\ window'[r] = [j \in Keys |-> IF j \in K THEN {Value(j)} ELSE {}]
        /\ UNCHANGED rotVars
    BY <1>1 DEF Begin, CallsOK
  <1>3. k \in Keys /\ k \in K /\ dgot'[r][k] = Absent
    BY <1>2 DEF NoTable
  <1>4. View' = View
    BY <1>2 DEF View, TableOf, rotVars, tableVars, workerVarsR
  <1>5. Good(r, k, View[k])'
    BY <1>2, <1>3, <1>4 DEF Good, Value
  <1> QED
    BY <1>2, <1>3, <1>5 DEF Lookup, Missing

\* The MemTable pointers are loaded.
LEMMA PointerLookup ==
  ASSUME ControlInv, Copied, CallsOK, NEW r \in Readers,
         LoadActivePointer(r) \/ LoadImmutablePointer(r),
         NEW k \in Keys, Lookup(r, k)
  PROVE  Lookup(r, k)'
PROOF
  <1>1. /\ UNCHANGED <<rotVars, dgot, window>>
    BY DEF LoadActivePointer, LoadImmutablePointer
  <1>2. /\ UNCHANGED <<mem, active, imm, base, nextTable, frozen>>
        /\ View' = View /\ Lower' = Lower
    BY <1>1 DEF View, Lower, TableOf, rotVars, tableVars, workerVarsR
  <1>3. /\ active \in TableId /\ active < nextTable /\ None \notin TableId
        /\ imm \in TableId \cup {None} /\ r \in DOMAIN dtab /\ r \in DOMAIN dpc
    BY RotationAssumption DEF ControlInv, Made, RotTypeOK, CallsOK
  <1>4. /\ Good(r, k, View[k])'
        /\ dgot'[r][k] # Absent => Good(r, k, dgot[r][k])'
    BY <1>1, <1>2 DEF Lookup, Good
  <1>5. CASE LoadActivePointer(r)
    <2>1. dpc'[r] = "searchActive" /\ dtab'[r] = active
      BY <1>3, <1>5 DEF LoadActivePointer
    <2>2. mem[active][k] # Absent => Good(r, k, mem[active][k])
      BY ViewAt DEF Lookup
    <2>3. imm = active => Lower[k] = View[k]
      BY <1>3, ViewAt DEF TableOf
    <2>4. imm # active \/ Good(r, k, Lower[k])
      BY <2>3 DEF Lookup
    <2>5. ActiveSearched(r, k)'
      BY <1>1, <1>2, <1>3, <2>1, <2>2, <2>4 DEF ActiveSearched, Good
    <2> QED
      BY <1>4, <2>1, <2>5 DEF Lookup, Missing
  <1>6. CASE LoadImmutablePointer(r)
    <2>1. dpc[r] = "imm" /\ dpc'[r] = "searchImm" /\ dtab'[r] = imm
      BY <1>3, <1>6 DEF LoadImmutablePointer
    <2>2. ASSUME dgot[r][k] = Absent PROVE Missing(r, k)'
      <3>1. Good(r, k, Lower[k])
        BY <2>1, <2>2 DEF Lookup, Missing
      <3>2. imm # None /\ mem[imm][k] # Absent => Lower[k] = mem[imm][k]
        BY ViewAt DEF TableOf
      <3>3. imm # None => frozen[imm]
        BY DEF Copied
      <3>4. ImmSearched(r, k)'
        BY <1>1, <1>2, <2>1, <3>1, <3>2, <3>3 DEF ImmSearched, Good
      <3>5. Good(r, k, Lower[k])'
        BY <1>1, <1>2, <3>1 DEF Good
      <3> QED
        BY <2>1, <3>4, <3>5 DEF Missing
    <2> QED
      BY <1>1, <1>4, <2>1, <2>2 DEF Lookup
  <1> QED
    BY <1>5, <1>6

\* A MemTable is searched.
LEMMA TableLookup ==
  ASSUME ControlInv, CallsOK, NEW r \in Readers, SearchMemTable(r),
         NEW k \in dkeys[r], Lookup(r, k)
  PROVE  Lookup(r, k)'
PROOF
  <1>1. /\ UNCHANGED <<rotVars, dtab, window>>
        /\ dpc[r] \in {"searchActive", "searchImm"}
        /\ dgot'[r] = Found(r) /\ dpc'[r] = AfterSearch(r)
        /\ k \in Keys
    BY DEF SearchMemTable, CallsOK
  <1>2. /\ UNCHANGED <<mem, active, imm, base, nextTable, frozen>>
        /\ View' = View /\ Lower' = Lower
    BY <1>1 DEF View, Lower, TableOf, rotVars, tableVars, workerVarsR
  <1>3. dgot'[r][k] = IF dgot[r][k] = Absent THEN TableOf(dtab[r])[k] ELSE dgot[r][k]
    BY <1>1 DEF Found, Unseen
  <1>4. Good(r, k, View[k])'
    BY <1>1, <1>2 DEF Lookup, Good
  <1>5. /\ dtab[r] \in TableId \cup {None} /\ None \notin TableId
        /\ dtab[r] = None => TableOf(dtab[r])[k] = Absent
        /\ dtab[r] # None => TableOf(dtab[r]) = mem[dtab[r]]
    BY <1>1, RotationAssumption DEF CallsOK, TableOf, NoTable
  <1>6. /\ dpc[r] = "searchActive" => ActiveSearched(r, k) /\ dgot[r][k] = Absent
        /\ dpc[r] = "searchImm" /\ dgot[r][k] = Absent =>
             ImmSearched(r, k) /\ Good(r, k, Lower[k])
    BY <1>1 DEF Lookup, Missing, CallsOK, NoTable
  <1>7. dgot'[r][k] # Absent => Good(r, k, dgot[r][k])'
    <2>1. dgot'[r][k] # Absent => Good(r, k, dgot'[r][k])
      BY <1>1, <1>3, <1>5, <1>6 DEF Lookup, ActiveSearched, ImmSearched
    <2> QED
      BY <1>1, <2>1 DEF Good
  <1>8. ASSUME dgot'[r][k] = Absent PROVE Missing(r, k)'
    <2>1. dgot[r][k] = Absent /\ TableOf(dtab[r])[k] = Absent
      BY <1>3, <1>8
    <2>2. dpc'[r] # "return"
      <3>1. ~ dscan[r] => \A j \in dkeys[r] : Found(r)[j] = Absent
        BY <1>1, <1>8 DEF CallsOK
      <3> QED
        BY <1>1, <3>1 DEF AfterSearch
    <2>3. dpc'[r] = IF dpc[r] = "searchActive" THEN "imm" ELSE "version"
      BY <1>1, <2>2 DEF AfterSearch
    <2>4. Good(r, k, Lower[k])
      <3>1. dpc[r] = "searchActive" /\ dtab[r] = active => Lower[k] = View[k]
        BY <1>1, <1>5, <1>6, <2>1, ViewAt DEF ActiveSearched
      <3> QED
        BY <1>1, <1>6, <2>1, <3>1 DEF ActiveSearched, Lookup
    <2>5. dpc[r] = "searchImm" => Good(r, k, base[k])
      <3>1. dtab[r] = imm => Lower[k] = base[k]
        BY <1>1, <2>1, ViewAt
      <3> QED
        BY <1>6, <2>1, <2>4, <3>1 DEF ImmSearched
    <2>6. /\ Good(r, k, Lower[k])'
          /\ dpc[r] = "searchImm" => Good(r, k, base[k])'
      BY <1>1, <1>2, <2>4, <2>5 DEF Good
    <2> QED
      BY <1>1, <2>3, <2>6 DEF Missing
  <1>9. dpc'[r] # "searchActive"
    BY <1>1 DEF AfterSearch
  <1> QED
    BY <1>4, <1>7, <1>8, <1>9 DEF Lookup

\* The current manifest answers what the write path takes the files for.
LEMMA BaseAnswers ==
  ASSUME EmptyKey \notin Keys, CompleteInv, BaseIsNewest
  PROVE  BaseIsManifest
PROOF
  <1>1. \A k \in Keys : NewestPublished(k) = TopOf(data, Published, k)
    BY DEF NewestPublished, Holding, TopOf
  <1> QED
    BY <1>1 DEF CompleteInv, Complete, BaseIsNewest, BaseIsManifest

\* The Version is loaded, acquired, searched and released.
LEMMA VersionLookup ==
  ASSUME EmptyKey \notin Keys, CountInv, SnapInv, CompleteInv, BaseIsNewest,
         CallsOK, [VsNext]_vsVars, NEW r \in Readers,
         SearchVersion(r) \/ SearchStep(r) \/ ReleaseVersion(r),
         NEW k \in dkeys[r], Lookup(r, k)
  PROVE  Lookup(r, k)'
PROOF
  <1>1. UNCHANGED <<rotVars, window>> /\ k \in Keys
    BY DEF SearchVersion, SearchStep, ReleaseVersion, CallsOK
  <1>2. /\ base' = base /\ View' = View /\ Lower' = Lower
    BY <1>1 DEF View, Lower, TableOf, rotVars, tableVars, workerVarsR
  <1>3. Good(r, k, View[k])'
    BY <1>1, <1>2 DEF Lookup, Good
  <1>4. /\ rpc \in [Readers -> {"idle", "load", "acquire", "search"}]
        /\ rver \in [Readers -> VersionId] /\ want \in [Readers -> SUBSET Keys]
        /\ got \in [Readers -> Table] /\ dgot \in [Readers -> Table]
        /\ r \in DOMAIN dpc
    BY DEF CountInv, VsTypeOK, CallsOK
  <1>5. CASE SearchVersion(r)
    <2>1. /\ dpc[r] = "version" /\ dpc'[r] = "sst" /\ dgot' = dgot
          /\ rpc'[r] = "load" /\ want'[r] = Unseen(r)
      BY <1>4, <1>5 DEF SearchVersion, BeginRead
    <2>2. dgot[r][k] = Absent => Missing(r, k)'
      <3>1. dgot[r][k] = Absent => k \in Unseen(r)
        BY DEF Unseen
      <3>2. dgot[r][k] = Absent => Good(r, k, Lower[k])' /\ Good(r, k, base[k])'
        BY <1>1, <1>2, <2>1 DEF Lookup, Missing, Good
      <3> QED
        BY <2>1, <3>1, <3>2 DEF Missing
    <2> QED
      BY <1>1, <1>3, <2>1, <2>2 DEF Lookup, Good
  <1>6. CASE SearchStep(r)
    <2>1. /\ dpc[r] = "sst" /\ UNCHANGED <<dpc, dgot>>
          /\ LoadCurrent(r) \/ Acquire(r) \/ ReadSSTable(r)
      BY <1>6 DEF SearchStep, callVars
    <2>2. ASSUME dgot[r][k] = Absent PROVE Missing(r, k)'
      <3>1. /\ Good(r, k, Lower[k]) /\ Good(r, k, base[k])
            /\ k \in want[r] \/ got[r][k] # Absent
            /\ rpc[r] \in {"acquire", "search"} =>
                 Good(r, k, Answer(manifest[rver[r]], k))
        BY <2>1, <2>2 DEF Lookup, Missing
      <3>2. k \in want'[r] \/ got'[r][k] # Absent
        <4>1. CASE LoadCurrent(r) \/ Acquire(r)
          BY <3>1, <4>1 DEF LoadCurrent, Acquire
        <4>2. CASE ReadSSTable(r)
          <5> DEFINE f == NextFile(left[r])
                     hit == {j \in want[r] : data[f][j] # Absent}
          <5>1. \/ got'[r] = got[r] /\ want'[r] = want[r]
                \/ /\ got'[r] = [j \in Keys |-> IF j \in hit THEN data[f][j]
                                                ELSE got[r][j]]
                   /\ want'[r] = want[r] \ hit
            BY <1>4, <4>2 DEF ReadSSTable
          <5> QED
            BY <1>1, <3>1, <5>1
        <4> QED
          BY <2>1, <4>1, <4>2
      <3>3. rpc'[r] \in {"acquire", "search"} =>
              Good(r, k, Answer(manifest[rver[r]], k))'
        <4>1. CASE LoadCurrent(r)
          <5>1. rver'[r] = current /\ UNCHANGED <<manifest, data>>
            BY <1>4, <4>1 DEF LoadCurrent, fileVars, versionVars
          <5>2. Answer(manifest[rver[r]], k)' = Answer(manifest[current], k)
            BY <5>1 DEF Answer, Holding
          <5>3. Answer(manifest[current], k) = base[k]
            BY <1>1, BaseAnswers DEF BaseIsManifest
          <5> QED
            BY <1>1, <3>1, <5>2, <5>3 DEF Good
        <4>2. CASE Acquire(r) \/ ReadSSTable(r)
          <5>1. rver' = rver /\ rpc[r] \in {"acquire", "search"}
            BY <4>2 DEF Acquire, ReadSSTable
          <5>2. Answer(manifest[rver[r]], k)' = Answer(manifest[rver[r]], k)
            BY <5>1, AnswerStays
          <5> QED
            BY <1>1, <3>1, <5>1, <5>2 DEF Good
        <4> QED
          BY <2>1, <4>1, <4>2
      <3>4. Good(r, k, Lower[k])' /\ Good(r, k, base[k])'
        BY <1>1, <1>2, <3>1 DEF Good
      <3> QED
        BY <2>1, <3>2, <3>3, <3>4 DEF Missing
    <2> QED
      BY <1>1, <1>3, <2>1, <2>2 DEF Lookup, Good
  <1>7. CASE ReleaseVersion(r)
    <2>1. /\ dpc[r] = "sst" /\ rpc[r] = "search" /\ left[r] = {}
          /\ dpc'[r] = IF err[r] THEN "failed" ELSE "return"
          /\ dgot'[r] = Overlay(dgot[r], got[r])
      BY <1>4, <1>7 DEF ReleaseVersion, Release
    <2>2. dgot'[r][k] = IF dgot[r][k] = Absent THEN got[r][k] ELSE dgot[r][k]
      BY <1>1, <2>1 DEF Overlay
    <2>3. dgot[r][k] = Absent =>
            /\ Good(r, k, Answer(manifest[rver[r]], k))
            /\ k \in want[r] \/ got[r][k] # Absent
      BY <2>1 DEF Lookup, Missing
    <2>4. /\ got[r][k] # Absent => got[r][k] = Answer(manifest[rver[r]], k)
          /\ ~ err[r] /\ k \in want[r] => Answer(manifest[rver[r]], k) = Absent
      <3>1. Snapshot(r)
        BY <2>1 DEF SnapInv, Snapshots
      <3>2. ReadsOneSnapshot
        BY SnapReads
      <3> QED
        BY <1>1, <2>1, <3>1, <3>2 DEF Snapshot, ReadsOneSnapshot
    <2>5. dgot'[r][k] # Absent => Good(r, k, dgot[r][k])'
      <3>1. dgot'[r][k] # Absent => Good(r, k, dgot'[r][k])
        BY <2>2, <2>3, <2>4 DEF Lookup
      <3> QED
        BY <1>1, <3>1 DEF Good
    <2>6. dgot'[r][k] = Absent /\ dpc'[r] = "return" => Good(r, k, Absent)'
      <3>1. dgot'[r][k] = Absent /\ dpc'[r] = "return" => Good(r, k, Absent)
        BY <2>1, <2>2, <2>3, <2>4
      <3> QED
        BY <1>1, <3>1 DEF Good
    <2> QED
      BY <1>3, <2>1, <2>5, <2>6 DEF Lookup, Missing
  <1> QED
    BY <1>5, <1>6, <1>7

-----------------------------------------------------------------------------
(* The calls.                                                              *)

\* The clauses of CallsOK about one call.
CallOK(r) ==
  /\ dpc[r] = "sst" <=> rpc[r] # "idle"
  /\ dpc[r] # "idle" /\ ~ dscan[r] => \E k \in Keys : dkeys[r] = {k}
  /\ dpc[r] \in {"active", "searchActive"} => dgot[r] = NoTable
  /\ dpc[r] \in {"imm", "searchImm", "version"} /\ ~ dscan[r] =>
       Unseen(r) = dkeys[r]

\* Steps of writers, of the worker, of compactions and of purgers.
LEMMA OtherCalls ==
  ASSUME CallsOK, UNCHANGED <<callVars, rpc>>,
         window' \in [Readers -> [Keys -> SUBSET Entry]]
  PROVE  CallsOK'
PROOF
  BY DEF CallsOK, callVars, Unseen

\* The steps of a call.
LEMMA OwnCalls ==
  ASSUME ControlInv, Readable, CountInv, CallsOK, NEW r \in Readers,
         \/ Get(r) \/ Scan(r)
         \/ LoadActivePointer(r) \/ LoadImmutablePointer(r)
         \/ SearchMemTable(r) \/ SearchVersion(r) \/ SearchStep(r)
         \/ ReleaseVersion(r) \/ Return(r)
  PROVE  /\ CallsOK'
         /\ \A q \in Readers : q # r =>
              /\ dpc'[q] = dpc[q] /\ dkeys'[q] = dkeys[q] /\ dscan'[q] = dscan[q]
              /\ dtab'[q] = dtab[q] /\ dgot'[q] = dgot[q] /\ window'[q] = window[q]
              /\ rpc'[q] = rpc[q] /\ rver'[q] = rver[q] /\ want'[q] = want[q]
              /\ got'[q] = got[q]
PROOF
  <1>1. /\ dpc \in [Readers -> {"idle", "active", "searchActive", "imm",
                                "searchImm", "version", "sst", "return", "failed"}]
        /\ dkeys \in [Readers -> SUBSET Keys] /\ dscan \in [Readers -> BOOLEAN]
        /\ dtab \in [Readers -> TableId \cup {None}] /\ dgot \in [Readers -> Table]
        /\ window \in [Readers -> [Keys -> SUBSET Entry]]
        /\ rpc \in [Readers -> {"idle", "load", "acquire", "search"}]
        /\ rver \in [Readers -> VersionId] /\ want \in [Readers -> SUBSET Keys]
        /\ got \in [Readers -> Table]
        /\ active \in TableId /\ imm \in TableId \cup {None}
        /\ NoTable \in Table
    BY DEF CallsOK, CountInv, VsTypeOK, ControlInv, RotTypeOK, NoTable, Table, Entry
  <1>2. CallOK(r) /\ \A q \in Readers : CallOK(q)
    BY DEF CallsOK, CallOK
  <1> DEFINE Typed ==
        /\ dpc \in [Readers -> {"idle", "active", "searchActive", "imm",
                                "searchImm", "version", "sst", "return", "failed"}]
        /\ dkeys \in [Readers -> SUBSET Keys] /\ dscan \in [Readers -> BOOLEAN]
        /\ dtab \in [Readers -> TableId \cup {None}] /\ dgot \in [Readers -> Table]
        /\ window \in [Readers -> [Keys -> SUBSET Entry]]
      Apart ==
        \A q \in Readers : q # r =>
          /\ dpc'[q] = dpc[q] /\ dkeys'[q] = dkeys[q] /\ dscan'[q] = dscan[q]
          /\ dtab'[q] = dtab[q] /\ dgot'[q] = dgot[q] /\ window'[q] = window[q]
          /\ rpc'[q] = rpc[q] /\ rver'[q] = rver[q] /\ want'[q] = want[q]
          /\ got'[q] = got[q]
  <1> SUFFICES Typed' /\ Apart /\ CallOK(r)'
    <2>1. ASSUME Apart, NEW q \in Readers, q # r PROVE CallOK(q)'
      <3>1. CallOK(q)
        BY <1>2
      <3> QED
        BY <2>1, <3>1 DEF CallOK, Unseen
    <2> QED
      BY <2>1 DEF CallsOK, CallOK
  <1>3. CASE Get(r) \/ Scan(r)
    <2>1. PICK isScan \in BOOLEAN, K \in SUBSET Keys :
            Begin(r, isScan, K) /\ (~ isScan => \E k \in Keys : K = {k})
      BY <1>3 DEF Get, Scan
    <2>2. /\ dpc[r] = "idle" /\ dpc' = [dpc EXCEPT ![r] = "active"]
          /\ dkeys' = [dkeys EXCEPT ![r] = K] /\ dscan' = [dscan EXCEPT ![r] = isScan]
          /\ dgot' = [dgot EXCEPT ![r] = NoTable] /\ dtab' = [dtab EXCEPT ![r] = None]
          /\ window' = [window EXCEPT ![r] =
                          [k \in Keys |-> IF k \in K THEN {Value(k)} ELSE {}]]
          /\ UNCHANGED <<rpc, rver, want, got>>
      BY <2>1 DEF Begin, vsVars, readVars
    <2>3. [k \in Keys |-> IF k \in K THEN {Value(k)} ELSE {}] \in [Keys -> SUBSET Entry]
      BY ValueTyped
    <2>4. Typed' /\ Apart
      BY <1>1, <2>2, <2>3
    <2>5. CallOK(r)'
      BY <1>1, <1>2, <2>1, <2>2 DEF CallOK
    <2> QED
      BY <2>4, <2>5
  <1>4. CASE LoadActivePointer(r) \/ LoadImmutablePointer(r)
    <2>1. /\ \/ dpc[r] = "active" /\ dpc' = [dpc EXCEPT ![r] = "searchActive"]
             \/ dpc[r] = "imm" /\ dpc' = [dpc EXCEPT ![r] = "searchImm"]
          /\ dtab' \in {[dtab EXCEPT ![r] = active], [dtab EXCEPT ![r] = imm]}
          /\ UNCHANGED <<dkeys, dscan, dgot, window, rpc, rver, want, got>>
      BY <1>4 DEF LoadActivePointer, LoadImmutablePointer, vsVars, readVars
    <2>2. PICK t \in TableId \cup {None} : dtab' = [dtab EXCEPT ![r] = t]
      BY <1>1, <2>1
    <2>3. PICK p \in {"searchActive", "searchImm"} : dpc' = [dpc EXCEPT ![r] = p]
      BY <2>1
    <2>4. Typed' /\ Apart
      BY <1>1, <2>1, <2>2, <2>3
    <2>5. CallOK(r)'
      BY <1>1, <1>2, <2>1 DEF CallOK, Unseen
    <2> QED
      BY <2>4, <2>5
  <1>5. CASE SearchMemTable(r)
    <2>1. /\ dpc[r] \in {"searchActive", "searchImm"}
          /\ dgot' = [dgot EXCEPT ![r] = Found(r)]
          /\ dpc' = [dpc EXCEPT ![r] = AfterSearch(r)]
          /\ UNCHANGED <<dkeys, dscan, dtab, window, rpc, rver, want, got>>
      BY <1>5 DEF SearchMemTable, vsVars, readVars
    <2>2. Found(r) \in Table
      <3>1. TableOf(dtab[r]) \in Table
        BY <1>1 DEF TableOf, ControlInv, RotTypeOK
      <3> QED
        BY <1>1, <3>1 DEF Found, Table
    <2>3. AfterSearch(r) \in {"return", "imm", "version"}
      BY DEF AfterSearch
    <2>4. Typed' /\ Apart
      BY <1>1, <2>1, <2>2, <2>3
    <2>5. AfterSearch(r) # "return" /\ ~ dscan[r] =>
            \A k \in dkeys[r] : Found(r)[k] = Absent
      <3> SUFFICES ASSUME AfterSearch(r) # "return", ~ dscan[r],
                          NEW k \in dkeys[r], Found(r)[k] # Absent
                   PROVE  FALSE
        OBVIOUS
      <3>1. ~ dscan[r] /\ \E j \in dkeys[r] : Found(r)[j] # Absent
        OBVIOUS
      <3> QED
        BY <3>1 DEF AfterSearch
    <2>6. dpc'[r] # "return" /\ ~ dscan[r] => Unseen(r)' = dkeys[r]
      BY <1>1, <2>1, <2>5 DEF Unseen
    <2>7. CallOK(r)'
      BY <1>1, <1>2, <2>1, <2>3, <2>6 DEF CallOK
    <2> QED
      BY <2>4, <2>7
  <1>6. CASE SearchVersion(r)
    <2>1. /\ dpc[r] = "version" /\ dpc' = [dpc EXCEPT ![r] = "sst"]
          /\ rpc' = [rpc EXCEPT ![r] = "load"]
          /\ want' = [want EXCEPT ![r] = Unseen(r)]
          /\ UNCHANGED <<dkeys, dscan, dtab, dgot, window, rver, got>>
      BY <1>6 DEF SearchVersion, BeginRead
    <2>2. Typed' /\ Apart
      BY <1>1, <2>1
    <2>3. CallOK(r)'
      BY <1>1, <1>2, <2>1 DEF CallOK
    <2> QED
      BY <2>2, <2>3
  <1>7. CASE SearchStep(r)
    <2>1. /\ dpc[r] = "sst"
          /\ UNCHANGED <<dpc, dkeys, dscan, dtab, dgot, window>>
          /\ LoadCurrent(r) \/ Acquire(r) \/ ReadSSTable(r)
      BY <1>7 DEF SearchStep, callVars
    <2>2. /\ rpc'[r] # "idle"
          /\ \A q \in Readers : q # r =>
               /\ rpc'[q] = rpc[q] /\ rver'[q] = rver[q] /\ want'[q] = want[q]
               /\ got'[q] = got[q]
      BY <1>1, <2>1 DEF LoadCurrent, Acquire, ReadSSTable
    <2>3. Typed' /\ Apart
      BY <1>1, <2>1, <2>2
    <2>4. CallOK(r)'
      BY <1>2, <2>1, <2>2 DEF CallOK
    <2> QED
      BY <2>3, <2>4
  <1>8. CASE ReleaseVersion(r)
    <2>1. /\ dpc[r] = "sst"
          /\ dpc' = [dpc EXCEPT ![r] = IF err[r] THEN "failed" ELSE "return"]
          /\ rpc' = [rpc EXCEPT ![r] = "idle"] /\ rver' = [rver EXCEPT ![r] = 0]
          /\ want' = [want EXCEPT ![r] = {}] /\ got' = [got EXCEPT ![r] = NoTable]
          /\ dgot' = [dgot EXCEPT ![r] = Overlay(dgot[r], got[r])]
          /\ UNCHANGED <<dkeys, dscan, dtab, window>>
      BY <1>8 DEF ReleaseVersion, Release
    <2>2. Overlay(dgot[r], got[r]) \in Table
      BY <1>1, OverlayType
    <2>3. Typed' /\ Apart
      BY <1>1, <2>1, <2>2
    <2>4. CallOK(r)'
      BY <1>1, <1>2, <2>1 DEF CallOK
    <2> QED
      BY <2>3, <2>4
  <1>9. CASE Return(r)
    <2>1. /\ dpc[r] \in {"return", "failed"} /\ dpc' = [dpc EXCEPT ![r] = "idle"]
          /\ dkeys' = [dkeys EXCEPT ![r] = {}] /\ dscan' = [dscan EXCEPT ![r] = FALSE]
          /\ dtab' = [dtab EXCEPT ![r] = None] /\ dgot' = [dgot EXCEPT ![r] = NoTable]
          /\ window' = [window EXCEPT ![r] = [k \in Keys |-> {}]]
          /\ UNCHANGED <<rpc, rver, want, got>>
      BY <1>9 DEF Return, vsVars, readVars
    <2>2. Typed' /\ Apart
      BY <1>1, <2>1
    <2>3. CallOK(r)'
      BY <1>1, <1>2, <2>1 DEF CallOK
    <2> QED
      BY <2>2, <2>3
  <1> QED
    BY <1>3, <1>4, <1>5, <1>6, <1>7, <1>8, <1>9

-----------------------------------------------------------------------------
(* The invariant is inductive.                                             *)

\* The step of call r leaves the write path alone, and the files as well.
LEMMA CallJoin ==
  ASSUME ControlInv, CountInv, FileInv, Joined, Copied, BaseIsNewest,
         NEW r \in Readers,
         \/ Get(r) \/ Scan(r)
         \/ LoadActivePointer(r) \/ LoadImmutablePointer(r)
         \/ SearchMemTable(r) \/ SearchVersion(r) \/ SearchStep(r)
         \/ ReleaseVersion(r) \/ Return(r)
  PROVE  Joined' /\ Copied' /\ BaseIsNewest' /\ UNCHANGED rotVars
PROOF
  <1>1. UNCHANGED rotVars /\ UNCHANGED <<data, wpc, wfile, nextL0>>
    BY CallKeepsParts DEF SearchVersion, SearchStep, ReleaseVersion, LoadCurrent,
       Acquire, ReadSSTable, Release, vsVars, fileVars, workerVars
  <1> QED
    BY <1>1, OtherJoin

\* The lookups of call r after a step of its own.
LEMMA CallLookup ==
  ASSUME EmptyKey \notin Keys, PartsInv, JoinInv, [VsNext]_vsVars,
         NEW r \in Readers, NEW k \in dkeys'[r],
         dpc[r] # "idle" => \A j \in dkeys[r] : Lookup(r, j),
         dpc'[r] # "idle",
         \/ Get(r) \/ Scan(r)
         \/ LoadActivePointer(r) \/ LoadImmutablePointer(r)
         \/ SearchMemTable(r) \/ SearchVersion(r) \/ SearchStep(r)
         \/ ReleaseVersion(r) \/ Return(r)
  PROVE  Lookup(r, k)'
PROOF
  <1>1. CASE Get(r) \/ Scan(r)
    BY <1>1, BeginLookup DEF PartsInv, JoinInv
  <1>2. CASE Return(r)
    BY <1>2 DEF Return, JoinInv, CallsOK
  <1>3. CASE \/ LoadActivePointer(r) \/ LoadImmutablePointer(r)
             \/ SearchMemTable(r) \/ SearchVersion(r) \/ SearchStep(r)
             \/ ReleaseVersion(r)
    <2>1. dpc[r] # "idle" /\ dkeys' = dkeys
      BY <1>3 DEF LoadActivePointer, LoadImmutablePointer, SearchMemTable,
         SearchVersion, SearchStep, ReleaseVersion, callVars
    <2>2. k \in dkeys[r] /\ k \in Keys /\ Lookup(r, k)
      BY <2>1 DEF JoinInv, CallsOK
    <2>3. CASE LoadActivePointer(r) \/ LoadImmutablePointer(r)
      BY <2>2, <2>3, PointerLookup DEF PartsInv, JoinInv
    <2>4. CASE SearchMemTable(r)
      BY <2>2, <2>4, TableLookup DEF PartsInv, JoinInv
    <2>5. CASE SearchVersion(r) \/ SearchStep(r) \/ ReleaseVersion(r)
      BY <2>2, <2>5, VersionLookup DEF PartsInv, JoinInv
    <2> QED
      BY <1>3, <2>3, <2>4, <2>5
  <1> QED
    BY <1>1, <1>2, <1>3

LEMMA NextDb ==
  ASSUME Tables = Table, Faults = {}, EmptyKey \notin Keys
  PROVE  DbInv /\ [DbNext]_dbVars => DbInv'
PROOF
  <1> SUFFICES ASSUME PartsInv, JoinInv, Lookups, [DbNext]_dbVars PROVE DbInv'
    BY DEF DbInv
  <1>1. PartsInv'
    BY NextParts
  <1>2. [VsNext]_vsVars
    BY DbStepIsVsStep DEF PartsInv, JoinInv
  <1>3. /\ ControlInv /\ CountInv /\ FileInv /\ SnapInv /\ CompleteInv
        /\ Joined /\ Copied /\ BaseIsNewest /\ CallsOK /\ ControlInv'
        /\ Readable /\ Readable' /\ FlushMayFail = FALSE
    BY <1>1, DbAssumption, RotationAssumption DEF PartsInv, JoinInv
  <1>4. ASSUME NEW r \in Readers, dpc[r] # "idle", NEW k \in dkeys[r]
        PROVE  k \in Keys /\ Lookup(r, k)
    BY <1>3, <1>4 DEF Lookups, CallsOK
  <1>5. ASSUME NEW w \in Writers, DbWriterStep(w) PROVE JoinInv' /\ Lookups'
    <2>1. Joined' /\ Copied' /\ BaseIsNewest'
      BY <1>3, <1>5, WriterJoin
    <2>2. UNCHANGED <<callVars, rpc>>
      BY <1>5 DEF DbWriterStep, vsVars, readVars
    <2>3. window' \in [Readers -> [Keys -> SUBSET Entry]]
      <3>1. \A q \in Readers, k \in Keys : window[q][k] \in SUBSET Entry
        BY <1>3 DEF CallsOK
      <3>2. \A k \in Keys : Value(k)' \in Entry
        BY <1>3, ValueTyped
      <3> QED
        BY <1>5, <3>1, <3>2 DEF DbWriterStep
    <2>4. CallsOK'
      BY <1>3, <2>2, <2>3, OtherCalls
    <2>5. ASSUME NEW r \in Readers, dpc'[r] # "idle", NEW k \in dkeys'[r]
          PROVE  Lookup(r, k)'
      <3>1. dpc[r] # "idle" /\ k \in dkeys[r]
        BY <2>2, <2>5 DEF callVars
      <3>2. k \in Keys /\ Lookup(r, k)
        BY <1>4, <3>1
      <3> QED
        BY <1>3, <1>5, <3>1, <3>2, WriterLookup
    <2> QED
      BY <2>1, <2>4, <2>5 DEF JoinInv, Lookups
  <1>6. ASSUME \/ DbReceive \/ DbFlushMemTable \/ DbLoadVersion \/ DbStoreVersion
               \/ DbClearImmutable
        PROVE  JoinInv' /\ Lookups'
    <2>1. Joined' /\ Copied' /\ BaseIsNewest'
      BY <1>3, <1>6, WorkerJoin
    <2>2. UNCHANGED <<callVars, window, rpc>>
      BY <1>6 DEF DbReceive, DbFlushMemTable, DbLoadVersion, DbStoreVersion,
         DbClearImmutable, FlushMemTable, LoadVersion, StoreVersion, AfterClear,
         vsVars, readVars
    <2>3. CallsOK'
      BY <1>3, <2>2, OtherCalls DEF CallsOK
    <2>4. ASSUME NEW r \in Readers, dpc'[r] # "idle", NEW k \in dkeys'[r]
          PROVE  Lookup(r, k)'
      <3>1. dpc[r] # "idle" /\ k \in dkeys[r]
        BY <2>2, <2>4 DEF callVars
      <3>2. k \in Keys /\ Lookup(r, k)
        BY <1>4, <3>1
      <3> QED
        BY <1>2, <1>3, <1>6, <3>2, WorkerLookup
    <2> QED
      BY <2>1, <2>3, <2>4 DEF JoinInv, Lookups
  <1>7. ASSUME DbCompact \/ (\E v \in VersionId : DbPurge(v)) \/ UNCHANGED dbVars
        PROVE  JoinInv' /\ Lookups'
    <2>1. UNCHANGED <<rotVars, callVars, window, readVars>>
      BY <1>7 DEF DbCompact, DbPurge, LockCompaction, HolderStep, PurgeStep,
         PurgeClaim, PurgeRemove, dbVars, vsVars, LoadBatch,
         CompactL0toL1, CompactionFails, ReloadVersion, InstallCompacted
    <2>2. UNCHANGED rotVars /\ UNCHANGED <<callVars, rpc>> /\ UNCHANGED window
      BY <2>1 DEF readVars
    <2>3. Joined' /\ Copied' /\ BaseIsNewest'
      <3>1. \/ DbCompact \/ (\E v \in VersionId : DbPurge(v))
            \/ UNCHANGED <<data, wpc, wfile, nextL0>>
        BY <1>7 DEF dbVars, vsVars, fileVars, workerVars
      <3> QED
        BY <1>3, <2>2, <3>1, OtherJoin
    <2>4. CallsOK'
      BY <1>3, <2>2, OtherCalls DEF CallsOK
    <2>5. ASSUME NEW r \in Readers, dpc'[r] # "idle", NEW k \in dkeys'[r]
          PROVE  Lookup(r, k)'
      <3>1. dpc[r] # "idle" /\ k \in dkeys[r]
        BY <2>2, <2>5 DEF callVars
      <3>2. k \in Keys /\ Lookup(r, k)
        BY <1>4, <3>1
      <3>3. UNCHANGED <<dpc, dtab, dgot, rpc, rver, want, got, window>>
        BY <2>1 DEF callVars, readVars
      <3> QED
        BY <1>2, <1>3, <2>2, <3>2, <3>3, OtherLookup
    <2> QED
      BY <2>3, <2>4, <2>5 DEF JoinInv, Lookups
  <1>8. ASSUME NEW r \in Readers,
               \/ Get(r) \/ Scan(r)
               \/ LoadActivePointer(r) \/ LoadImmutablePointer(r)
               \/ SearchMemTable(r) \/ SearchVersion(r) \/ SearchStep(r)
               \/ ReleaseVersion(r) \/ Return(r)
        PROVE  JoinInv' /\ Lookups'
    <2>1. Joined' /\ Copied' /\ BaseIsNewest' /\ UNCHANGED rotVars
      BY <1>3, <1>8, CallJoin
    <2>2. /\ CallsOK'
          /\ \A q \in Readers : q # r =>
               /\ dpc'[q] = dpc[q] /\ dkeys'[q] = dkeys[q] /\ dscan'[q] = dscan[q]
               /\ dtab'[q] = dtab[q] /\ dgot'[q] = dgot[q] /\ window'[q] = window[q]
               /\ rpc'[q] = rpc[q] /\ rver'[q] = rver[q] /\ want'[q] = want[q]
               /\ got'[q] = got[q]
      BY <1>3, <1>8, OwnCalls
    <2>3. ASSUME NEW q \in Readers, dpc'[q] # "idle", NEW k \in dkeys'[q]
          PROVE  Lookup(q, k)'
      <3>1. CASE q = r
        <4>1. dpc[r] # "idle" => \A j \in dkeys[r] : Lookup(r, j)
          BY <1>4
        <4>2. dpc'[r] # "idle" /\ k \in dkeys'[r]
          BY <2>3, <3>1
        <4>3. Lookup(r, k)'
          BY <1>2, <1>8, <4>1, <4>2, CallLookup
        <4> QED
          BY <3>1, <4>3
      <3>2. CASE q # r
        <4>1. dpc[q] # "idle" /\ k \in dkeys[q]
          BY <2>2, <2>3, <3>2
        <4>2. k \in Keys /\ Lookup(q, k)
          BY <1>4, <4>1
        <4> QED
          BY <1>2, <1>3, <2>1, <2>2, <3>2, <4>2, OtherLookup
      <3> QED
        BY <3>1, <3>2
    <2> QED
      BY <2>1, <2>2, <2>3 DEF JoinInv, Lookups
  <1> QED
    BY <1>1, <1>5, <1>6, <1>7, <1>8 DEF DbInv, DbNext

-----------------------------------------------------------------------------
(* Theorems.                                                               *)

\* The engine is made of its parts: under Get, Scan, Put and Delete the write
\* path (db.go:304-376) and the manifest (version.go, compactor.go) behave as
\* Rotation and VersionSet say, so what is proved of them holds of the engine.
THEOREM EngineIsItsParts ==
  ASSUME Tables = Table, Faults = {}, EmptyKey \notin Keys
  PROVE  DbSpec => RotSpec /\ VsSpec
PROOF
  <1>1. DbInit => RotInit /\ VsInit
    BY DEF DbInit
  <1>2. DbInv /\ [DbNext]_dbVars => [RotNext]_rotVars
    BY DbStepIsRotStep DEF DbInv, JoinInv
  <1>3. DbInv /\ [DbNext]_dbVars => [VsNext]_vsVars
    BY DbStepIsVsStep DEF DbInv, JoinInv, PartsInv
  <1> QED
    BY <1>1, <1>2, <1>3, InitDb, NextDb, PTL DEF DbSpec, RotSpec, VsSpec

\* What the write path believes to be on disk is what a lookup in the current
\* manifest answers, for every key: flushWorker publishes a table before it
\* clears immutableMT, and compaction changes no answer (db.go:405-428).
THEOREM BaseStaysManifest ==
  ASSUME Tables = Table, Faults = {}, EmptyKey \notin Keys
  PROVE  DbSpec => []BaseIsManifest
PROOF
  <1>1. DbInv => BaseIsManifest
    BY BaseAnswers DEF DbInv, PartsInv, JoinInv
  <1> QED
    BY <1>1, InitDb, NextDb, PTL DEF DbSpec

\* Get and Scan are linearizable key by key: the value returned is one the key
\* had between the call and the return, although activeMT, immutableMT and
\* currentVersion are loaded one after the other (db.go:141-202, 209-303).
THEOREM ReadsStayInWindow ==
  ASSUME Tables = Table, Faults = {}, EmptyKey \notin Keys
  PROVE  DbSpec => []ReadInWindow
PROOF
  <1>1. DbInv => ReadInWindow
    BY DEF DbInv, Lookups, Lookup, Missing, Good, ReadInWindow
  <1> QED
    BY <1>1, InitDb, NextDb, PTL DEF DbSpec
=============================================================================
