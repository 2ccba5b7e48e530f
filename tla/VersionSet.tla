----------------------------- MODULE VersionSet -----------------------------
(***************************************************************************)
(* The read-copy-update manifest of the storage engine: Version.Acquire    *)
(* and Release (version.go), the manifest swaps of flushWorker and         *)
(* maybeCompact (db.go), CompactL0toL1 and PurgeObsoleteFiles              *)
(* (compactor.go), and the part of Get and Scan that reads SSTables.       *)
(*                                                                         *)
(* A Version is an immutable manifest with a reference count.  Writers of  *)
(* the manifest load currentVersion, build a new Version and store it, in  *)
(* two steps and without a lock they share; readers acquire a Version,     *)
(* read its files newest first and release it; a purger waits for the      *)
(* count of the Version that a compaction replaced to reach zero and then  *)
(* unlinks the compacted files.                                            *)
(*                                                                         *)
(* Where the MemTables come from is the business of module Rotation; here  *)
(* a flush may persist any table of Tables at any time.                    *)
(***************************************************************************)
EXTENDS Entries

CONSTANTS
  Readers,              \* goroutines running Get or Scan
  Callers,              \* goroutines that may call TriggerCompaction
  EmptyKey,             \* the zero-length key (need not be in Keys)
  Worker,               \* the flushWorker goroutine
  Tables,               \* MemTable contents the worker may be handed
  CompactionThreshold,  \* L0 files that trigger a compaction
  MaxFlushes,           \* bound: MemTables flushed in a behaviour
  Faults                \* which file operations may fail: "flush", "compact",
                        \* "remove"

(***************************************************************************)
(* Files are numbered in the order their names are drawn: flushCount for   *)
(* L0, the clock for L1.  A slice of the manifest lists its files in that  *)
(* order, so a set of numbers stands for the slice.  Every Version adds    *)
(* exactly one file to its predecessor and is named after it; 0 is the     *)
(* empty Version of NewDB.  As many compactions are allowed as flushes.    *)
(***************************************************************************)
L0Id == 1 .. MaxFlushes
L1Id == (MaxFlushes + 1) .. (2 * MaxFlushes)
FileId == L0Id \cup L1Id
VersionId == {0} \cup FileId

Compactors == {Worker} \cup Callers

ASSUME ConstantsAssumption ==
  /\ MaxFlushes \in Nat
  /\ CompactionThreshold \in Nat \ {0}
  /\ IsFiniteSet(Readers)
  /\ Faults \subseteq {"flush", "compact", "remove"}
  /\ Tables \subseteq Table
  /\ Worker \notin Callers
  /\ None \notin Compactors

VARIABLES
  disk,      \* SSTable files that can be opened and read
  data,      \* data[f]: the entries written to file f
  nextL0, nextL1,
  manifest,  \* manifest[v]: the L0Files and L1Files of Version v
  refs,      \* refs[v]: Version.Refs
  current,   \* db.currentVersion
  obsolete,  \* obsolete[v]: files the purger of Version v has still to unlink
  wpc, wfile, wver,                \* flushWorker: control, its file, oldVersion
  holder,                          \* owner of compactionMu
  cstep, captured, cfile, cver,    \* the compaction its owner is running
  rpc, rver, left, want, got, scan, err   \* each reader's call

fileVars    == <<disk, data>>
versionVars == <<manifest, refs, current, obsolete>>
workerVars  == <<wpc, wfile, wver>>
compactVars == <<holder, cstep, captured, cfile, cver>>
readVars    == <<rpc, rver, left, want, got, scan, err>>
vsVars == <<fileVars, nextL0, nextL1, versionVars, workerVars, compactVars,
            readVars>>

VsInit ==
  /\ disk = {} /\ data = [f \in FileId |-> NoTable]
  /\ nextL0 = 1 /\ nextL1 = MaxFlushes + 1
  /\ manifest = [v \in VersionId |-> [l0 |-> {}, l1 |-> {}]]
  /\ refs = [v \in VersionId |-> 0]
  /\ current = 0
  /\ obsolete = [v \in VersionId |-> {}]
  /\ wpc = "idle" /\ wfile = 0 /\ wver = 0
  /\ holder = None /\ cstep = "load" /\ captured = {} /\ cfile = 0 /\ cver = 0
  /\ rpc = [r \in Readers |-> "idle"]
  /\ rver = [r \in Readers |-> 0]
  /\ left = [r \in Readers |-> {}]
  /\ want = [r \in Readers |-> {}]
  /\ got = [r \in Readers |-> NoTable]
  /\ scan = [r \in Readers |-> FALSE]
  /\ err = [r \in Readers |-> FALSE]

-----------------------------------------------------------------------------
(* Files and what they answer.                                             *)

FilesOf(m) == m.l0 \cup m.l1

Newest(S) == CHOOSE f \in S : \A g \in S : g <= f

Oldest(S) == CHOOSE f \in S : \A g \in S : f <= g

NextFileForwards(S) ==
  IF S \cap L0Id # {} THEN Oldest(S \cap L0Id) ELSE Newest(S)

\* Get and Scan search the L0 slice backwards, then the L1 slice backwards.
NextFile(S) == IF S \cap L0Id # {} THEN Newest(S \cap L0Id) ELSE Newest(S)

Holding(S, k) == {f \in S : data[f][k] # Absent}

\* The entry manifest m stands for: the newest of L0, below it the newest of L1.
Answer(m, k) ==
  LET h0 == Holding(m.l0, k)
      h1 == Holding(m.l1, k)
  IN  IF h0 # {} THEN data[Newest(h0)][k]
      ELSE IF h1 # {} THEN data[Newest(h1)][k]
      ELSE Absent

MergeOldestWins(S) ==
  [k \in Keys |-> IF Holding(S, k) = {} THEN Absent
                  ELSE data[Oldest(Holding(S, k))][k]]

\* The merge loop of CompactL0toL1: of the entries of a key the newest file's
\* is written, tombstones included.  lastKey starts as nil, which bytes.Equal
\* takes for the zero-length key, so an entry under that key is never written.
Merge(S) ==
  [k \in Keys |-> IF k = EmptyKey \/ Holding(S, k) = {}
                  THEN Absent
                  ELSE data[Newest(Holding(S, k))][k]]

-----------------------------------------------------------------------------
(* flushWorker: one MemTable persisted and published.                      *)

FlushedAlone(m, f) == [l0 |-> {f}, l1 |-> m.l1]
\* The manifest a flush publishes: file f appended to the L0 slice of m.
Flushed(m, f) == [l0 |-> m.l0 \cup {f}, l1 |-> m.l1]

TriggersCompactionLate(m) == Cardinality(m.l0) > CompactionThreshold
TriggersCompaction(m) == Cardinality(m.l0) >= CompactionThreshold

\* FlushMemTable.  An error is logged and the worker goes on: the file is
\* published whether or not it can be read.
FlushMemTable(t) ==
  /\ wpc = "idle"
  /\ nextL0 \in L0Id
  /\ data' = [data EXCEPT ![nextL0] = t]
  /\ \/ disk' = disk \cup {nextL0}
     \/ "flush" \in Faults /\ disk' = disk
  /\ wfile' = nextL0
  /\ nextL0' = nextL0 + 1
  /\ wpc' = "load"
  /\ UNCHANGED <<nextL1, versionVars, wver, compactVars, readVars>>

LoadVersion ==
  /\ wpc = "load"
  /\ wver' = current
  /\ wpc' = "store"
  /\ UNCHANGED <<fileVars, nextL0, nextL1, versionVars, wfile, compactVars,
                 readVars>>

StoreVersion ==
  /\ wpc = "store"
  /\ manifest' = [manifest EXCEPT
                    ![wfile] = Flushed(manifest[wver], wfile)]
  /\ current' = wfile
  /\ wpc' = "clear"
  /\ UNCHANGED <<fileVars, nextL0, nextL1, refs, obsolete, wfile, wver,
                 compactVars, readVars>>

\* immutableMT is cleared (module Rotation); the worker then decides on its own
\* newManifest whether to call maybeCompact.
AfterClear ==
  /\ wpc = "clear"
  /\ wpc' = IF TriggersCompaction(manifest[wfile])
            THEN "compact" ELSE "idle"
  /\ UNCHANGED <<fileVars, nextL0, nextL1, versionVars, wfile, wver,
                 compactVars, readVars>>

-----------------------------------------------------------------------------
(* maybeCompact, called by the worker after a flush and by TriggerCompaction. *)

LockHeld == holder
LockFreed == None

\* Every return of maybeCompact releases compactionMu.
ReturnFromCompact ==
  /\ holder' = LockFreed
  /\ cstep' = "load"
  /\ captured' = {}
  /\ cfile' = 0
  /\ cver' = 0
  /\ wpc' = IF holder = Worker THEN "idle" ELSE wpc

LockCompaction(c) ==
  /\ holder = None
  /\ c = Worker => wpc = "compact"
  /\ holder' = c
  /\ UNCHANGED <<fileVars, nextL0, nextL1, versionVars, workerVars, cstep,
                 captured, cfile, cver, readVars>>

LoadBatch ==
  /\ holder # None
  /\ cstep = "load"
  /\ IF TriggersCompaction(manifest[current])
     THEN /\ captured' = manifest[current].l0
          /\ cstep' = "merge"
          /\ UNCHANGED <<holder, cfile, cver, wpc>>
     ELSE ReturnFromCompact
  /\ UNCHANGED <<fileVars, nextL0, nextL1, versionVars, wfile, wver, readVars>>

\* The iterators over the captured files are all opened before the merge; one
\* that cannot be opened fails the compaction, which then changes nothing.
CompactL0toL1 ==
  /\ cstep = "merge"
  /\ captured \subseteq disk
  /\ nextL1 \in L1Id
  /\ data' = [data EXCEPT ![nextL1] = Merge(captured)]
  /\ disk' = disk \cup {nextL1}
  /\ cfile' = nextL1
  /\ nextL1' = nextL1 + 1
  /\ cstep' = "reload"
  /\ UNCHANGED <<nextL0, versionVars, workerVars, holder, captured, cver,
                 readVars>>

CompactionFails ==
  /\ cstep = "merge"
  /\ "compact" \in Faults \/ ~ captured \subseteq disk
  /\ ReturnFromCompact
  /\ UNCHANGED <<fileVars, nextL0, nextL1, versionVars, wfile, wver, readVars>>

ReloadVersion ==
  /\ cstep = "reload"
  /\ cver' = current
  /\ cstep' = "install"
  /\ UNCHANGED <<fileVars, nextL0, nextL1, versionVars, workerVars, holder,
                 captured, cfile, readVars>>

CompactedKeepingL0(m, S, f) == [l0 |-> m.l0, l1 |-> m.l1 \cup {f}]
\* The manifest a compaction of the files S into f makes of m.
Compacted(m, S, f) == [l0 |-> m.l0 \ S, l1 |-> m.l1 \cup {f}]

NewVersion == cfile
OldVersion == cver

\* The new Version drops the captured files, adds the L1 file and is stored;
\* a purger for the captured files is started on the Version just replaced.
InstallCompacted ==
  /\ cstep = "install"
  /\ manifest' = [manifest EXCEPT
                    ![cfile] = Compacted(manifest[cver], captured, cfile)]
  /\ current' = cfile
  /\ obsolete' = [obsolete EXCEPT ![OldVersion] = captured]
  /\ ReturnFromCompact
  /\ UNCHANGED <<fileVars, nextL0, nextL1, refs, wfile, wver, readVars>>

-----------------------------------------------------------------------------
(* PurgeObsoleteFiles, one goroutine per compacted Version.                *)

UnusedOrNot(v) == refs[v] >= 0
Unused(v) == refs[v] = 0

\* CompareAndSwap(0, -1): no reader can acquire the Version any more.
PurgeClaim(v) ==
  /\ obsolete[v] # {}
  /\ Unused(v)
  /\ refs' = [refs EXCEPT ![v] = -1]
  /\ UNCHANGED <<fileVars, nextL0, nextL1, manifest, current, obsolete,
                 workerVars, compactVars, readVars>>

\* One os.Remove; the files go in the order of the captured slice.  A failure is
\* logged and the file is left behind.
PurgeRemove(v) ==
  /\ obsolete[v] # {}
  /\ refs[v] < 0
  /\ LET f == Oldest(obsolete[v])
     IN  /\ \/ disk' = disk \ {f}
            \/ "remove" \in Faults /\ disk' = disk
         /\ obsolete' = [obsolete EXCEPT ![v] = @ \ {f}]
  /\ UNCHANGED <<data, nextL0, nextL1, manifest, refs, current, workerVars,
                 compactVars, readVars>>

-----------------------------------------------------------------------------
(* The SSTable part of Get and of Scan.  want holds the keys not yet seen. *)

BeginRead(r, isScan, K) ==
  /\ rpc[r] = "idle"
  /\ rpc' = [rpc EXCEPT ![r] = "load"]
  /\ scan' = [scan EXCEPT ![r] = isScan]
  /\ want' = [want EXCEPT ![r] = K]
  /\ UNCHANGED <<rver, left, got, err>>

StartRead(r) ==
  /\ \/ \E k \in Keys : BeginRead(r, FALSE, {k})
     \/ \E K \in SUBSET Keys : BeginRead(r, TRUE, K)
  /\ UNCHANGED <<fileVars, nextL0, nextL1, versionVars, workerVars,
                 compactVars>>

LoadCurrent(r) ==
  /\ rpc[r] = "load"
  /\ rver' = [rver EXCEPT ![r] = current]
  /\ rpc' = [rpc EXCEPT ![r] = "acquire"]
  /\ UNCHANGED <<fileVars, nextL0, nextL1, versionVars, workerVars,
                 compactVars, left, want, got, scan, err>>

NeverPurged(v) == FALSE
AlwaysPurged(v) == TRUE
MarkedForPurge(v) == refs[v] < 0

\* Version.Acquire: refuse a Version marked for purge, else count one reader.
Acquire(r) ==
  /\ rpc[r] = "acquire"
  /\ LET v == rver[r]
     IN  IF MarkedForPurge(v)
         THEN /\ rpc' = [rpc EXCEPT ![r] = "load"]
              /\ UNCHANGED <<refs, left>>
         ELSE /\ refs' = [refs EXCEPT ![v] = @ + 1]
              /\ left' = [left EXCEPT ![r] = FilesOf(manifest[v])]
              /\ rpc' = [rpc EXCEPT ![r] = "search"]
  /\ UNCHANGED <<fileVars, nextL0, nextL1, manifest, current, obsolete,
                 workerVars, compactVars, rver, want, got, scan, err>>

\* ReadSSTable (Get) or scanSST (Scan) on the next file of the Version.  A file
\* that cannot be opened ends the call with an error.
ReadSSTable(r) ==
  /\ rpc[r] = "search"
  /\ left[r] # {}
  /\ LET f == NextFile(left[r])
         hit == {k \in want[r] : data[f][k] # Absent}
     IN  IF f \in disk
         THEN /\ got' = [got EXCEPT ![r] =
                          [k \in Keys |-> IF k \in hit THEN data[f][k] ELSE @[k]]]
              /\ want' = [want EXCEPT ![r] = @ \ hit]
              /\ left' = [left EXCEPT ![r] = IF ~ scan[r] /\ hit # {}
                                            THEN {} ELSE @ \ {f}]
              /\ UNCHANGED err
         ELSE /\ err' = [err EXCEPT ![r] = TRUE]
              /\ left' = [left EXCEPT ![r] = {}]
              /\ UNCHANGED <<got, want>>
  /\ UNCHANGED <<fileVars, nextL0, nextL1, versionVars, workerVars,
                 compactVars, rpc, rver, scan>>

NotReleased(n) == n
Released(n) == n - 1

\* The deferred Version.Release, on every return path.
Release(r) ==
  /\ rpc[r] = "search"
  /\ left[r] = {}
  /\ refs' = [refs EXCEPT ![rver[r]] = Released(@)]
  /\ rpc' = [rpc EXCEPT ![r] = "idle"]
  /\ rver' = [rver EXCEPT ![r] = 0]
  /\ want' = [want EXCEPT ![r] = {}]
  /\ got' = [got EXCEPT ![r] = NoTable]
  /\ scan' = [scan EXCEPT ![r] = FALSE]
  /\ err' = [err EXCEPT ![r] = FALSE]
  /\ UNCHANGED <<fileVars, nextL0, nextL1, manifest, current, obsolete,
                 workerVars, compactVars, left>>

-----------------------------------------------------------------------------
HolderStep ==
  \/ LoadBatch
  \/ CompactL0toL1
  \/ CompactionFails
  \/ ReloadVersion
  \/ InstallCompacted

PurgeStep(v) == PurgeClaim(v) \/ PurgeRemove(v)

ReadStep(r) == LoadCurrent(r) \/ Acquire(r) \/ ReadSSTable(r) \/ Release(r)

WorkerStep ==
  \/ LoadVersion
  \/ StoreVersion
  \/ AfterClear

VsNext ==
  \/ \E t \in Tables : FlushMemTable(t)
  \/ WorkerStep
  \/ \E c \in Compactors : LockCompaction(c)
  \/ HolderStep
  \/ \E v \in VersionId : PurgeStep(v)
  \/ \E r \in Readers : StartRead(r) \/ ReadStep(r)

VsSpec == VsInit /\ [][VsNext]_vsVars

(***************************************************************************)
(* Fairness: the scheduler runs every goroutine, so a call that has begun, *)
(* the worker between two receives and every purger take their next step   *)
(* if they can.  A sync.Mutex hands itself to a goroutine that has waited  *)
(* for a millisecond, so compactionMu is granted to the worker even when   *)
(* TriggerCompaction is called without end: strong fairness.  Nobody is    *)
(* obliged to start a read, a flush or a manual compaction.                *)
(***************************************************************************)
VsFairness ==
  /\ WF_vsVars(WorkerStep)
  /\ WF_vsVars(HolderStep)
  /\ SF_vsVars(LockCompaction(Worker))
  /\ \A v \in VersionId : WF_vsVars(PurgeStep(v))
  /\ \A r \in Readers : WF_vsVars(ReadStep(r))

VsFairSpec == VsSpec /\ VsFairness

-----------------------------------------------------------------------------
(* Properties.                                                             *)

VsManifest == [l0 : SUBSET L0Id, l1 : SUBSET L1Id]

\* Every variable holds a value of its Go type, and the reference count of a
\* Version (version.go:21) never leaves the range -1 .. number of readers.
VsTypeOK ==
  /\ disk \subseteq FileId
  /\ data \in [FileId -> Table]
  /\ nextL0 \in 1 .. MaxFlushes + 1
  /\ nextL1 \in MaxFlushes + 1 .. 2 * MaxFlushes + 1
  /\ manifest \in [VersionId -> VsManifest]
  /\ refs \in [VersionId -> -1 .. Cardinality(Readers)]
  /\ current \in VersionId
  /\ obsolete \in [VersionId -> SUBSET L0Id]
  /\ wpc \in {"idle", "load", "store", "clear", "compact"}
  /\ wfile \in {0} \cup L0Id
  /\ wver \in VersionId
  /\ holder \in Compactors \cup {None}
  /\ cstep \in {"load", "merge", "reload", "install"}
  /\ captured \subseteq L0Id
  /\ cfile \in {0} \cup L1Id
  /\ cver \in VersionId
  /\ rpc \in [Readers -> {"idle", "load", "acquire", "search"}]
  /\ rver \in [Readers -> VersionId]
  /\ left \in [Readers -> SUBSET FileId]
  /\ want \in [Readers -> SUBSET Keys]
  /\ got \in [Readers -> Table]
  /\ scan \in [Readers -> BOOLEAN]
  /\ err \in [Readers -> BOOLEAN]

HoldersOf(v) == {r \in Readers : rpc[r] = "search" /\ rver[r] = v}

\* The reference count of every Version is the number of reads that hold it,
\* and is -1 only once a purger has claimed it with no read holding it: Acquire,
\* Release and the purger's CompareAndSwap (version.go, compactor.go:165-175)
\* never lose an update, whatever their interleaving.
RefCountExact ==
  \A v \in VersionId :
    \/ refs[v] = Cardinality(HoldersOf(v))
    \/ refs[v] = -1 /\ HoldersOf(v) = {}

\* The files of currentVersion are on disk and readable: neither an unfinished
\* purge nor a manifest swap ever publishes a file that has been unlinked
\* (db.go:448-461, db.go:405-431).
CurrentIntact == FilesOf(manifest[current]) \subseteq disk

\* currentVersion is never the target of a purger, so the retry loop around
\* Acquire (db.go:165-170, db.go:241-246) cannot spin on it for ever.
CurrentNotPurged == obsolete[current] = {} /\ refs[current] >= 0

\* A read that holds currentVersion, or a Version whose purger is waiting,
\* still finds every file it has left to search: the purger's wait
\* (compactor.go:166) protects the readers of the Version it waits on.
HeldIntact ==
  \A r \in Readers :
    /\ rpc[r] = "search"
    /\ rver[r] = current \/ obsolete[rver[r]] # {}
    => left[r] \subseteq disk

Published == 1 .. (IF wpc \in {"load", "store"} THEN nextL0 - 2 ELSE nextL0 - 1)

NewestPublished(k) ==
  LET S == Holding(Published, k)
  IN  IF S = {} THEN Absent ELSE data[Newest(S)][k]

\* The current manifest answers every key with the newest entry ever published
\* for it: no sequence of flushes and compactions loses an L0 file, reorders
\* two levels, or brings an overwritten or deleted value back (db.go:405-428).
ManifestComplete ==
  \A k \in Keys : Answer(manifest[current], k) = NewestPublished(k)

\* A read that ends without an error returns, for every key it was asked for,
\* what the Version it acquired holds, even when that Version has long been
\* replaced: Get and Scan read one snapshot (db.go:162-201, db.go:239-295).
ReadsOneSnapshot ==
  \A r \in Readers :
    rpc[r] = "search" /\ left[r] = {} /\ ~ err[r] =>
      \A k \in Keys :
        /\ got[r][k] # Absent => got[r][k] = Answer(manifest[rver[r]], k)
        /\ k \in want[r] => Answer(manifest[rver[r]], k) = Absent

\* The worker compacts before it takes the next table, so a read never searches
\* more than compactionThreshold L0 files (db.go:468-471).
L0Bounded == Cardinality(manifest[current].l0) <= CompactionThreshold

\* No read fails because a file of its Version was unlinked under it.
NoReadError == \A r \in Readers : ~ err[r]

\* A compaction keeps the L0 files that were flushed while it ran: of the files
\* of currentVersion a manifest swap drops only those it compacted
\* (db.go:405-428).
NewFilesRetained ==
  [][manifest[current].l0 \ captured \subseteq manifest'[current'].l0]_vsVars

\* Every purger ends: the count a purger waits on
\* reaches zero although reads keep starting (compactor.go:165-181).
PurgeCompletes == \A v \in VersionId : obsolete[v] # {} ~> obsolete[v] = {}

\* A Get or Scan that has begun returns, also when the Versions it loads are
\* replaced and purged before it can acquire them (db.go:165-170).
ReadsReturn == \A r \in Readers : rpc[r] # "idle" ~> rpc[r] = "idle"

\* The worker gets back to its queue after every table, so flushing never stops
\* behind a compaction (db.go:439-471).
WorkerReturns == wpc # "idle" ~> wpc = "idle"
=============================================================================
