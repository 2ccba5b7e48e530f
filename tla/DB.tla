-------------------------------- MODULE DB --------------------------------
(***************************************************************************)
(* The storage engine put together: the write path of Rotation, the        *)
(* manifest of VersionSet and the whole of Get and Scan, which look into   *)
(* the active MemTable, the immutable one and the SSTables of a Version,   *)
(* loading one shared pointer after the other while all of them move.      *)
(*                                                                         *)
(* flushWorker is one goroutine, so its steps in the two modules are       *)
(* joined: fpc is its position in the flush of a table and wpc its         *)
(* position from the written file to the end of the compaction.            *)
(***************************************************************************)
EXTENDS Rotation, VersionSet

ASSUME DbAssumption == FlushMayFail <=> "flush" \in Faults

VARIABLES
  dpc,     \* dpc[r]: how far r's Get or Scan has come
  dkeys,   \* dkeys[r]: the keys it was asked for
  dscan,   \* dscan[r]: is it a Scan?
  dtab,    \* dtab[r]: the MemTable pointer it loaded
  dgot,    \* dgot[r]: the entries it has met, newest first
  window   \* history: window[r][k], the values k has had since the call began

callVars == <<dpc, dkeys, dscan, dtab, dgot>>
dbVars == <<rotVars, vsVars, callVars, window>>

Value(k) == Visible(View[k])

DbInit ==
  /\ RotInit
  /\ VsInit
  /\ dpc = [r \in Readers |-> "idle"]
  /\ dkeys = [r \in Readers |-> {}]
  /\ dscan = [r \in Readers |-> FALSE]
  /\ dtab = [r \in Readers |-> None]
  /\ dgot = [r \in Readers |-> NoTable]
  /\ window = [r \in Readers |-> [k \in Keys |-> {}]]

-----------------------------------------------------------------------------
(* Writers.  An Insert may change the value of a key: the calls in progress *)
(* have then seen one value more.                                          *)

DbWriterStep(w) ==
  /\ AppendWAL(w) \/ WriterStep(w) \/ LockAndFreeze(w)
  /\ window' = [r \in Readers |-> [k \in Keys |->
                  window[r][k] \cup (IF dpc[r] = "idle" THEN {} ELSE {Value(k)'})]]
  /\ UNCHANGED <<vsVars, callVars>>

(* The worker. *)

DbReceive ==
  /\ wpc = "idle"
  /\ Receive
  /\ UNCHANGED <<vsVars, callVars, window>>

DbFlushMemTable ==
  /\ WriteFile
  /\ FlushMemTable(mem[ftab])
  /\ fdata' = NoFile <=> nextL0 \notin disk'
  /\ UNCHANGED <<callVars, window>>

DbLoadVersion ==
  /\ LoadVersion
  /\ UNCHANGED <<rotVars, callVars, window>>

DbStoreVersion ==
  /\ Publish
  /\ StoreVersion
  /\ UNCHANGED <<callVars, window>>

DbClearImmutable ==
  /\ ClearImmutable
  /\ AfterClear
  /\ UNCHANGED <<callVars, window>>

DbCompact ==
  /\ (\E c \in Compactors : LockCompaction(c)) \/ HolderStep
  /\ UNCHANGED <<rotVars, callVars, window>>

DbPurge(v) ==
  /\ PurgeStep(v)
  /\ UNCHANGED <<rotVars, callVars, window>>

-----------------------------------------------------------------------------
(* Get and Scan.                                                           *)

Begin(r, isScan, K) ==
  /\ dpc[r] = "idle"
  /\ dpc' = [dpc EXCEPT ![r] = "active"]
  /\ dkeys' = [dkeys EXCEPT ![r] = K]
  /\ dscan' = [dscan EXCEPT ![r] = isScan]
  /\ dgot' = [dgot EXCEPT ![r] = NoTable]
  /\ dtab' = [dtab EXCEPT ![r] = None]
  /\ window' = [window EXCEPT ![r] =
                  [k \in Keys |-> IF k \in K THEN {Value(k)} ELSE {}]]
  /\ UNCHANGED <<rotVars, vsVars>>

Get(r) == \E k \in Keys : Begin(r, FALSE, {k})

Scan(r) == Begin(r, TRUE, Keys)

LoadActivePointer(r) ==
  /\ dpc[r] = "active"
  /\ dtab' = [dtab EXCEPT ![r] = active]
  /\ dpc' = [dpc EXCEPT ![r] = "searchActive"]
  /\ UNCHANGED <<rotVars, vsVars, dkeys, dscan, dgot, window>>

LoadImmutablePointer(r) ==
  /\ dpc[r] = "imm"
  /\ dtab' = [dtab EXCEPT ![r] = imm]
  /\ dpc' = [dpc EXCEPT ![r] = "searchImm"]
  /\ UNCHANGED <<rotVars, vsVars, dkeys, dscan, dgot, window>>

Unseen(r) == {k \in dkeys[r] : dgot[r][k] = Absent}

Found(r) ==
  [k \in Keys |-> IF k \in Unseen(r) THEN TableOf(dtab[r])[k] ELSE dgot[r][k]]

AfterSearchSkippingImmutable(r) ==
  IF ~ dscan[r] /\ \E k \in dkeys[r] : Found(r)[k] # Absent
  THEN "return" ELSE "version"

AfterSearch(r) ==
  IF ~ dscan[r] /\ \E k \in dkeys[r] : Found(r)[k] # Absent THEN "return"
  ELSE IF dpc[r] = "searchActive" THEN "imm" ELSE "version"

\* MemTable.Get ends a Get that finds its key; MemTable.Scan feeds the seen map.
SearchMemTable(r) ==
  /\ dpc[r] \in {"searchActive", "searchImm"}
  /\ dgot' = [dgot EXCEPT ![r] = Found(r)]
  /\ dpc' = [dpc EXCEPT ![r] = AfterSearch(r)]
  /\ UNCHANGED <<rotVars, vsVars, dkeys, dscan, dtab, window>>

\* The part under the Version guard, on the keys not seen so far.
SearchVersion(r) ==
  /\ dpc[r] = "version"
  /\ BeginRead(r, dscan[r], Unseen(r))
  /\ dpc' = [dpc EXCEPT ![r] = "sst"]
  /\ UNCHANGED <<rotVars, fileVars, nextL0, nextL1, versionVars, workerVars,
                 compactVars, dkeys, dscan, dtab, dgot, window>>

SearchStep(r) ==
  /\ dpc[r] = "sst"
  /\ LoadCurrent(r) \/ Acquire(r) \/ ReadSSTable(r)
  /\ UNCHANGED <<rotVars, callVars, window>>

\* Release is deferred: the call returns with what it has found.
ReleaseVersion(r) ==
  /\ dpc[r] = "sst"
  /\ Release(r)
  /\ dgot' = [dgot EXCEPT ![r] = Overlay(@, got[r])]
  /\ dpc' = [dpc EXCEPT ![r] = IF err[r] THEN "failed" ELSE "return"]
  /\ UNCHANGED <<rotVars, dkeys, dscan, dtab, window>>

Return(r) ==
  /\ dpc[r] \in {"return", "failed"}
  /\ dpc' = [dpc EXCEPT ![r] = "idle"]
  /\ dkeys' = [dkeys EXCEPT ![r] = {}]
  /\ dscan' = [dscan EXCEPT ![r] = FALSE]
  /\ dtab' = [dtab EXCEPT ![r] = None]
  /\ dgot' = [dgot EXCEPT ![r] = NoTable]
  /\ window' = [window EXCEPT ![r] = [k \in Keys |-> {}]]
  /\ UNCHANGED <<rotVars, vsVars>>

DbNext ==
  \/ \E w \in Writers : DbWriterStep(w)
  \/ DbReceive
  \/ DbFlushMemTable
  \/ DbLoadVersion
  \/ DbStoreVersion
  \/ DbClearImmutable
  \/ DbCompact
  \/ \E v \in VersionId : DbPurge(v)
  \/ \E r \in Readers :
       \/ Get(r) \/ Scan(r)
       \/ LoadActivePointer(r) \/ LoadImmutablePointer(r) \/ SearchMemTable(r)
       \/ SearchVersion(r) \/ SearchStep(r) \/ ReleaseVersion(r) \/ Return(r)

DbSpec == DbInit /\ [][DbNext]_dbVars

-----------------------------------------------------------------------------
(* Properties.                                                             *)

\* The value a Get or Scan returns for a key is one the key had at some moment
\* between the call and the return: reads are linearizable per key although
\* they load activeMT, immutableMT and currentVersion one after the other while
\* tables rotate, flush and are compacted (db.go:141-202, db.go:209-303).
ReadInWindow ==
  \A r \in Readers :
    dpc[r] = "return" =>
      \A k \in dkeys[r] : Visible(dgot[r][k]) \in window[r][k]

\* The abstract base of Rotation is what the current manifest answers with: a
\* compaction never changes the answer to a key (db.go:405-428).
BaseIsManifest == \A k \in Keys : base[k] = Answer(manifest[current], k)
=============================================================================
