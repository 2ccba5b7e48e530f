-------------------------------- MODULE WAL --------------------------------
(***************************************************************************)
(* The write-ahead log (wal.go) with the processes that use it: Put and    *)
(* Delete append a record and then insert into the MemTable, each under a  *)
(* lock of its own; syncLoop moves the buffer to the file and calls fsync; *)
(* a crash loses the buffer, and with power loss also what was not synced; *)
(* NewDB opens the log for appending and replays it.                       *)
(*                                                                         *)
(* The log is never truncated and SSTables written before a restart are    *)
(* not read after it (db.go:106-112), so the MemTables and the files of    *)
(* one incarnation are here one map, mem.                                  *)
(***************************************************************************)
EXTENDS Entries, Sequences

CONSTANTS
  Writers,     \* goroutines calling Put and Delete
  Torn,        \* a record cut short by a crash: magic byte right, CRC wrong
  BufCap,      \* records that fit into the 4 MB buffer
  PowerLoss,   \* may a crash lose data that was written but not synced?
  DiskFaults,  \* may a write to the file fail?
  AllowClose,  \* is WAL.Close called?
  MaxPuts,     \* bound: calls of Put and Delete
  MaxCrashes   \* bound: crashes

RecordId == 1 .. MaxPuts
Record == [key : Keys, val : Mutation, id : RecordId]

ASSUME WalAssumption ==
  /\ BufCap \in Nat \ {0}
  /\ MaxPuts \in Nat /\ MaxCrashes \in Nat
  /\ PowerLoss \in BOOLEAN /\ DiskFaults \in BOOLEAN /\ AllowClose \in BOOLEAN
  /\ Torn \notin Record

VARIABLES
  buf,       \* records wholly in the bufio buffer
  file,      \* records in the file, whether or not synced
  partial,   \* the end of file's last record is still in the buffer
  synced,    \* how many records of file survive any crash
  broken,    \* bufio.Writer holds a write error, which it never clears
  spc,       \* syncLoop: "tick", "sync" or "done"
  final,     \* the flush under way is the one stopCh asked for
  close,     \* WAL.Close: "open", "called" or "closed"
  up,        \* the process runs
  mem,       \* what lookups answer
  pc, rec,   \* each writer: control and the record of its call
  puts, crashes,
  durable,   \* history: ids of the records an fsync has covered
  closing,   \* history: ids in the log when Close was called
  failed,    \* history: a write or an fsync failed since the process started
  raced,     \* history: keys whose last record was appended while another call
             \* had its record of the key in the log and not yet in the table
  acked      \* history: ids of the records whose Put or Delete returned nil

logVars   == <<buf, file, partial, synced, broken>>
writeVars == <<pc, rec, puts>>
callHistory == <<raced, acked>>
ghostVars == <<durable, closing, failed, callHistory>>
walVars == <<logVars, spc, final, close, up, mem, writeVars, crashes, ghostVars>>

NoRecord == [key |-> None, val |-> None, id |-> 0]

WalInit ==
  /\ buf = << >> /\ file = << >> /\ partial = FALSE /\ synced = 0
  /\ broken = FALSE
  /\ spc = "tick" /\ final = FALSE /\ close = "open" /\ up = TRUE
  /\ mem = NoTable
  /\ pc = [w \in Writers |-> "idle"]
  /\ rec = [w \in Writers |-> NoRecord]
  /\ puts = 0 /\ crashes = 0
  /\ durable = {} /\ closing = {} /\ failed = FALSE /\ raced = {} /\ acked = {}

-----------------------------------------------------------------------------
(* Recover.                                                                *)

Tears(s) == {i \in 1 .. Len(s) : s[i] = Torn}

\* Recover reads record after record and stops at the first torn one: the bytes
\* that follow it are taken for its key and value and fail the CRC.
Replayable(s) ==
  IF Tears(s) = {} THEN s
  ELSE SubSeq(s, 1, (CHOOSE i \in Tears(s) : \A j \in Tears(s) : i <= j) - 1)

IdsOf(s) == {s[i].id : i \in 1 .. Len(s) \ Tears(s)}

ReplayFirstWins(s) ==
  [k \in Keys |->
     LET at == {i \in 1 .. Len(s) : s[i].key = k}
     IN  IF at = {} THEN Absent
         ELSE s[CHOOSE i \in at : \A j \in at : i <= j].val]

\* The MemTable that replaying s record by record leaves: the last one wins.
Replay(s) ==
  [k \in Keys |->
     LET at == {i \in 1 .. Len(s) : s[i].key = k}
     IN  IF at = {} THEN Absent
         ELSE s[CHOOSE i \in at : \A j \in at : j <= i].val]

Recover(s) == Replay(Replayable(s))

Complete == Len(file) - (IF partial THEN 1 ELSE 0)

CoveredWithBuffer == file \o buf
CoveredBefore == SubSeq(file, 1, synced)
\* What an fsync puts on stable storage.
Covered == SubSeq(file, 1, Complete)

Logged == IdsOf(file \o buf)

-----------------------------------------------------------------------------
(* Put and Delete.                                                         *)

ReturnFromPut(w) ==
  /\ pc' = [pc EXCEPT ![w] = "idle"]
  /\ rec' = [rec EXCEPT ![w] = NoRecord]

\* WAL.Append.  A record that does not fit makes bufio write the buffer to the
\* file, in general with the first part of the record.
Buffered(r) ==
  \/ /\ Len(buf) < BufCap
     /\ buf' = buf \o <<r>>
     /\ UNCHANGED <<file, partial>>
  \/ /\ Len(buf) = BufCap /\ close # "closed"
     /\ \/ /\ file' = file \o buf \o <<r>>
           /\ buf' = << >>
           /\ partial' = TRUE
        \/ /\ file' = file \o buf
           /\ buf' = <<r>>
           /\ partial' = FALSE

\* A write of the records s that fails: some of them are in the file, the last
\* perhaps in part; the error stays with the bufio.Writer.
FailedWrite(s) ==
  \E n \in 0 .. Len(s), cut \in BOOLEAN :
    /\ n = Len(s) => cut
    /\ n = 0 /\ cut => partial
    /\ close = "closed" => n = 0 /\ cut = partial
    /\ file' = file \o SubSeq(s, 1, n)
    /\ partial' = cut
    /\ buf' = SubSeq(buf, n + 1, Len(buf))
    /\ broken' = TRUE /\ failed' = TRUE

NewRecord(k, m) == [key |-> k, val |-> m, id |-> puts + 1]

\* A call has logged its record of key k and not inserted it.
Inserting(k) == \E w \in Writers : pc[w] = "insert" /\ rec[w].key = k

AppendRecord(w) ==
  /\ up /\ pc[w] = "idle" /\ puts < MaxPuts
  /\ ~ broken
  /\ puts' = puts + 1
  /\ \E k \in Keys, m \in Mutation :
       /\ Buffered(NewRecord(k, m))
       /\ rec' = [rec EXCEPT ![w] = NewRecord(k, m)]
       /\ raced' = IF Inserting(k) THEN raced \cup {k} ELSE raced \ {k}
  /\ pc' = [pc EXCEPT ![w] = "insert"]
  /\ UNCHANGED <<synced, broken, spc, final, close, up, mem, crashes, durable,
                 closing, failed, acked>>

\* The buffer overflows and the file cannot be written, or was closed before:
\* Append and Put return an error.  Later calls of Append fail at once.
AppendFails(w) ==
  /\ up /\ pc[w] = "idle" /\ puts < MaxPuts
  /\ ~ broken
  /\ Len(buf) = BufCap /\ (DiskFaults \/ close = "closed")
  /\ puts' = puts + 1
  /\ \E k \in Keys, m \in Mutation : FailedWrite(buf \o <<NewRecord(k, m)>>)
  /\ UNCHANGED <<synced, spc, final, close, up, mem, pc, rec, crashes,
                 durable, closing, callHistory>>

InsertMem(w) ==
  /\ up /\ pc[w] = "insert"
  /\ mem' = [mem EXCEPT ![rec[w].key] = rec[w].val]
  /\ pc' = [pc EXCEPT ![w] = "ack"]
  /\ UNCHANGED <<logVars, spc, final, close, up, rec, puts, crashes, ghostVars>>

\* Put returns nil and the handler sends the acknowledgement.
Ack(w) ==
  /\ up /\ pc[w] = "ack"
  /\ ReturnFromPut(w)
  /\ acked' = acked \cup {rec[w].id}
  /\ UNCHANGED <<logVars, spc, final, close, up, mem, puts, crashes, durable,
                 closing, failed, raced>>

-----------------------------------------------------------------------------
(* syncLoop.                                                               *)

\* bufWriter.Flush under the lock, on a tick or when stopCh is closed; with both
\* ready the select takes either.  With a write error pending, Flush only
\* reports it and fsync is skipped.
FlushBuffer ==
  /\ up /\ spc = "tick"
  /\ final' \in {FALSE, close = "called"}
  /\ IF broken
     THEN /\ spc' = IF final' THEN "done" ELSE "tick"
          /\ UNCHANGED <<buf, file, partial>>
     ELSE /\ file' = file \o buf
          /\ buf' = << >>
          /\ partial' = FALSE
          /\ spc' = "sync"
  /\ UNCHANGED <<synced, broken, close, up, mem, writeVars, crashes, ghostVars>>

FlushFails ==
  /\ up /\ spc = "tick" /\ ~ broken
  /\ DiskFaults /\ (buf # << >> \/ partial)
  /\ FailedWrite(buf)
  /\ final' \in {FALSE, close = "called"}
  /\ spc' = IF final' THEN "done" ELSE "tick"
  /\ UNCHANGED <<synced, close, up, mem, writeVars, crashes, durable,
                 closing, callHistory>>

\* file.Sync, without the lock; a failure is logged and nothing else.
FsyncFile ==
  /\ up /\ spc = "sync"
  /\ \/ /\ synced' = Len(Covered)
        /\ durable' = durable \cup IdsOf(Covered)
        /\ UNCHANGED failed
     \/ /\ DiskFaults
        /\ failed' = TRUE
        /\ UNCHANGED <<synced, durable>>
  /\ spc' = IF final THEN "done" ELSE "tick"
  /\ UNCHANGED <<buf, file, partial, broken, final, close, up, mem, writeVars,
                 crashes, closing, callHistory>>

-----------------------------------------------------------------------------
(* WAL.Close: close(stopCh), wait for syncLoop, close the file.            *)

CloseCalled ==
  /\ AllowClose /\ up /\ close = "open"
  /\ close' = "called"
  /\ closing' = Logged
  /\ UNCHANGED <<logVars, spc, final, up, mem, writeVars, crashes,
                 durable, failed, callHistory>>

CloseReturnsAtOnce ==
  /\ up /\ close = "called"
  /\ close' = "closed"
  /\ UNCHANGED <<logVars, spc, final, up, mem, writeVars, crashes, ghostVars>>

CloseReturns ==
  /\ up /\ close = "called" /\ spc = "done"
  /\ close' = "closed"
  /\ UNCHANGED <<logVars, spc, final, up, mem, writeVars, crashes, ghostVars>>

-----------------------------------------------------------------------------
(* Crash and restart.                                                      *)

ProcessDies ==
  /\ up /\ crashes < MaxCrashes
  /\ crashes' = crashes + 1
  /\ up' = FALSE
  /\ buf' = << >> /\ partial' = FALSE /\ broken' = FALSE
  /\ pc' = [w \in Writers |-> "idle"]
  /\ rec' = [w \in Writers |-> NoRecord]
  /\ UNCHANGED <<spc, final, close, mem, puts, ghostVars>>

\* kill -9: the file keeps what the process wrote; a record of which only a
\* part was written stays in it as Torn.
Kill ==
  /\ ProcessDies
  /\ file' = SubSeq(file, 1, Complete) \o (IF partial THEN <<Torn>> ELSE << >>)
  /\ UNCHANGED synced

\* Power failure: the file keeps the synced records and any prefix of the rest.
LosePower ==
  /\ PowerLoss
  /\ ProcessDies
  /\ \E n \in synced .. Complete :
       file' \in {SubSeq(file, 1, n)} \cup
                 (IF n < Len(file) THEN {SubSeq(file, 1, n) \o <<Torn>>} ELSE {})
  /\ synced' = Len(file')

\* NewDB: NewWAL opens the file for appending where it ends, Recover fills a
\* new MemTable.
NewDB ==
  /\ ~ up
  /\ up' = TRUE
  /\ mem' = Recover(file)
  /\ spc' = "tick" /\ final' = FALSE /\ close' = "open"
  /\ closing' = {} /\ failed' = FALSE /\ raced' = {}
  /\ UNCHANGED <<logVars, writeVars, crashes, durable, acked>>

-----------------------------------------------------------------------------
SyncStep == FlushBuffer \/ FsyncFile

WalNext ==
  \/ \E w \in Writers : AppendRecord(w) \/ AppendFails(w) \/ InsertMem(w) \/ Ack(w)
  \/ SyncStep
  \/ FlushFails
  \/ CloseCalled
  \/ CloseReturns
  \/ Kill
  \/ LosePower
  \/ NewDB

WalSpec == WalInit /\ [][WalNext]_walVars

\* Fairness: the ticker keeps syncLoop running and a started Close waits for it.
WalFairSpec == WalSpec /\ WF_walVars(SyncStep) /\ WF_walVars(CloseReturns)

-----------------------------------------------------------------------------
(* Properties.                                                             *)

\* Every variable holds a value of its type, and fsync never counts a record
\* whose end is still in the buffer (wal.go:110-118).
WalTypeOK ==
  /\ buf \in Seq(Record) /\ Len(buf) <= BufCap
  /\ file \in Seq(Record \cup {Torn})
  /\ partial \in BOOLEAN /\ broken \in BOOLEAN
  /\ synced \in 0 .. Complete
  /\ spc \in {"tick", "sync", "done"} /\ final \in BOOLEAN
  /\ close \in {"open", "called", "closed"} /\ up \in BOOLEAN
  /\ mem \in Table
  /\ pc \in [Writers -> {"idle", "insert", "ack"}]
  /\ rec \in [Writers -> Record \cup {NoRecord}]
  /\ puts \in 0 .. MaxPuts /\ crashes \in 0 .. MaxCrashes
  /\ durable \subseteq RecordId
  /\ closing \subseteq RecordId /\ failed \in BOOLEAN
  /\ raced \subseteq Keys /\ acked \subseteq RecordId

\* A record that fsync covered and that a recovery would replay stays so, in
\* whatever state of syncLoop and of the buffer the process dies: a torn record
\* only ever ends the log behind it (wal.go:92-125, wal.go:150-184).
DurableStaysRecoverable ==
  [][durable \cap IdsOf(Replayable(file)) \subseteq IdsOf(Replayable(file'))]_walVars

\* Every record that fsync has covered is replayed by a later recovery.
SyncedSurvive == durable \subseteq IdsOf(Replayable(file))

Quiet == up /\ \A w \in Writers : pc[w] = "idle"

\* The log and the MemTable agree on every key, whatever calls run on other
\* keys: replaying file and buffer gives the value that lookups answer, unless
\* the last record of the key overtook another call that had logged the key and
\* not inserted it, or the log is torn or no longer written (db.go:307-314,
\* wal.go:60, wal.go:139-197).
ReplayRebuildsMemTable ==
  up /\ ~ broken /\ Tears(file) = {} =>
    \A k \in Keys \ raced : ~ Inserting(k) => Replay(file \o buf)[k] = mem[k]

\* The same without the exception: with every call returned and the whole log
\* in the file, Recover repopulates the MemTable as it was (wal.go:137).
RecoverRepopulates ==
  Quiet /\ buf = << >> /\ ~ failed /\ Tears(file) = {} => Recover(file) = mem

\* Every acknowledged write survives a kill: the log of a process that is down
\* replays the record of every Put and Delete that returned nil
\* (wal.go:77-87, db.go:306-314).
AcknowledgedSurvive == ~ up => acked \subseteq IdsOf(Replayable(file))

\* WAL.Close returns with every record that was in the log when it was called
\* on stable storage, those behind a torn record too and also when more are
\* appended meanwhile, unless the disk failed (wal.go:101-104, wal.go:128-135).
CloseIsDurable == close = "closed" /\ ~ failed => closing \subseteq durable

\* Every record is on stable storage in the end, unless a crash, a disk fault or
\* a Close comes first (wal.go:90-107).
EventuallySynced ==
  \A i \in RecordId :
    i \in IdsOf(file \o buf) ~> (i \in durable \/ ~ up \/ failed \/ close # "open")
=============================================================================
