------------------------------ MODULE Rotation ------------------------------
(***************************************************************************)
(* The write path of the engine (db.go): Put and Delete insert into the    *)
(* active MemTable without the engine lock; CheckFlush freezes a full      *)
(* table, moves it to immutableMT and queues it; flushWorker writes it to  *)
(* an L0 file, publishes the file and clears immutableMT; Close flushes    *)
(* what is left and stops the worker.                                      *)
(*                                                                         *)
(* The SSTables are abstracted to base, the entries that the published     *)
(* files answer with; module DB puts the manifest of VersionSet in its     *)
(* place.  A flush that fails is only logged: its file is published all    *)
(* the same, and every lookup that comes to it returns an error, which is  *)
(* the answer Unreadable.  The size of a MemTable is its number of         *)
(* entries: an update in place does not grow it (memtable.go:108).         *)
(***************************************************************************)
EXTENDS Entries, Sequences

CONSTANTS
  Writers,           \* goroutines calling Put and Delete
  Closer,            \* the goroutine calling Close
  FlushThreshold,    \* entries that make a MemTable due for rotation
  MaxPuts,           \* bound: calls of Put and Delete in a behaviour
  AllowClose,        \* is Close called at all?
  FlushMayFail,      \* may FlushMemTable fail?
  Unreadable,        \* the answer of a file that cannot be read: an error
  CloseWhileWriting  \* may Put and Delete run while Close does?

\* A rotation follows an insert of a new key, so MaxPuts bounds the rotations.
TableId == 1 .. MaxPuts + 1

FlushQCap == 1       \* make(chan *MemTable, 1)

ASSUME RotationAssumption ==
  /\ FlushThreshold \in Nat \ {0}
  /\ MaxPuts \in Nat
  /\ AllowClose \in BOOLEAN /\ CloseWhileWriting \in BOOLEAN
  /\ FlushMayFail \in BOOLEAN
  /\ Unreadable \notin Entry
  /\ Closer \notin Writers
  /\ None \notin Writers \cup {Closer} \cup TableId

VARIABLES
  mem, frozen,       \* mem[t], frozen[t]: contents and state of MemTable t
  nextTable,         \* the next MemTable to be made
  active, imm,       \* activeMT, immutableMT
  mu,                \* the holder of db.mu
  flushQ, qclosed,   \* the channel to the worker
  pc, op, tab,       \* each writer: control, its call, the table it loaded
  puts,              \* calls begun
  fpc, ftab, fdata,  \* flushWorker: control, its table, what its file answers
  base,              \* what the published SSTables answer
  stored,            \* the newest entry of each key that was to be written to a
                     \* file: Unreadable if its flush failed
  cpc, ctab,         \* Close: control, the table it loaded
  walClosed, stop,   \* the WAL is closed; stopCh is closed
  panicked           \* a goroutine panicked: the process is gone

tableVars  == <<mem, frozen, nextTable>>
writeVars  == <<pc, op, tab, puts>>
workerVarsR == <<fpc, ftab, fdata, base, stored>>
closeVars  == <<cpc, ctab, walClosed, stop>>
rotVars == <<tableVars, active, imm, mu, flushQ, qclosed, writeVars,
             workerVarsR, closeVars, panicked>>

NoOp == [key |-> None, val |-> None]
Op == [key : Keys, val : Mutation]

RotInit ==
  /\ mem = [t \in TableId |-> NoTable]
  /\ frozen = [t \in TableId |-> FALSE]
  /\ nextTable = 2 /\ active = 1 /\ imm = None
  /\ mu = None
  /\ flushQ = << >> /\ qclosed = FALSE
  /\ pc = [w \in Writers |-> "idle"]
  /\ op = [w \in Writers |-> NoOp]
  /\ tab = [w \in Writers |-> None]
  /\ puts = 0
  /\ fpc = "recv" /\ ftab = None /\ fdata = NoTable
  /\ base = NoTable /\ stored = NoTable
  /\ cpc = "open" /\ ctab = None
  /\ walClosed = FALSE /\ stop = FALSE /\ panicked = FALSE

Size(t) == Cardinality({k \in Keys : mem[t][k] # Absent})

TableOf(t) == IF t = None THEN NoTable ELSE mem[t]

\* What files answer, and the file of a failed flush in particular.
FileTable == [Keys -> Entry \cup {Unreadable}]
NoFile == [k \in Keys |-> Unreadable]

\* The entries of table t, which are in no file.
LostWith(t) == [k \in Keys |-> IF mem[t][k] = Absent THEN Absent ELSE Unreadable]

\* What a lookup sees: active MemTable, immutable MemTable, SSTables.
View == Overlay(mem[active], Overlay(TableOf(imm), base))

-----------------------------------------------------------------------------
(* Put and Delete.                                                         *)

\* WAL.Append writes to a memory buffer; it succeeds after WAL.Close as well.
\* When it fails the call returns before it has changed anything modelled here.
AppendWAL(w) ==
  /\ pc[w] = "idle"
  /\ puts < MaxPuts
  /\ CloseWhileWriting \/ cpc = "open"
  /\ puts' = puts + 1
  /\ \E o \in Op : op' = [op EXCEPT ![w] = o]
  /\ pc' = [pc EXCEPT ![w] = "load"]
  /\ UNCHANGED <<tableVars, active, imm, mu, flushQ, qclosed, tab, workerVarsR,
                 closeVars, panicked>>

LoadActive(w) ==
  /\ pc[w] = "load"
  /\ tab' = [tab EXCEPT ![w] = active]
  /\ pc' = [pc EXCEPT ![w] = "insert"]
  /\ UNCHANGED <<tableVars, active, imm, mu, flushQ, qclosed, op, puts,
                 workerVarsR, closeVars, panicked>>

RejectsNever(t) == FALSE
Rejects(t) == frozen[t]

\* MemTable.Put under the table's own lock; a frozen table sends the caller
\* back to reload activeMT.
Insert(w) ==
  /\ pc[w] = "insert"
  /\ IF Rejects(tab[w])
     THEN /\ pc' = [pc EXCEPT ![w] = "load"]
          /\ UNCHANGED mem
     ELSE /\ mem' = [mem EXCEPT ![tab[w]][op[w].key] = op[w].val]
          /\ pc' = [pc EXCEPT ![w] = "size"]
  /\ UNCHANGED <<frozen, nextTable, active, imm, mu, flushQ, qclosed, op, tab,
                 puts, workerVarsR, closeVars, panicked>>

ReturnFromPut(w) ==
  /\ pc' = [pc EXCEPT ![w] = "idle"]
  /\ op' = [op EXCEPT ![w] = NoOp]
  /\ tab' = [tab EXCEPT ![w] = None]

CheckSize(w) ==
  /\ pc[w] = "size"
  /\ IF Size(tab[w]) >= FlushThreshold
     THEN pc' = [pc EXCEPT ![w] = "lock"] /\ UNCHANGED <<op, tab>>
     ELSE ReturnFromPut(w)
  /\ UNCHANGED <<tableVars, active, imm, mu, flushQ, qclosed, puts,
                 workerVarsR, closeVars, panicked>>

-----------------------------------------------------------------------------
(* CheckFlush, with db.mu held from the first step to the last.            *)

DueIgnoringImmutable == Size(active) >= FlushThreshold
DueForFlush == Size(active) >= FlushThreshold /\ imm = None

FreezeSkipped(t) == frozen
Freeze(t) == [frozen EXCEPT ![t] = TRUE]

\* Lock, the two early returns (which unlock again), and Freeze.
LockAndFreeze(w) ==
  /\ pc[w] = "lock"
  /\ mu = None
  /\ IF DueForFlush
     THEN /\ mu' = w
          /\ frozen' = Freeze(active)
          /\ pc' = [pc EXCEPT ![w] = "imm"]
          /\ UNCHANGED <<op, tab>>
     ELSE /\ ReturnFromPut(w)
          /\ UNCHANGED <<mu, frozen>>
  /\ UNCHANGED <<mem, nextTable, active, imm, flushQ, qclosed, puts,
                 workerVarsR, closeVars, panicked>>

StoreImmutable(w) ==
  /\ pc[w] = "imm"
  /\ imm' = active
  /\ pc' = [pc EXCEPT ![w] = "active"]
  /\ UNCHANGED <<tableVars, active, mu, flushQ, qclosed, op, tab, puts,
                 workerVarsR, closeVars, panicked>>

NewMemTable == nextTable

StoreActive(w) ==
  /\ pc[w] = "active"
  /\ active' = NewMemTable
  /\ nextTable' = nextTable + 1
  /\ tab' = [tab EXCEPT ![w] = active]   \* the local variable active
  /\ pc' = [pc EXCEPT ![w] = "send"]
  /\ UNCHANGED <<mem, frozen, imm, mu, flushQ, qclosed, op, puts, workerVarsR,
                 closeVars, panicked>>

LockKept(w) == w
LockReleased(w) == None

\* The send blocks while the channel is full and panics when it is closed.
SendAndUnlock(w) ==
  /\ pc[w] = "send"
  /\ IF qclosed
     THEN /\ panicked' = TRUE
          /\ UNCHANGED <<flushQ, mu, pc, op, tab>>
     ELSE /\ Len(flushQ) < FlushQCap
          /\ flushQ' = Append(flushQ, tab[w])
          /\ mu' = LockReleased(w)
          /\ ReturnFromPut(w)
          /\ UNCHANGED panicked
  /\ UNCHANGED <<tableVars, active, imm, qclosed, puts, workerVarsR, closeVars>>

-----------------------------------------------------------------------------
(* flushWorker.                                                            *)

Receive ==
  /\ fpc = "recv"
  /\ flushQ # << >>
  /\ ftab' = Head(flushQ)
  /\ flushQ' = Tail(flushQ)
  /\ fpc' = "write"
  /\ UNCHANGED <<tableVars, active, imm, mu, qclosed, writeVars, fdata, base,
                 stored, closeVars, panicked>>

\* FlushMemTable writes the entries the table holds, or fails, which is logged
\* and nothing else.  Walking the list is one step: a frozen table does not
\* change meanwhile.
WriteFile ==
  /\ fpc = "write"
  /\ \/ /\ fdata' = mem[ftab]
        /\ stored' = Overlay(mem[ftab], stored)
     \/ /\ FlushMayFail
        /\ fdata' = NoFile
        /\ stored' = Overlay(LostWith(ftab), stored)
  /\ fpc' = "publish"
  /\ UNCHANGED <<tableVars, active, imm, mu, flushQ, qclosed, writeVars, ftab,
                 base, closeVars, panicked>>

\* currentVersion.Store of a manifest with the new file appended.
Publish ==
  /\ fpc = "publish"
  /\ base' = Overlay(fdata, base)
  /\ fpc' = "clear"
  /\ UNCHANGED <<tableVars, active, imm, mu, flushQ, qclosed, writeVars, ftab,
                 fdata, stored, closeVars, panicked>>

ImmutableKept == imm
ImmutableCleared == None

\* Under db.mu: immutableMT.Store(nil).
ClearImmutable ==
  /\ fpc = "clear"
  /\ mu = None
  /\ imm' = ImmutableCleared
  /\ fpc' = "recv" /\ ftab' = None /\ fdata' = NoTable
  /\ UNCHANGED <<tableVars, active, mu, flushQ, qclosed, writeVars, base,
                 stored, closeVars, panicked>>

\* The stopCh case of the select: close the channel, then drain it.
SeeStop ==
  /\ fpc = "recv"
  /\ stop
  /\ qclosed' = TRUE
  /\ fpc' = "drain"
  /\ UNCHANGED <<tableVars, active, imm, mu, flushQ, writeVars, ftab, fdata,
                 base, stored, closeVars, panicked>>

DroppedBy(t) == stored
DrainedBy(t) == Overlay(mem[t], stored)

\* A drained table is written to a file, or its flush fails and is logged; no
\* manifest is published for it and immutableMT is left alone.
Drain ==
  /\ fpc = "drain"
  /\ IF flushQ = << >>
     THEN fpc' = "done" /\ UNCHANGED <<flushQ, stored>>
     ELSE /\ \/ stored' = DrainedBy(Head(flushQ))
             \/ /\ FlushMayFail
                /\ stored' = Overlay(LostWith(Head(flushQ)), stored)
          /\ flushQ' = Tail(flushQ)
          /\ UNCHANGED fpc
  /\ UNCHANGED <<tableVars, active, imm, mu, qclosed, writeVars, ftab, fdata,
                 base, closeVars, panicked>>

-----------------------------------------------------------------------------
(* Close.  It does not freeze the table it flushes.                        *)

CloseWAL ==
  /\ AllowClose
  /\ cpc = "open"
  /\ CloseWhileWriting \/ \A w \in Writers : pc[w] = "idle"
  /\ walClosed' = TRUE
  /\ cpc' = "lock"
  /\ UNCHANGED <<tableVars, active, imm, mu, flushQ, qclosed, writeVars,
                 workerVarsR, ctab, stop, panicked>>

\* WAL.Close reports an error: Close returns it and stops nothing else.
CloseWALFails ==
  /\ AllowClose
  /\ cpc = "open"
  /\ CloseWhileWriting \/ \A w \in Writers : pc[w] = "idle"
  /\ walClosed' = TRUE
  /\ cpc' = "failed"
  /\ UNCHANGED <<tableVars, active, imm, mu, flushQ, qclosed, writeVars,
                 workerVarsR, ctab, stop, panicked>>

\* Lock db.mu and load activeMT; an empty table is not flushed.
CloseLock ==
  /\ cpc = "lock"
  /\ mu = None
  /\ mu' = Closer
  /\ ctab' = active
  /\ cpc' = IF Size(active) > 0 THEN "wait" ELSE "unlock"
  /\ UNCHANGED <<tableVars, active, imm, flushQ, qclosed, writeVars,
                 workerVarsR, walClosed, stop, panicked>>

LockedWhileSleeping == Closer
UnlockedWhileSleeping == None

\* The wait loop: with immutableMT occupied, unlock, sleep and lock again.
CloseWait ==
  /\ cpc = "wait"
  /\ IF imm = None
     THEN /\ imm' = ctab
          /\ cpc' = "send"
          /\ UNCHANGED mu
     ELSE /\ mu' = UnlockedWhileSleeping
          /\ cpc' = "relock"
          /\ UNCHANGED imm
  /\ UNCHANGED <<tableVars, active, flushQ, qclosed, writeVars, workerVarsR,
                 ctab, walClosed, stop, panicked>>

CloseRelock ==
  /\ cpc = "relock"
  /\ mu = None
  /\ mu' = Closer
  /\ cpc' = "wait"
  /\ UNCHANGED <<tableVars, active, imm, flushQ, qclosed, writeVars,
                 workerVarsR, ctab, walClosed, stop, panicked>>

CloseSend ==
  /\ cpc = "send"
  /\ Len(flushQ) < FlushQCap
  /\ flushQ' = Append(flushQ, ctab)
  /\ cpc' = "unlock"
  /\ UNCHANGED <<tableVars, active, imm, mu, qclosed, writeVars, workerVarsR,
                 ctab, walClosed, stop, panicked>>

\* Unlock, then close(stopCh).
CloseStop ==
  /\ cpc = "unlock"
  /\ mu' = None
  /\ stop' = TRUE
  /\ cpc' = "join"
  /\ UNCHANGED <<tableVars, active, imm, flushQ, qclosed, writeVars,
                 workerVarsR, ctab, walClosed, panicked>>

CloseReturn ==
  /\ cpc = "join"
  /\ fpc = "done"
  /\ cpc' = "closed"
  /\ UNCHANGED <<tableVars, active, imm, mu, flushQ, qclosed, writeVars,
                 workerVarsR, ctab, walClosed, stop, panicked>>

-----------------------------------------------------------------------------
WriterStep(w) ==
  \/ LoadActive(w)
  \/ Insert(w)
  \/ CheckSize(w)
  \/ StoreImmutable(w)
  \/ StoreActive(w)
  \/ SendAndUnlock(w)

FlusherStep == Receive \/ WriteFile \/ Publish \/ Drain

CloserStep ==
  \/ CloseWait
  \/ CloseSend
  \/ CloseStop
  \/ CloseReturn

RotNext ==
  /\ ~ panicked
  /\ \/ \E w \in Writers : AppendWAL(w) \/ WriterStep(w) \/ LockAndFreeze(w)
     \/ FlusherStep
     \/ ClearImmutable
     \/ SeeStop
     \/ CloseWAL
     \/ CloseWALFails
     \/ CloserStep
     \/ CloseLock
     \/ CloseRelock

RotSpec == RotInit /\ [][RotNext]_rotVars

(***************************************************************************)
(* Fairness: the scheduler runs every goroutine that is not blocked, and   *)
(* the worker gets db.mu eventually although Close takes it again and      *)
(* again while it polls immutableMT (sync.Mutex does not starve).  Nobody  *)
(* has to call Put or Close.                                               *)
(***************************************************************************)
RotFairness ==
  /\ \A w \in Writers : WF_rotVars((WriterStep(w) \/ LockAndFreeze(w)) /\ ~ panicked)
  /\ WF_rotVars(FlusherStep /\ ~ panicked)
  /\ SF_rotVars(ClearImmutable /\ ~ panicked)
  /\ WF_rotVars(SeeStop /\ ~ panicked)
  /\ WF_rotVars((CloserStep \/ CloseLock \/ CloseRelock) /\ ~ panicked)

RotFairSpec == RotSpec /\ RotFairness

-----------------------------------------------------------------------------
(* Properties.                                                             *)

\* Every variable holds a value of its Go type; at most one MemTable is queued
\* (db.go:89).
RotTypeOK ==
  /\ mem \in [TableId -> Table]
  /\ frozen \in [TableId -> BOOLEAN]
  /\ nextTable \in 2 .. MaxPuts + 2
  /\ active \in TableId
  /\ imm \in TableId \cup {None}
  /\ mu \in Writers \cup {Closer, None}
  /\ flushQ \in Seq(TableId) /\ Len(flushQ) <= FlushQCap
  /\ qclosed \in BOOLEAN
  /\ pc \in [Writers -> {"idle", "load", "insert", "size", "lock", "imm",
                         "active", "send"}]
  /\ op \in [Writers -> Op \cup {NoOp}]
  /\ tab \in [Writers -> TableId \cup {None}]
  /\ puts \in 0 .. MaxPuts
  /\ fpc \in {"recv", "write", "publish", "clear", "drain", "done"}
  /\ ftab \in TableId \cup {None}
  /\ fdata \in FileTable /\ base \in FileTable /\ stored \in FileTable
  /\ cpc \in {"open", "lock", "wait", "relock", "send", "unlock", "join",
              "closed", "failed"}
  /\ ctab \in TableId \cup {None}
  /\ walClosed \in BOOLEAN /\ stop \in BOOLEAN /\ panicked \in BOOLEAN

StatusOf(p) ==
  CASE p = "idle" -> "idle"
    [] p \in {"load", "insert"} -> "called"
    [] OTHER -> "applied"

Abstract == INSTANCE KV WITH
  MayLose <- FlushMayFail,
  kv <- [k \in Keys |-> Visible(View[k])],
  status <- [w \in Writers |-> StatusOf(pc[w])]

\* The engine implements the map of KV: every Put and Delete changes what a
\* lookup sees exactly once, between call and return, and freezing, rotating,
\* flushing and clearing a table change nothing a lookup sees, except that a
\* flush that fails makes lookups report errors: also then no lookup finds an
\* older value than the one a key had (db.go:305-382, db.go:434-466).
ImplementsKV == Abstract!Spec

\* The channel send made with db.mu held (db.go:377, db.go:506) finds room:
\* otherwise the worker, which takes db.mu before it receives again, and the
\* sender would wait for each other for ever.
SendNeverBlocks ==
  (cpc = "send" \/ \E w \in Writers : pc[w] = "send") => Len(flushQ) < FlushQCap

\* immutableMT is the one table between rotation and the end of its flush: a
\* table that is queued or being written is immutableMT, so a lookup that
\* misses it in the files finds it there (db.go:371-377, db.go:463-466).
PendingIsImmutable ==
  /\ \A i \in 1 .. Len(flushQ) : flushQ[i] = imm
  /\ fpc \in {"write", "publish", "clear"} => ftab = imm
  /\ Len(flushQ) > 0 => fpc \notin {"write", "publish", "clear"}

\* Every table that has been active and is no longer is frozen, so the writers
\* that still have a pointer to it are refused (db.go:368-369, memtable.go:76).
FlushedIsFinal ==
  \A t \in TableId : t # active /\ t < nextTable => frozen[t]

\* The types and the state of retired tables together.
RotInv == RotTypeOK /\ FlushedIsFinal

\* Close, called when no Put or Delete is running, leaves every entry a lookup
\* can see in a file on disk, whatever the worker was doing, unless the flush
\* of the table that held the entry failed (db.go:488-513).
CloseFlushesAll ==
  cpc = "closed" =>
    \A k \in Keys : \/ Visible(stored[k]) = Visible(View[k])
                    \/ Unreadable \in {stored[k], View[k]}

\* Close forces what remains in MemTables to disk: once it has returned, a file
\* holds every entry a lookup can see (db.go:474, db.go:488).
ClosePersists ==
  cpc = "closed" => \A k \in Keys : Visible(stored[k]) = Visible(View[k])

\* Close does not bring the process down: no goroutine sends on the channel
\* the worker has closed.
NoPanic == ~ panicked

\* A Put or Delete that has begun returns: the retry loop ends although the
\* tables it loads may be frozen under it (db.go:312-324).
PutsReturn == \A w \in Writers : pc[w] # "idle" ~> pc[w] = "idle"

\* immutableMT is eventually free again, so rotation never stops for good, until
\* Close stops the worker, whose drain leaves it set (db.go:463-466, db.go:477).
ImmutableClears == imm # None ~> imm = None \/ stop

\* A Close that has begun returns (db.go:489-513).
CloseReturns == cpc # "open" ~> cpc \in {"closed", "failed"}
=============================================================================
