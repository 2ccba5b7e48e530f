--------------------------- MODULE RotationProofs ---------------------------
(***************************************************************************)
(* Proofs about the write path: for any writers, keys and values, any      *)
(* flush threshold and any number of calls.                                *)
(***************************************************************************)
EXTENDS Rotation, TLAPS, FiniteSetTheorems, SequenceTheorems

-----------------------------------------------------------------------------
(* The inductive invariant of the control: locks, pointers and the queue.  *)
(* It holds whether or not writers run during Close.                       *)

\* The worker has a table that is not yet cleared from immutableMT.
Flushing == fpc \in {"write", "publish", "clear"}

\* The calls that may still rotate a table.  Each rotates at most one.
Unrotated == {w \in Writers : pc[w] \notin {"idle", "send"}}

Budget ==
  /\ IsFiniteSet(Unrotated)
  /\ nextTable + Cardinality(Unrotated) <= puts + 2

\* A call under way has its arguments, and its insert a table.
Calls ==
  \A w \in Writers :
    /\ pc[w] # "idle" => op[w] \in Op
    /\ pc[w] = "insert" => tab[w] \in TableId /\ tab[w] < nextTable

\* Tables in use have been made; those not yet made are empty.
Made ==
  /\ active < nextTable
  /\ imm # None => imm < nextTable
  /\ \A t \in TableId : t >= nextTable => mem[t] = NoTable
  /\ cpc \in {"wait", "relock", "send"} => ctab \in TableId /\ ctab < nextTable

\* Who holds db.mu is where its critical section says.
Locking ==
  /\ \A w \in Writers : pc[w] \in {"imm", "active", "send"} <=> mu = w
  /\ cpc \in {"wait", "send", "unlock"} <=> mu = Closer

\* A rotation under way has frozen its table, found immutableMT free, and so
\* found nothing queued and nothing being flushed.
Rotating ==
  /\ \A w \in Writers :
       /\ pc[w] = "imm" => imm = None /\ frozen[active]
       /\ pc[w] = "active" => imm = active /\ frozen[active]
       /\ pc[w] = "send" => imm = tab[w] /\ tab[w] \in TableId
       /\ pc[w] \in {"imm", "active", "send"} => flushQ = << >> /\ ~ Flushing
  /\ cpc = "send" => imm = ctab /\ flushQ = << >> /\ ~ Flushing
  /\ Flushing => ftab \in TableId

\* The channel is closed by the worker, which Close has told to stop.
Stopping ==
  /\ stop => cpc \in {"join", "closed"}
  /\ qclosed => stop
  /\ fpc \in {"drain", "done"} <=> qclosed

ControlInv ==
  /\ RotTypeOK /\ Budget /\ Calls /\ Made
  /\ Locking /\ Rotating /\ Stopping
  /\ PendingIsImmutable /\ FlushedIsFinal

-----------------------------------------------------------------------------
(* Facts used by several steps.                                            *)

\* A writer that moves to another place, and not into the calls that may still
\* rotate, leaves the budget as it is.
LEMMA BudgetKept ==
  ASSUME RotTypeOK, Budget, NEW w \in Writers, NEW x,
         pc' = [pc EXCEPT ![w] = x],
         x \in {"idle", "send"} \/ pc[w] \notin {"idle", "send"},
         nextTable' = nextTable, puts' = puts
  PROVE  Budget'
PROOF
  <1>1. Unrotated' \subseteq Unrotated
    BY DEF RotTypeOK, Unrotated
  <1>2. /\ IsFiniteSet(Unrotated') /\ Cardinality(Unrotated') \in Nat
        /\ Cardinality(Unrotated') <= Cardinality(Unrotated)
        /\ Cardinality(Unrotated) \in Nat
    BY <1>1, FS_Subset, FS_CardinalityType DEF Budget
  <1>3. nextTable \in Int /\ puts \in Int
    BY RotationAssumption DEF RotTypeOK
  <1> QED
    BY <1>2, <1>3 DEF Budget

\* The initial state.
LEMMA InitControl == RotInit => ControlInv
PROOF
  <1> SUFFICES ASSUME RotInit PROVE ControlInv
    OBVIOUS
  <1>1. MaxPuts \in Nat /\ 1 \in TableId /\ None \notin TableId
    BY RotationAssumption DEF TableId
  <1>2. RotTypeOK
    <2>1. NoTable \in Table /\ NoTable \in FileTable
      BY DEF NoTable, Table, FileTable, Entry
    <2>2. flushQ \in Seq(TableId) /\ Len(flushQ) <= FlushQCap
      BY DEF RotInit, FlushQCap
    <2>3. mem \in [TableId -> Table] /\ frozen \in [TableId -> BOOLEAN]
      BY <2>1 DEF RotInit
    <2>4. nextTable \in 2 .. MaxPuts + 2 /\ puts \in 0 .. MaxPuts
      BY <1>1 DEF RotInit
    <2>5. /\ pc \in [Writers -> {"idle", "load", "insert", "size", "lock", "imm",
                                 "active", "send"}]
          /\ op \in [Writers -> Op \cup {NoOp}]
          /\ tab \in [Writers -> TableId \cup {None}]
      BY DEF RotInit
    <2>6. qclosed \in BOOLEAN /\ walClosed \in BOOLEAN /\ stop \in BOOLEAN
          /\ panicked \in BOOLEAN
      BY DEF RotInit
    <2> QED
      BY <1>1, <2>1, <2>2, <2>3, <2>4, <2>5, <2>6 DEF RotInit, RotTypeOK
  <1>3. Budget
    <2>1. Unrotated = {}
      BY DEF RotInit, Unrotated
    <2> QED
      BY <2>1, FS_EmptySet DEF RotInit, Budget
  <1>4. Calls /\ Made /\ Locking /\ Rotating /\ Stopping
    BY <1>1, RotationAssumption
    DEF RotInit, Calls, Made, Locking, Rotating, Stopping, Flushing
  <1>5. PendingIsImmutable /\ FlushedIsFinal
    BY <1>1 DEF RotInit, PendingIsImmutable, FlushedIsFinal, TableId
  <1> QED
    BY <1>2, <1>3, <1>4, <1>5 DEF ControlInv

-----------------------------------------------------------------------------
(* Writers.                                                                *)

LEMMA AppendControl ==
  ASSUME ControlInv, NEW w \in Writers, AppendWAL(w)
  PROVE  ControlInv'
PROOF
  <1> USE DEF ControlInv
  <1>1. PICK o \in Op : op' = [op EXCEPT ![w] = o]
    BY DEF AppendWAL
  <1>2. /\ pc[w] = "idle" /\ pc' = [pc EXCEPT ![w] = "load"]
        /\ puts < MaxPuts /\ puts' = puts + 1
        /\ UNCHANGED <<tableVars, active, imm, mu, flushQ, qclosed, tab,
                       workerVarsR, closeVars, panicked>>
    BY DEF AppendWAL
  <1> USE DEF tableVars, workerVarsR, closeVars
  <1>3. RotTypeOK'
    BY <1>1, <1>2, RotationAssumption DEF RotTypeOK
  <1>4. Budget'
    <2>1. Unrotated' = Unrotated \cup {w} /\ w \notin Unrotated
      BY <1>2 DEF Unrotated, RotTypeOK
    <2>2. /\ IsFiniteSet(Unrotated') /\ Cardinality(Unrotated) \in Nat
          /\ Cardinality(Unrotated') = Cardinality(Unrotated) + 1
      BY <2>1, FS_AddElement, FS_CardinalityType DEF Budget
    <2>3. nextTable \in Int /\ puts \in Int
      BY RotationAssumption DEF RotTypeOK
    <2> QED
      BY <1>2, <2>2, <2>3 DEF Budget
  <1>5. Calls' /\ Made'
    BY <1>1, <1>2 DEF Calls, Made, RotTypeOK
  <1>6. Locking' /\ Rotating' /\ Stopping'
    BY <1>2 DEF Locking, Rotating, Stopping, Flushing, RotTypeOK
  <1>7. PendingIsImmutable' /\ FlushedIsFinal'
    BY <1>2 DEF PendingIsImmutable, FlushedIsFinal
  <1> QED
    BY <1>3, <1>4, <1>5, <1>6, <1>7

LEMMA InsertControl ==
  ASSUME ControlInv, NEW w \in Writers, Insert(w)
  PROVE  ControlInv'
PROOF
  <1> USE DEF ControlInv
  <1>1. /\ pc[w] = "insert" /\ op[w] \in Op
        /\ tab[w] \in TableId /\ tab[w] < nextTable
        /\ UNCHANGED <<frozen, nextTable, active, imm, mu, flushQ, qclosed, op, tab,
                 puts, workerVarsR, closeVars, panicked>>
    BY DEF Insert, Calls
  <1> USE DEF workerVarsR, closeVars
  <1>2. PICK x \in {"load", "size"} : pc' = [pc EXCEPT ![w] = x]
    BY DEF Insert
  <1>3. /\ mem' \in [TableId -> Table]
        /\ \A t \in TableId : t # tab[w] => mem'[t] = mem[t]
    <2>1. CASE mem' = mem
      BY <2>1 DEF RotTypeOK
    <2>2. CASE mem' = [mem EXCEPT ![tab[w]][op[w].key] = op[w].val]
      <3>1. op[w].key \in Keys /\ op[w].val \in Entry
        BY <1>1 DEF Op, Entry, Mutation
      <3>2. [mem[tab[w]] EXCEPT ![op[w].key] = op[w].val] \in Table
        BY <1>1, <3>1 DEF RotTypeOK, Table
      <3> QED
        BY <1>1, <2>2, <3>2 DEF RotTypeOK
    <2> QED
      BY <2>1, <2>2 DEF Insert
  <1>4. RotTypeOK'
    BY <1>1, <1>2, <1>3 DEF RotTypeOK
  <1>5. Budget'
    BY <1>1, <1>2, BudgetKept
  <1>6. Calls' /\ Made'
    BY <1>1, <1>2, <1>3, RotationAssumption DEF Calls, Made, RotTypeOK, TableId
  <1>7. Locking' /\ Rotating' /\ Stopping'
    BY <1>1, <1>2 DEF Locking, Rotating, Stopping, Flushing, RotTypeOK
  <1>8. PendingIsImmutable' /\ FlushedIsFinal'
    BY <1>1 DEF PendingIsImmutable, FlushedIsFinal
  <1> QED
    BY <1>4, <1>5, <1>6, <1>7, <1>8

LEMMA LoadActiveControl ==
  ASSUME ControlInv, NEW w \in Writers, LoadActive(w)
  PROVE  ControlInv'
PROOF
  <1> USE DEF ControlInv
  <1>1. /\ pc[w] = "load" /\ pc' = [pc EXCEPT ![w] = "insert"]
        /\ tab' = [tab EXCEPT ![w] = active]
        /\ UNCHANGED <<tableVars, active, imm, mu, flushQ, qclosed, op, puts,
                       workerVarsR, closeVars, panicked>>
    BY DEF LoadActive
  <1> USE DEF tableVars, workerVarsR, closeVars
  <1>2. RotTypeOK'
    BY <1>1 DEF RotTypeOK
  <1>3. Budget'
    BY <1>1, BudgetKept
  <1>4. Calls' /\ Made'
    BY <1>1 DEF Calls, Made, RotTypeOK
  <1>5. Locking' /\ Rotating' /\ Stopping'
    BY <1>1 DEF Locking, Rotating, Stopping, Flushing, RotTypeOK
  <1>6. PendingIsImmutable' /\ FlushedIsFinal'
    BY <1>1 DEF PendingIsImmutable, FlushedIsFinal
  <1> QED
    BY <1>2, <1>3, <1>4, <1>5, <1>6

\* CheckSize goes on to the lock or returns.
LEMMA CheckSizeControl ==
  ASSUME ControlInv, NEW w \in Writers, CheckSize(w)
  PROVE  ControlInv'
PROOF
  <1> USE DEF ControlInv
  <1>1. /\ pc[w] = "size"
        /\ UNCHANGED <<tableVars, active, imm, mu, flushQ, qclosed, puts,
                       workerVarsR, closeVars, panicked>>
    BY DEF CheckSize
  <1> USE DEF tableVars, workerVarsR, closeVars
  <1>2. PICK x \in {"idle", "lock"} :
          /\ pc' = [pc EXCEPT ![w] = x]
          /\ \/ op' = op /\ tab' = tab
             \/ /\ x = "idle"
                /\ op' = [op EXCEPT ![w] = NoOp] /\ tab' = [tab EXCEPT ![w] = None]
    BY DEF CheckSize, ReturnFromPut
  <1>3. RotTypeOK'
    BY <1>1, <1>2 DEF RotTypeOK
  <1>4. Budget'
    BY <1>1, <1>2, BudgetKept
  <1>5. Calls' /\ Made'
    BY <1>1, <1>2 DEF Calls, Made, RotTypeOK
  <1>6. Locking' /\ Rotating' /\ Stopping'
    BY <1>1, <1>2 DEF Locking, Rotating, Stopping, Flushing, RotTypeOK
  <1>7. PendingIsImmutable' /\ FlushedIsFinal'
    BY <1>1 DEF PendingIsImmutable, FlushedIsFinal
  <1> QED
    BY <1>3, <1>4, <1>5, <1>6, <1>7

\* While immutableMT is free nothing is queued and nothing is being flushed:
\* whatever is pending is immutableMT.
LEMMA NothingPending ==
  ASSUME ControlInv, imm = None
  PROVE  flushQ = << >> /\ ~ Flushing
PROOF
  <1>1. None \notin TableId
    BY RotationAssumption
  <1>2. ~ Flushing
    BY <1>1 DEF ControlInv, Rotating, PendingIsImmutable, Flushing
  <1>3. flushQ \in Seq(TableId) /\ \A i \in 1 .. Len(flushQ) : flushQ[i] = None
    BY DEF ControlInv, RotTypeOK, PendingIsImmutable
  <1>4. ASSUME flushQ # << >> PROVE FALSE
    <2>1. Len(flushQ) \in Nat /\ Len(flushQ) # 0
      BY <1>3, <1>4
    <2>2. flushQ[1] \in TableId /\ flushQ[1] = None
      BY <1>3, <2>1
    <2> QED
      BY <1>1, <2>2
  <1> QED
    BY <1>2, <1>4

\* CheckFlush takes the lock: it returns, or freezes the active table.
LEMMA LockAndFreezeControl ==
  ASSUME ControlInv, NEW w \in Writers, LockAndFreeze(w)
  PROVE  ControlInv'
PROOF
  <1> USE DEF ControlInv
  <1>1. /\ pc[w] = "lock" /\ mu = None
        /\ UNCHANGED <<mem, nextTable, active, imm, flushQ, qclosed, puts,
                       workerVarsR, closeVars, panicked>>
    BY DEF LockAndFreeze
  <1> USE DEF workerVarsR, closeVars
  <1>2. CASE DueForFlush
    <2>1. /\ imm = None /\ mu' = w /\ frozen' = [frozen EXCEPT ![active] = TRUE]
          /\ pc' = [pc EXCEPT ![w] = "imm"] /\ UNCHANGED <<op, tab>>
      BY <1>2 DEF LockAndFreeze, DueForFlush, Freeze
    <2>2. flushQ = << >> /\ ~ Flushing
      BY <2>1, NothingPending
    <2>3. RotTypeOK'
      BY <1>1, <2>1 DEF RotTypeOK
    <2>4. Budget'
      BY <1>1, <2>1, BudgetKept
    <2>5. Calls' /\ Made' /\ Stopping'
      BY <1>1, <2>1 DEF Calls, Made, Stopping, RotTypeOK
    <2>6. Locking'
      BY <1>1, <2>1, RotationAssumption DEF Locking, RotTypeOK
    <2>7. Rotating'
      BY <1>1, <2>1, <2>2, RotationAssumption
      DEF Rotating, Locking, Flushing, RotTypeOK
    <2>8. PendingIsImmutable' /\ FlushedIsFinal'
      BY <1>1, <2>1 DEF PendingIsImmutable, FlushedIsFinal, RotTypeOK
    <2> QED
      BY <2>3, <2>4, <2>5, <2>6, <2>7, <2>8
  <1>3. CASE ~ DueForFlush
    <2>1. /\ UNCHANGED <<mu, frozen>> /\ pc' = [pc EXCEPT ![w] = "idle"]
          /\ op' = [op EXCEPT ![w] = NoOp] /\ tab' = [tab EXCEPT ![w] = None]
      BY <1>3 DEF LockAndFreeze, ReturnFromPut
    <2>2. RotTypeOK'
      BY <1>1, <2>1 DEF RotTypeOK
    <2>3. Budget'
      BY <1>1, <2>1, BudgetKept
    <2>4. Calls' /\ Made' /\ Stopping'
      BY <1>1, <2>1 DEF Calls, Made, Stopping, RotTypeOK
    <2>5. Locking' /\ Rotating'
      BY <1>1, <2>1 DEF Locking, Rotating, Flushing, RotTypeOK
    <2>6. PendingIsImmutable' /\ FlushedIsFinal'
      BY <1>1, <2>1 DEF PendingIsImmutable, FlushedIsFinal, RotTypeOK
    <2> QED
      BY <2>2, <2>3, <2>4, <2>5, <2>6
  <1> QED
    BY <1>2, <1>3

LEMMA StoreImmutableControl ==
  ASSUME ControlInv, NEW w \in Writers, StoreImmutable(w)
  PROVE  ControlInv'
PROOF
  <1> USE DEF ControlInv
  <1>1. /\ pc[w] = "imm" /\ pc' = [pc EXCEPT ![w] = "active"] /\ imm' = active
        /\ UNCHANGED <<tableVars, active, mu, flushQ, qclosed, op, tab, puts,
                       workerVarsR, closeVars, panicked>>
    BY DEF StoreImmutable
  <1> USE DEF tableVars, workerVarsR, closeVars
  <1>2. /\ mu = w /\ w # Closer /\ flushQ = << >> /\ ~ Flushing /\ frozen[active]
        /\ \A v \in Writers : v # w => pc[v] \notin {"imm", "active", "send"}
        /\ cpc # "send"
    BY <1>1, RotationAssumption DEF Locking, Rotating
  <1>3. RotTypeOK'
    BY <1>1 DEF RotTypeOK
  <1>4. Budget'
    BY <1>1, BudgetKept
  <1>5. Calls' /\ Made' /\ Stopping'
    BY <1>1 DEF Calls, Made, Stopping, RotTypeOK
  <1>6. Locking' /\ Rotating'
    BY <1>1, <1>2 DEF Locking, Rotating, Flushing, RotTypeOK
  <1>7. PendingIsImmutable' /\ FlushedIsFinal'
    BY <1>1, <1>2 DEF PendingIsImmutable, FlushedIsFinal, Flushing
  <1> QED
    BY <1>3, <1>4, <1>5, <1>6, <1>7

\* The rotation uses up the call: there is a table left to be made.
LEMMA StoreActiveControl ==
  ASSUME ControlInv, NEW w \in Writers, StoreActive(w)
  PROVE  ControlInv'
PROOF
  <1> USE DEF ControlInv
  <1>1. /\ pc[w] = "active" /\ pc' = [pc EXCEPT ![w] = "send"]
        /\ active' = nextTable /\ nextTable' = nextTable + 1
        /\ tab' = [tab EXCEPT ![w] = active]
        /\ UNCHANGED <<mem, frozen, imm, mu, flushQ, qclosed, op, puts,
                       workerVarsR, closeVars, panicked>>
    BY DEF StoreActive, NewMemTable
  <1> USE DEF workerVarsR, closeVars
  <1>2. /\ mu = w /\ w # Closer /\ flushQ = << >> /\ ~ Flushing
        /\ frozen[active] /\ imm = active
        /\ \A v \in Writers : v # w => pc[v] \notin {"imm", "active", "send"}
        /\ cpc # "send"
    BY <1>1, RotationAssumption DEF Locking, Rotating
  <1>3. Budget' /\ nextTable + 1 <= puts + 2
    <2>1. Unrotated' = Unrotated \ {w} /\ w \in Unrotated
      BY <1>1 DEF Unrotated, RotTypeOK
    <2>2. /\ IsFiniteSet(Unrotated') /\ Cardinality(Unrotated) \in Nat
          /\ Cardinality(Unrotated') = Cardinality(Unrotated) - 1
          /\ Cardinality(Unrotated') \in Nat
      BY <2>1, FS_RemoveElement, FS_CardinalityType DEF Budget
    <2>3. nextTable \in Int /\ puts \in Int
      BY RotationAssumption DEF RotTypeOK
    <2> QED
      BY <1>1, <2>2, <2>3 DEF Budget
  <1>4. /\ nextTable \in TableId /\ nextTable + 1 \in 2 .. MaxPuts + 2
        /\ nextTable \in Int
    BY <1>3, RotationAssumption DEF RotTypeOK, TableId
  <1>5. RotTypeOK'
    BY <1>1, <1>4 DEF RotTypeOK
  <1>6. Calls' /\ Made' /\ Stopping'
    BY <1>1, <1>2, <1>4, RotationAssumption DEF Calls, Made, Stopping, RotTypeOK, TableId
  <1>7. Locking' /\ Rotating'
    BY <1>1, <1>2 DEF Locking, Rotating, Flushing, RotTypeOK
  <1>8. PendingIsImmutable' /\ FlushedIsFinal'
    BY <1>1, <1>2, <1>4, RotationAssumption
    DEF PendingIsImmutable, FlushedIsFinal, Flushing, TableId
  <1> QED
    BY <1>3, <1>5, <1>6, <1>7, <1>8

\* The table is queued, or the process is gone.
LEMMA SendControl ==
  ASSUME ControlInv, NEW w \in Writers, SendAndUnlock(w)
  PROVE  ControlInv'
PROOF
  <1> USE DEF ControlInv
  <1>1. /\ pc[w] = "send"
        /\ UNCHANGED <<tableVars, active, imm, qclosed, puts, workerVarsR, closeVars>>
    BY DEF SendAndUnlock
  <1> USE DEF tableVars, workerVarsR, closeVars
  <1>2. /\ mu = w /\ w # Closer /\ flushQ = << >> /\ ~ Flushing
        /\ imm = tab[w] /\ tab[w] \in TableId
        /\ \A v \in Writers : v # w => pc[v] \notin {"imm", "active", "send"}
        /\ cpc \notin {"wait", "send", "unlock"}
    BY <1>1, RotationAssumption DEF Locking, Rotating
  <1>3. CASE qclosed
    <2>1. panicked' = TRUE /\ UNCHANGED <<flushQ, mu, pc, op, tab>>
      BY <1>3 DEF SendAndUnlock
    <2>2. RotTypeOK'
      BY <1>1, <2>1 DEF RotTypeOK
    <2>3. Budget'
      BY <1>1, <2>1 DEF Budget, Unrotated
    <2> QED
      BY <1>1, <2>1, <2>2, <2>3
      DEF Calls, Made, Stopping, Locking, Rotating, Flushing, PendingIsImmutable,
          FlushedIsFinal
  <1>4. CASE ~ qclosed
    <2>1. /\ flushQ' = Append(flushQ, tab[w]) /\ mu' = None
          /\ pc' = [pc EXCEPT ![w] = "idle"]
          /\ op' = [op EXCEPT ![w] = NoOp] /\ tab' = [tab EXCEPT ![w] = None]
          /\ UNCHANGED panicked
      BY <1>4 DEF SendAndUnlock, ReturnFromPut, LockReleased
    <2>2. flushQ' \in Seq(TableId) /\ Len(flushQ') = 1 /\ flushQ'[1] = imm
      BY <1>2, <2>1
    <2>3. RotTypeOK'
      BY <1>1, <2>1, <2>2 DEF RotTypeOK, FlushQCap
    <2>4. Budget'
      BY <1>1, <2>1, BudgetKept
    <2>5. Calls' /\ Made' /\ Stopping'
      BY <1>1, <2>1 DEF Calls, Made, Stopping, RotTypeOK
    <2>6. Locking' /\ Rotating'
      BY <1>1, <1>2, <2>1, RotationAssumption DEF Locking, Rotating, Flushing, RotTypeOK
    <2>7. PendingIsImmutable'
      BY <1>1, <1>2, <2>2 DEF PendingIsImmutable, Flushing
    <2>8. FlushedIsFinal'
      BY <1>1 DEF FlushedIsFinal
    <2> QED
      BY <2>3, <2>4, <2>5, <2>6, <2>7, <2>8
  <1> QED
    BY <1>3, <1>4

-----------------------------------------------------------------------------
(* The worker.                                                             *)

\* A queue of at most one table, taken apart.
LEMMA QueueOfOne ==
  ASSUME ControlInv, flushQ # << >>
  PROVE  /\ Head(flushQ) = imm /\ imm \in TableId
         /\ Tail(flushQ) = << >> /\ Tail(flushQ) \in Seq(TableId)
         /\ ~ Flushing
PROOF
  <1>1. flushQ \in Seq(TableId) /\ Len(flushQ) <= 1
    BY DEF ControlInv, RotTypeOK, FlushQCap
  <1>2. Len(flushQ) = 1
    BY <1>1, EmptySeq
  <1>3. flushQ[1] = imm /\ ~ Flushing
    BY <1>2 DEF ControlInv, PendingIsImmutable, Flushing
  <1>4. flushQ[1] \in TableId /\ Head(flushQ) = flushQ[1]
    BY <1>1, <1>2
  <1>5. Tail(flushQ) \in Seq(TableId) /\ Len(Tail(flushQ)) = 0
    BY <1>1, <1>2
  <1>6. Tail(flushQ) = << >>
    BY <1>5, EmptySeq
  <1> QED
    BY <1>3, <1>4, <1>5, <1>6

\* A step that leaves the writers alone leaves what is said of their calls.
LEMMA WritersKept ==
  ASSUME ControlInv, UNCHANGED <<nextTable, writeVars>>
  PROVE  Budget' /\ Calls'
PROOF
  BY DEF ControlInv, Budget, Unrotated, Calls, writeVars

LEMMA ReceiveControl ==
  ASSUME ControlInv, Receive
  PROVE  ControlInv'
PROOF
  <1> USE DEF ControlInv
  <1>1. /\ fpc = "recv" /\ fpc' = "write" /\ flushQ # << >>
        /\ ftab' = Head(flushQ) /\ flushQ' = Tail(flushQ)
        /\ UNCHANGED <<tableVars, active, imm, mu, qclosed, writeVars, fdata, base,
                       stored, closeVars, panicked>>
    BY DEF Receive
  <1> USE DEF tableVars, writeVars, closeVars
  <1>2. /\ ftab' = imm /\ imm \in TableId
        /\ flushQ' = << >> /\ flushQ' \in Seq(TableId) /\ Len(flushQ') = 0
    BY <1>1, QueueOfOne
  <1>3. RotTypeOK'
    BY <1>1, <1>2 DEF RotTypeOK, FlushQCap
  <1>4. Budget' /\ Calls'
    BY <1>1, WritersKept
  <1>5. Made' /\ Stopping' /\ Locking'
    BY <1>1 DEF Made, Stopping, Locking
  <1>6. Rotating'
    BY <1>1, <1>2 DEF Rotating, Flushing
  <1>7. PendingIsImmutable' /\ FlushedIsFinal'
    <2>1. \A i \in 1 .. Len(flushQ') : FALSE
      BY <1>2
    <2> QED
      BY <1>1, <1>2, <2>1 DEF PendingIsImmutable, FlushedIsFinal
  <1> QED
    BY <1>3, <1>4, <1>5, <1>6, <1>7

\* Tables and what files answer, one over the other, keep their types.
LEMMA OverlayType ==
  /\ \A a \in Table, b \in Table : Overlay(a, b) \in Table
  /\ \A a \in FileTable, b \in FileTable : Overlay(a, b) \in FileTable
  /\ Table \subseteq FileTable
PROOF
  <1>1. \A a \in Table, b \in Table : Overlay(a, b) \in Table
    BY DEF Overlay, Table
  <1>2. \A a \in FileTable, b \in FileTable : Overlay(a, b) \in FileTable
    BY DEF Overlay, FileTable
  <1>3. Table \subseteq FileTable
    BY DEF Table, FileTable
  <1> QED
    BY <1>1, <1>2, <1>3

\* A failed flush leaves errors in the place of entries.
LEMMA LossType ==
  /\ NoFile \in FileTable /\ NoTable \in FileTable
  /\ \A t : LostWith(t) \in FileTable
PROOF
  BY DEF NoFile, NoTable, LostWith, FileTable, Entry

\* Writing the file and publishing it move no table.
LEMMA WriteAndPublishControl ==
  ASSUME ControlInv, WriteFile \/ Publish
  PROVE  ControlInv'
PROOF
  <1> USE DEF ControlInv
  <1>1. /\ Flushing /\ fpc' \in {"publish", "clear"}
        /\ fdata' \in FileTable /\ stored' \in FileTable /\ base' \in FileTable
        /\ UNCHANGED <<tableVars, active, imm, mu, flushQ, qclosed, writeVars, ftab,
                       closeVars, panicked>>
    <2>1. CASE WriteFile
      <3>1. ftab \in TableId /\ mem[ftab] \in Table
        BY <2>1 DEF WriteFile, Rotating, Flushing, RotTypeOK
      <3> QED
        BY <2>1, <3>1, OverlayType, LossType DEF WriteFile, Flushing, RotTypeOK
    <2>2. CASE Publish
      BY <2>2, OverlayType DEF Publish, Flushing, RotTypeOK
    <2> QED
      BY <2>1, <2>2
  <1> USE DEF tableVars, writeVars, closeVars
  <1>2. RotTypeOK'
    BY <1>1 DEF RotTypeOK
  <1>3. Budget' /\ Calls'
    BY <1>1, WritersKept
  <1>4. Made' /\ Locking'
    BY <1>1 DEF Made, Locking
  <1>5. Stopping' /\ Rotating'
    BY <1>1 DEF Stopping, Rotating, Flushing
  <1>6. PendingIsImmutable' /\ FlushedIsFinal'
    BY <1>1 DEF PendingIsImmutable, FlushedIsFinal, Flushing
  <1> QED
    BY <1>2, <1>3, <1>4, <1>5, <1>6

LEMMA ClearControl ==
  ASSUME ControlInv, ClearImmutable
  PROVE  ControlInv'
PROOF
  <1> USE DEF ControlInv
  <1>1. /\ fpc = "clear" /\ fpc' = "recv" /\ mu = None /\ imm' = None
        /\ ftab' = None /\ fdata' = NoTable
        /\ UNCHANGED <<tableVars, active, mu, flushQ, qclosed, writeVars, base,
                       stored, closeVars, panicked>>
    BY DEF ClearImmutable, ImmutableCleared
  <1> USE DEF tableVars, writeVars, closeVars
  <1>2. flushQ = << >>
    BY <1>1, QueueOfOne DEF Flushing
  <1>3. RotTypeOK'
    BY <1>1, LossType DEF RotTypeOK
  <1>4. Budget' /\ Calls'
    BY <1>1, WritersKept
  <1>5. Made' /\ Stopping' /\ Locking'
    BY <1>1 DEF Made, Stopping, Locking
  <1>6. Rotating'
    BY <1>1, RotationAssumption DEF Rotating, Flushing, Locking
  <1>7. PendingIsImmutable' /\ FlushedIsFinal'
    BY <1>1, <1>2 DEF PendingIsImmutable, FlushedIsFinal
  <1> QED
    BY <1>3, <1>4, <1>5, <1>6, <1>7

LEMMA SeeStopControl ==
  ASSUME ControlInv, SeeStop
  PROVE  ControlInv'
PROOF
  <1> USE DEF ControlInv
  <1>1. /\ fpc = "recv" /\ fpc' = "drain" /\ stop /\ qclosed' = TRUE
        /\ UNCHANGED <<tableVars, active, imm, mu, flushQ, writeVars, ftab, fdata,
                       base, stored, closeVars, panicked>>
    BY DEF SeeStop
  <1> USE DEF tableVars, writeVars, closeVars
  <1>2. RotTypeOK'
    BY <1>1 DEF RotTypeOK
  <1>3. Budget' /\ Calls'
    BY <1>1, WritersKept
  <1>4. Made' /\ Stopping' /\ Locking' /\ Rotating'
    BY <1>1 DEF Made, Stopping, Locking, Rotating, Flushing
  <1>5. PendingIsImmutable' /\ FlushedIsFinal'
    BY <1>1 DEF PendingIsImmutable, FlushedIsFinal
  <1> QED
    BY <1>2, <1>3, <1>4, <1>5

LEMMA DrainControl ==
  ASSUME ControlInv, Drain
  PROVE  ControlInv'
PROOF
  <1> USE DEF ControlInv
  <1>1. /\ fpc = "drain" /\ fpc' \in {"drain", "done"}
        /\ UNCHANGED <<tableVars, active, imm, mu, qclosed, writeVars, ftab, fdata,
                       base, closeVars, panicked>>
    BY DEF Drain
  <1> USE DEF tableVars, writeVars, closeVars
  <1>2. flushQ' = << >> /\ stored' \in FileTable
    <2>1. CASE flushQ = << >>
      BY <2>1 DEF Drain, RotTypeOK
    <2>2. CASE flushQ # << >>
      <3>1. /\ flushQ' = << >> /\ imm \in TableId
            /\ \/ stored' = Overlay(mem[imm], stored)
               \/ stored' = Overlay(LostWith(imm), stored)
        BY <2>2, QueueOfOne DEF Drain, DrainedBy
      <3>2. mem[imm] \in FileTable /\ LostWith(imm) \in FileTable
        BY <3>1, OverlayType, LossType DEF RotTypeOK
      <3> QED
        BY <3>1, <3>2, OverlayType DEF RotTypeOK
    <2> QED
      BY <2>1, <2>2
  <1>3. flushQ' \in Seq(TableId) /\ Len(flushQ') = 0
    BY <1>2
  <1>4. RotTypeOK'
    BY <1>1, <1>2, <1>3 DEF RotTypeOK, FlushQCap
  <1>5. Budget' /\ Calls'
    BY <1>1, WritersKept
  <1>6. Made' /\ Stopping' /\ Locking'
    BY <1>1 DEF Made, Stopping, Locking
  <1>7. Rotating' /\ PendingIsImmutable' /\ FlushedIsFinal'
    BY <1>1, <1>2 DEF Rotating, Flushing, PendingIsImmutable, FlushedIsFinal
  <1> QED
    BY <1>4, <1>5, <1>6, <1>7

-----------------------------------------------------------------------------
(* Close.                                                                  *)

\* What no step of Close touches.
NotByClose == <<tableVars, active, qclosed, writeVars, workerVarsR, panicked>>

\* The steps before the lock is taken and after it is released.
LEMMA CloseOutsideLockControl ==
  ASSUME ControlInv, CloseWAL \/ CloseWALFails \/ CloseReturn
  PROVE  ControlInv'
PROOF
  <1> USE DEF ControlInv
  <1>1. /\ UNCHANGED <<NotByClose, imm, mu, flushQ, ctab, stop>>
        /\ walClosed' \in BOOLEAN
        /\ \/ cpc = "open" /\ cpc' \in {"lock", "failed"}
           \/ cpc = "join" /\ cpc' = "closed"
    BY DEF CloseWAL, CloseWALFails, CloseReturn, NotByClose, RotTypeOK
  <1> USE DEF NotByClose, tableVars, writeVars, workerVarsR
  <1>2. RotTypeOK'
    BY <1>1 DEF RotTypeOK
  <1>3. Budget' /\ Calls'
    BY <1>1, WritersKept
  <1>4. Made' /\ Stopping' /\ Locking' /\ Rotating'
    BY <1>1 DEF Made, Stopping, Locking, Rotating, Flushing
  <1>5. PendingIsImmutable' /\ FlushedIsFinal'
    BY <1>1 DEF PendingIsImmutable, FlushedIsFinal
  <1> QED
    BY <1>2, <1>3, <1>4, <1>5

\* Taking db.mu, for the first time or after a sleep.
LEMMA CloseLockControl ==
  ASSUME ControlInv, CloseLock \/ CloseRelock
  PROVE  ControlInv'
PROOF
  <1> USE DEF ControlInv
  <1>1. /\ UNCHANGED <<NotByClose, imm, flushQ, walClosed, stop>>
        /\ mu = None /\ mu' = Closer
        /\ \/ cpc = "lock" /\ ctab' = active /\ cpc' \in {"wait", "unlock"}
           \/ cpc = "relock" /\ ctab' = ctab /\ cpc' = "wait"
    BY DEF CloseLock, CloseRelock, NotByClose, closeVars
  <1> USE DEF NotByClose, tableVars, writeVars, workerVarsR
  <1>2. RotTypeOK'
    BY <1>1 DEF RotTypeOK
  <1>3. Budget' /\ Calls'
    BY <1>1, WritersKept
  <1>4. Made'
    BY <1>1 DEF Made, RotTypeOK
  <1>5. Stopping' /\ Locking' /\ Rotating'
    BY <1>1, RotationAssumption DEF Stopping, Locking, Rotating, Flushing
  <1>6. PendingIsImmutable' /\ FlushedIsFinal'
    BY <1>1 DEF PendingIsImmutable, FlushedIsFinal
  <1> QED
    BY <1>2, <1>3, <1>4, <1>5, <1>6

LEMMA CloseWaitControl ==
  ASSUME ControlInv, CloseWait
  PROVE  ControlInv'
PROOF
  <1> USE DEF ControlInv
  <1>1. /\ UNCHANGED <<NotByClose, flushQ, ctab, walClosed, stop>>
        /\ cpc = "wait" /\ mu = Closer
        /\ \A w \in Writers : pc[w] \notin {"imm", "active", "send"}
        /\ ctab \in TableId /\ ctab < nextTable
    BY RotationAssumption DEF CloseWait, NotByClose, Locking, Made
  <1> USE DEF NotByClose, tableVars, writeVars, workerVarsR
  <1>2. \/ /\ imm = None /\ imm' = ctab /\ cpc' = "send" /\ mu' = mu
           /\ flushQ = << >> /\ ~ Flushing
        \/ mu' = None /\ cpc' = "relock" /\ imm' = imm
    BY NothingPending DEF CloseWait, UnlockedWhileSleeping
  <1>3. RotTypeOK'
    BY <1>1, <1>2 DEF RotTypeOK
  <1>4. Budget' /\ Calls'
    BY <1>1, WritersKept
  <1>5. Made' /\ Stopping'
    BY <1>1, <1>2 DEF Made, Stopping
  <1>6. Locking' /\ Rotating'
    BY <1>1, <1>2, RotationAssumption DEF Locking, Rotating, Flushing
  <1>7. PendingIsImmutable' /\ FlushedIsFinal'
    BY <1>1, <1>2 DEF PendingIsImmutable, FlushedIsFinal, Flushing
  <1> QED
    BY <1>3, <1>4, <1>5, <1>6, <1>7

LEMMA CloseSendControl ==
  ASSUME ControlInv, CloseSend
  PROVE  ControlInv'
PROOF
  <1> USE DEF ControlInv
  <1>1. /\ UNCHANGED <<NotByClose, imm, mu, ctab, walClosed, stop>>
        /\ cpc = "send" /\ cpc' = "unlock" /\ mu = Closer
        /\ flushQ' = Append(flushQ, ctab)
        /\ \A w \in Writers : pc[w] \notin {"imm", "active", "send"}
        /\ ctab \in TableId /\ imm = ctab /\ flushQ = << >> /\ ~ Flushing
    BY RotationAssumption DEF CloseSend, NotByClose, Locking, Made, Rotating
  <1> USE DEF NotByClose, tableVars, writeVars, workerVarsR
  <1>2. flushQ' \in Seq(TableId) /\ Len(flushQ') = 1 /\ flushQ'[1] = imm
    BY <1>1
  <1>3. RotTypeOK'
    BY <1>1, <1>2 DEF RotTypeOK, FlushQCap
  <1>4. Budget' /\ Calls'
    BY <1>1, WritersKept
  <1>5. Made' /\ Stopping' /\ Locking' /\ Rotating'
    BY <1>1 DEF Made, Stopping, Locking, Rotating, Flushing
  <1>6. PendingIsImmutable'
    BY <1>1, <1>2 DEF PendingIsImmutable, Flushing
  <1>7. FlushedIsFinal'
    BY <1>1 DEF FlushedIsFinal
  <1> QED
    BY <1>3, <1>4, <1>5, <1>6, <1>7

LEMMA CloseStopControl ==
  ASSUME ControlInv, CloseStop
  PROVE  ControlInv'
PROOF
  <1> USE DEF ControlInv
  <1>1. /\ UNCHANGED <<NotByClose, imm, flushQ, ctab, walClosed>>
        /\ cpc = "unlock" /\ cpc' = "join" /\ mu = Closer /\ mu' = None
        /\ stop' = TRUE
        /\ \A w \in Writers : pc[w] \notin {"imm", "active", "send"}
    BY RotationAssumption DEF CloseStop, NotByClose, Locking
  <1> USE DEF NotByClose, tableVars, writeVars, workerVarsR
  <1>2. RotTypeOK'
    BY <1>1 DEF RotTypeOK
  <1>3. Budget' /\ Calls'
    BY <1>1, WritersKept
  <1>4. Made' /\ Stopping' /\ Locking' /\ Rotating'
    BY <1>1, RotationAssumption DEF Made, Stopping, Locking, Rotating, Flushing
  <1>5. PendingIsImmutable' /\ FlushedIsFinal'
    BY <1>1 DEF PendingIsImmutable, FlushedIsFinal
  <1> QED
    BY <1>2, <1>3, <1>4, <1>5

-----------------------------------------------------------------------------
(* The invariant, and what follows from it.                                *)

LEMMA NextControl == ControlInv /\ [RotNext]_rotVars => ControlInv'
PROOF
  <1> SUFFICES ASSUME ControlInv, [RotNext]_rotVars PROVE ControlInv'
    OBVIOUS
  <1>1. CASE UNCHANGED rotVars
    BY <1>1 DEF rotVars, tableVars, writeVars, workerVarsR, closeVars, ControlInv,
       RotTypeOK, Budget, Unrotated, Calls, Made, Locking, Rotating, Stopping,
       Flushing, PendingIsImmutable, FlushedIsFinal
  <1>2. ASSUME NEW w \in Writers, AppendWAL(w) \/ WriterStep(w) \/ LockAndFreeze(w)
        PROVE  ControlInv'
    BY <1>2, AppendControl, InsertControl, LoadActiveControl, CheckSizeControl,
       LockAndFreezeControl, StoreImmutableControl, StoreActiveControl, SendControl
    DEF WriterStep
  <1>3. CASE FlusherStep \/ ClearImmutable \/ SeeStop
    BY <1>3, ReceiveControl, WriteAndPublishControl, ClearControl, SeeStopControl,
       DrainControl DEF FlusherStep
  <1>4. CASE CloseWAL \/ CloseWALFails \/ CloserStep \/ CloseLock \/ CloseRelock
    BY <1>4, CloseOutsideLockControl, CloseLockControl, CloseWaitControl,
       CloseSendControl, CloseStopControl DEF CloserStep
  <1> QED
    BY <1>1, <1>2, <1>3, <1>4 DEF RotNext

LEMMA ControlInvariant == RotSpec => []ControlInv
PROOF
  BY InitControl, NextControl, PTL DEF RotSpec

\* The variables keep their types, at most one table is queued, there is always
\* a table left for the next rotation, and a retired table is frozen for good
\* (db.go:89, db.go:368-369).
THEOREM RotationInvariant == RotSpec => []RotInv
PROOF
  <1>1. ControlInv => RotInv
    BY DEF ControlInv, RotInv
  <1> QED
    BY ControlInvariant, <1>1, PTL

\* No goroutine waits for room in the channel while it holds db.mu, so writers,
\* worker and Close cannot wait for each other (db.go:377, db.go:506).
THEOREM SendsFindRoom == RotSpec => []SendNeverBlocks
PROOF
  <1>1. ASSUME ControlInv PROVE SendNeverBlocks
    <2>1. flushQ = << >> => Len(flushQ) < FlushQCap
      BY DEF FlushQCap
    <2> QED
      BY <1>1, <2>1 DEF ControlInv, Rotating, SendNeverBlocks
  <1> QED
    BY ControlInvariant, <1>1, PTL

\* A table that is queued or being flushed is immutableMT and so in the sight of
\* every lookup (db.go:371-377, db.go:463-466).
THEOREM PendingStaysImmutable == RotSpec => []PendingIsImmutable
PROOF
  <1>1. ControlInv => PendingIsImmutable
    BY DEF ControlInv
  <1> QED
    BY ControlInvariant, <1>1, PTL

-----------------------------------------------------------------------------
(* The inductive invariant of the data, when Close is called after the last *)
(* Put and Delete have returned.  With writers running during Close it is   *)
(* false: Close may store a table in immutableMT that was flushed long ago  *)
(* (db.go:497-506).                                                         *)

\* Nobody writes once Close has begun, so the table Close loads stays active.
Quiescent ==
  /\ cpc # "open" => \A w \in Writers : pc[w] = "idle"
  /\ cpc \in {"wait", "relock", "send"} => ctab = active

\* What is in immutableMT takes no more entries ...
Settled == cpc = "open" /\ imm # None => frozen[imm]

\* ... and is on its way to a file until it is cleared or drained.
OnItsWay ==
  imm # None =>
    \/ flushQ # << >> \/ Flushing \/ cpc = "send"
    \/ \E w \in Writers : pc[w] \in {"active", "send"}
    \/ fpc \in {"drain", "done"}

\* The files hold what t answers, except for what failed flushes have lost.
Holds(t) == \A k \in Keys : stored[k] = t[k] \/ Unreadable \in {stored[k], t[k]}

\* How far the files have it.
Files ==
  /\ fpc \in {"recv", "write", "clear"} => Holds(base)
  /\ fpc \in {"publish", "clear"} => Holds(Overlay(mem[imm], base))
  /\ fpc = "publish" => fdata = mem[imm] \/ (FlushMayFail /\ fdata = NoFile)
  /\ fpc = "clear" =>
       Overlay(mem[imm], base) = base \/ (FlushMayFail /\ base = NoFile)
  /\ fpc \in {"drain", "done"} /\ flushQ # << >> => Holds(base)
  /\ fpc \in {"drain", "done"} /\ flushQ = << >> =>
       Holds(Overlay(TableOf(imm), base))
  /\ fpc = "done" => flushQ = << >>
  /\ cpc = "closed" => fpc = "done"

\* Tables hold finitely many entries, so that Size tells an empty one.
Filled(t) == {k \in Keys : mem[t][k] # Absent}
FiniteTables == \A t \in TableId : IsFiniteSet(Filled(t))

\* Close has seen to the last active table: it is empty, pending or written.
LastTable ==
  cpc \in {"unlock", "join", "closed"} =>
    \/ mem[active] = NoTable
    \/ imm = active
    \/ imm = None /\ Holds(Overlay(mem[active], base))

DataInv == Quiescent /\ Settled /\ OnItsWay /\ Files /\ FiniteTables /\ LastTable

-----------------------------------------------------------------------------
(* Tables over tables.                                                     *)

LEMMA OverlayFacts ==
  ASSUME NEW a \in Table, NEW b \in FileTable
  PROVE  /\ Overlay(NoTable, b) = b
         /\ Overlay(a, Overlay(a, b)) = Overlay(a, b)
         /\ Overlay(a, b) \in FileTable
         /\ \A k \in Keys : Overlay(a, b)[k] = IF a[k] = Absent THEN b[k] ELSE a[k]
PROOF
  <1>1. /\ Overlay(NoTable, b) = [k \in Keys |-> b[k]]
        /\ b = [k \in Keys |-> b[k]]
    BY DEF Overlay, NoTable, FileTable
  <1>2. Overlay(a, Overlay(a, b)) = Overlay(a, b)
    BY DEF Overlay
  <1> QED
    BY <1>1, <1>2, OverlayType DEF Overlay

\* A pending table is one of the tables; what the files answer are tables.
LEMMA TablesTyped ==
  ASSUME ControlInv
  PROVE  /\ mem[active] \in Table /\ TableOf(imm) \in Table
         /\ imm # None => mem[imm] \in Table /\ TableOf(imm) = mem[imm]
         /\ base \in FileTable /\ stored \in FileTable /\ fdata \in FileTable
         /\ NoTable \in Table
PROOF
  BY DEF ControlInv, RotTypeOK, TableOf, NoTable, Table, Entry

LEMMA InitData == RotInit => DataInv
PROOF
  <1> SUFFICES ASSUME RotInit PROVE DataInv
    OBVIOUS
  <1>1. \A t \in TableId : Filled(t) = {}
    BY DEF RotInit, Filled, NoTable
  <1>2. FiniteTables
    BY <1>1, FS_EmptySet DEF FiniteTables
  <1>3. Quiescent /\ Settled /\ OnItsWay /\ Files /\ LastTable
    BY DEF RotInit, Quiescent, Settled, OnItsWay, Files, Holds, Overlay, LastTable
  <1> QED
    BY <1>2, <1>3 DEF DataInv

-----------------------------------------------------------------------------
(* Steps of writers.                                                       *)

\* A writer takes steps only before Close, and the worker none with it.
LEMMA WriterBeforeClose ==
  ASSUME ControlInv, DataInv, CloseWhileWriting = FALSE, NEW w \in Writers,
         AppendWAL(w) \/ WriterStep(w) \/ LockAndFreeze(w)
  PROVE  cpc = "open" /\ cpc' = "open" /\ UNCHANGED <<workerVarsR, closeVars>>
PROOF
  <1>1. cpc = "open"
    <2>1. CASE AppendWAL(w)
      BY <2>1 DEF AppendWAL
    <2>2. CASE WriterStep(w) \/ LockAndFreeze(w)
      BY <2>2 DEF DataInv, Quiescent, WriterStep, LoadActive, Insert, CheckSize,
         StoreImmutable, StoreActive, SendAndUnlock, LockAndFreeze
    <2> QED
      BY <2>1, <2>2
  <1>2. UNCHANGED <<workerVarsR, closeVars>>
    BY DEF AppendWAL, WriterStep, LoadActive, Insert, CheckSize, StoreImmutable,
       StoreActive, SendAndUnlock, LockAndFreeze
  <1> QED
    BY <1>1, <1>2 DEF closeVars

\* An insert that is not refused goes into the active table, which no pending
\* table is.
LEMMA InsertIsActive ==
  ASSUME ControlInv, DataInv, CloseWhileWriting = FALSE, NEW w \in Writers,
         Insert(w), ~ frozen[tab[w]]
  PROVE  /\ tab[w] = active /\ imm # active
         /\ op[w].key \in Keys /\ op[w].val \in Mutation
         /\ mem' = [mem EXCEPT ![active] =
                      [mem[active] EXCEPT ![op[w].key] = op[w].val]]
         /\ pc' = [pc EXCEPT ![w] = "size"]
PROOF
  <1>1. pc[w] = "insert" /\ op[w] \in Op /\ tab[w] \in TableId /\ tab[w] < nextTable
    BY DEF Insert, ControlInv, Calls
  <1>2. tab[w] = active
    BY <1>1 DEF ControlInv, FlushedIsFinal
  <1>3. active # imm
    <2>1. cpc = "open" /\ active # None
      BY WriterBeforeClose, RotationAssumption DEF WriterStep, ControlInv, RotTypeOK
    <2> QED
      BY <1>2, <2>1 DEF DataInv, Settled
  <1> QED
    BY <1>1, <1>2, <1>3 DEF Insert, Rejects, Op

LEMMA InsertData ==
  ASSUME ControlInv, DataInv, CloseWhileWriting = FALSE, NEW w \in Writers, Insert(w)
  PROVE  DataInv'
PROOF
  <1>1. /\ cpc = "open" /\ UNCHANGED <<workerVarsR, closeVars>>
        /\ pc[w] = "insert"
        /\ UNCHANGED <<frozen, nextTable, active, imm, mu, flushQ, qclosed>>
    BY WriterBeforeClose DEF WriterStep, Insert
  <1> USE DEF workerVarsR, closeVars
  <1>2. imm # None => mem'[imm] = mem[imm]
    <2>1. CASE frozen[tab[w]]
      BY <2>1 DEF Insert, Rejects
    <2>2. CASE ~ frozen[tab[w]]
      BY <2>2, InsertIsActive DEF ControlInv, RotTypeOK
    <2> QED
      BY <2>1, <2>2
  <1>3. FiniteTables'
    <2>1. CASE frozen[tab[w]]
      BY <2>1 DEF Insert, Rejects, DataInv, FiniteTables, Filled
    <2>2. CASE ~ frozen[tab[w]]
      <3>0. /\ mem \in [TableId -> Table] /\ active \in TableId
            /\ mem' = [mem EXCEPT ![active] =
                         [mem[active] EXCEPT ![op[w].key] = op[w].val]]
        BY <2>2, InsertIsActive DEF ControlInv, RotTypeOK
      <3>1. ASSUME NEW t \in TableId PROVE IsFiniteSet(Filled(t)')
        <4>1. CASE t # active
          <5>1. mem'[t] = mem[t]
            BY <3>0, <4>1
          <5>2. Filled(t)' = Filled(t)
            BY <5>1 DEF Filled
          <5> QED
            BY <5>2 DEF DataInv, FiniteTables
        <4>2. CASE t = active
          <5>1. mem'[t] = [mem[t] EXCEPT ![op[w].key] = op[w].val]
            BY <3>0, <4>2
          <5>2. Filled(t)' \subseteq Filled(t) \cup {op[w].key}
            BY <3>1, <5>1 DEF Filled, ControlInv, RotTypeOK, Table
          <5>3. IsFiniteSet(Filled(t) \cup {op[w].key})
            BY <3>1, FS_AddElement DEF DataInv, FiniteTables
          <5> QED
            BY <5>2, <5>3, FS_Subset
        <4> QED
          BY <4>1, <4>2
      <3> QED
        BY <3>1 DEF FiniteTables
    <2> QED
      BY <2>1, <2>2
  <1>4. Files'
    <2>1. Flushing => imm # None
      BY RotationAssumption DEF ControlInv, Rotating, PendingIsImmutable, Flushing
    <2>2. TableOf(imm)' = TableOf(imm)
      BY <1>1, <1>2 DEF TableOf
    <2> QED
      BY <1>1, <1>2, <2>1, <2>2 DEF DataInv, Files, Holds, Overlay, Flushing
  <1>5. \A v \in Writers : v # w => pc'[v] = pc[v]
    BY DEF Insert, ControlInv, RotTypeOK
  <1>6. Quiescent' /\ Settled' /\ OnItsWay' /\ LastTable'
    BY <1>1, <1>5 DEF DataInv, Quiescent, Settled, OnItsWay, LastTable, Holds, Overlay, Flushing
  <1> QED
    BY <1>3, <1>4, <1>6 DEF DataInv

\* The other steps of writers change no table.
LEMMA OtherWriterData ==
  ASSUME ControlInv, DataInv, CloseWhileWriting = FALSE, NEW w \in Writers,
         \/ AppendWAL(w) \/ LoadActive(w) \/ CheckSize(w) \/ LockAndFreeze(w)
         \/ StoreImmutable(w) \/ StoreActive(w) \/ SendAndUnlock(w)
  PROVE  DataInv'
PROOF
  <1>1. cpc = "open" /\ UNCHANGED <<workerVarsR, closeVars>>
    BY WriterBeforeClose DEF WriterStep
  <1>2. mem' = mem
    BY DEF AppendWAL, LoadActive, CheckSize, LockAndFreeze, StoreImmutable,
       StoreActive, SendAndUnlock, tableVars
  <1> USE DEF workerVarsR, closeVars
  <1>3. FiniteTables' /\ Quiescent' /\ LastTable'
    BY <1>1, <1>2 DEF DataInv, FiniteTables, Filled, Quiescent, LastTable, Holds, Overlay
  <1>4. CASE AppendWAL(w) \/ LoadActive(w) \/ CheckSize(w) \/ LockAndFreeze(w)
    <2>1. /\ UNCHANGED <<imm, flushQ>>
          /\ \A t \in TableId : frozen[t] => frozen'[t]
          /\ pc[w] \notin {"active", "send"}
          /\ \A v \in Writers : v # w => pc'[v] = pc[v]
      BY <1>4 DEF AppendWAL, LoadActive, CheckSize, LockAndFreeze, tableVars,
         ReturnFromPut, Freeze, ControlInv, RotTypeOK
    <2> QED
      BY <1>1, <1>2, <1>3, <2>1
      DEF DataInv, Settled, OnItsWay, Files, Holds, Overlay, Flushing, TableOf, ControlInv, RotTypeOK
  <1>5. CASE StoreImmutable(w)
    <2>1. /\ imm = None /\ imm' = active /\ frozen[active] /\ ~ Flushing
          /\ UNCHANGED <<frozen, flushQ>> /\ pc'[w] = "active"
          /\ fpc \notin {"drain", "done"}
      BY <1>1, <1>5 DEF StoreImmutable, ControlInv, Rotating, RotTypeOK, tableVars,
         Stopping
    <2> QED
      BY <1>1, <1>2, <1>3, <2>1 DEF DataInv, Settled, OnItsWay, Files, Holds, Overlay, Flushing
  <1>6. CASE StoreActive(w)
    BY <1>1, <1>2, <1>3, <1>6
    DEF StoreActive, DataInv, Settled, OnItsWay, Files, Holds, Overlay, Flushing, TableOf,
        ControlInv, RotTypeOK
  <1>7. CASE SendAndUnlock(w)
    <2>1. /\ ~ qclosed /\ flushQ' = Append(flushQ, tab[w]) /\ flushQ = << >>
          /\ tab[w] \in TableId /\ UNCHANGED <<imm, frozen>>
          /\ ~ Flushing /\ fpc \notin {"drain", "done"}
      BY <1>1, <1>7 DEF SendAndUnlock, ControlInv, Rotating, tableVars, Stopping
    <2>2. flushQ' # << >>
      <3>1. Len(flushQ') = 1
        BY <2>1
      <3> QED
        BY <3>1
    <2> QED
      BY <1>1, <1>2, <1>3, <2>1, <2>2 DEF DataInv, Settled, OnItsWay, Files, Holds, Overlay, Flushing
  <1> QED
    BY <1>4, <1>5, <1>6, <1>7
-----------------------------------------------------------------------------
(* Steps of the worker.                                                    *)

\* The head of the queue is immutableMT, and nothing is queued behind it.
LEMMA QueueHead ==
  ASSUME ControlInv, flushQ # << >>
  PROVE  /\ Head(flushQ) = imm /\ Tail(flushQ) = << >>
         /\ imm # None /\ TableOf(imm) = mem[imm]
PROOF
  BY QueueOfOne, RotationAssumption DEF TableOf

\* What the worker is flushing is immutableMT.
LEMMA FlushingImmutable ==
  ASSUME ControlInv, Flushing
  PROVE  ftab = imm /\ imm \in TableId /\ imm # None /\ TableOf(imm) = mem[imm]
PROOF
  BY RotationAssumption
  DEF ControlInv, Rotating, PendingIsImmutable, Flushing, TableOf

LEMMA FlushData ==
  ASSUME ControlInv, DataInv, Receive \/ WriteFile \/ Publish \/ ClearImmutable
  PROVE  DataInv'
PROOF
  <1>1. /\ mem' = mem /\ frozen' = frozen /\ active' = active /\ pc' = pc
        /\ cpc' = cpc /\ ctab' = ctab
    BY DEF Receive, WriteFile, Publish, ClearImmutable, tableVars, closeVars,
       writeVars
  <1>2. FiniteTables' /\ Quiescent'
    BY <1>1 DEF DataInv, FiniteTables, Filled, Quiescent
  <1>3. CASE Receive
    BY <1>1, <1>2, <1>3, QueueHead
    DEF Receive, DataInv, Settled, OnItsWay, Files, Holds, Overlay, LastTable, Flushing
  <1>4. CASE WriteFile
    <2>1. /\ Flushing /\ fpc = "write" /\ fpc' = "publish" /\ imm' = imm
          /\ base' = base /\ flushQ' = flushQ
      BY <1>4 DEF WriteFile, Flushing
    <2>2. /\ imm # None
          /\ \/ fdata' = mem[imm] /\ stored' = Overlay(mem[imm], stored)
             \/ /\ FlushMayFail /\ fdata' = NoFile
                /\ stored' = Overlay(LostWith(imm), stored)
      BY <1>4, <2>1, FlushingImmutable DEF WriteFile
    <2>3. Holds(base)
      BY <2>1 DEF DataInv, Files
    <2>4. \A k \in Keys :
            LET e == Overlay(mem[imm], base)[k]
            IN  stored'[k] = e \/ Unreadable \in {stored'[k], e}
      BY <2>2, <2>3, RotationAssumption DEF Holds, Overlay, LostWith, Entry
    <2>5. Files'
      BY <1>1, <2>1, <2>2, <2>4 DEF DataInv, Files, Holds, Overlay
    <2>6. LastTable'
      BY <1>1, <2>1, <2>2 DEF DataInv, LastTable
    <2> QED
      BY <1>1, <1>2, <2>1, <2>5, <2>6 DEF DataInv, Settled, OnItsWay, Flushing
  <1>5. CASE Publish
    <2>1. /\ Flushing /\ Holds(Overlay(mem[imm], base))
          /\ fdata = mem[imm] \/ (FlushMayFail /\ fdata = NoFile)
      BY <1>5 DEF Publish, DataInv, Files, Flushing
    <2>2. imm # None /\ imm' = imm /\ stored' = stored /\ flushQ' = flushQ
          /\ base' = Overlay(fdata, base) /\ fpc' = "clear"
      BY <1>5, <2>1, FlushingImmutable DEF Publish
    <2>3. /\ Overlay(mem[imm], base') = base' \/ (FlushMayFail /\ base' = NoFile)
          /\ \A k \in Keys :
               /\ stored[k] = base'[k] \/ Unreadable \in {stored[k], base'[k]}
               /\ \/ stored[k] = Overlay(mem[imm], base')[k]
                  \/ Unreadable \in {stored[k], Overlay(mem[imm], base')[k]}
      <3>1. CASE fdata = mem[imm]
        <4>1. Overlay(mem[imm], base') = base' /\ base' = Overlay(mem[imm], base)
          BY <2>2, <3>1, TablesTyped, OverlayFacts
        <4> QED
          BY <2>1, <4>1 DEF Holds
      <3>2. CASE FlushMayFail /\ fdata = NoFile
        <4>1. base' = NoFile
          BY <2>2, <3>2, RotationAssumption DEF NoFile, Overlay, Entry
        <4>2. \A k \in Keys : /\ base'[k] = Unreadable
                              /\ Overlay(mem[imm], base')[k] =
                                   IF mem[imm][k] = Absent THEN Unreadable
                                   ELSE Overlay(mem[imm], base)[k]
          BY <4>1 DEF NoFile, Overlay
        <4> QED
          BY <2>1, <3>2, <4>1, <4>2 DEF Holds
      <3> QED
        BY <2>1, <3>1, <3>2
    <2>4. Files'
      <3>1. Holds(base)'
        BY <2>2, <2>3 DEF Holds
      <3>2. Holds(Overlay(mem[imm], base))'
        BY <1>1, <2>2, <2>3 DEF Holds, Overlay
      <3>3. (Overlay(mem[imm], base) = base)' \/ (FlushMayFail /\ base' = NoFile)
        BY <1>1, <2>2, <2>3 DEF Overlay
      <3>4. fpc' = "clear" /\ (cpc' = "closed" => cpc = "closed") /\ cpc # "closed"
        BY <1>1, <2>1, <2>2 DEF DataInv, Files, Flushing
      <3> QED
        BY <3>1, <3>2, <3>3, <3>4 DEF Files
    <2>5. LastTable'
      BY <1>1, <2>2 DEF DataInv, LastTable
    <2> QED
      BY <1>1, <1>2, <2>1, <2>2, <2>4, <2>5 DEF DataInv, Settled, OnItsWay, Flushing
  <1>6. CASE ClearImmutable
    BY <1>1, <1>2, <1>6
    DEF ClearImmutable, ImmutableCleared, DataInv, Settled, OnItsWay, Files, Holds, Overlay,
        LastTable, Flushing, TableOf
  <1> QED
    BY <1>3, <1>4, <1>5, <1>6

\* Told to stop with nothing queued, the worker has nothing left to write.
LEMMA StopData ==
  ASSUME ControlInv, DataInv, SeeStop
  PROVE  DataInv'
PROOF
  <1>1. flushQ = << >> => imm = None
    BY DEF SeeStop, ControlInv, Stopping, DataInv, Quiescent, OnItsWay, Flushing
  <1>2. imm = None => Holds(Overlay(TableOf(imm), base))
    BY TablesTyped, OverlayFacts DEF SeeStop, DataInv, Files, TableOf
  <1> QED
    BY <1>1, <1>2
    DEF SeeStop, tableVars, closeVars, writeVars, DataInv, FiniteTables, Filled,
        Quiescent, Settled, OnItsWay, Files, Holds, Overlay, LastTable, Flushing, TableOf

LEMMA DrainData ==
  ASSUME ControlInv, DataInv, Drain
  PROVE  DataInv'
PROOF
  <1>1. /\ mem' = mem /\ frozen' = frozen /\ active' = active /\ pc' = pc
        /\ cpc' = cpc /\ ctab' = ctab /\ imm' = imm /\ base' = base
        /\ fpc = "drain"
    BY DEF Drain, tableVars, closeVars, writeVars
  <1>2. FiniteTables' /\ Quiescent' /\ Settled'
    BY <1>1 DEF DataInv, FiniteTables, Filled, Quiescent, Settled
  <1>3. CASE flushQ = << >>
    BY <1>1, <1>2, <1>3
    DEF Drain, DataInv, OnItsWay, Files, LastTable, Holds, Overlay, Flushing, TableOf
  <1>4. CASE flushQ # << >>
    <2>1. /\ imm # None /\ TableOf(imm) = mem[imm]
          /\ flushQ' = << >> /\ fpc' = "drain"
          /\ stored' \in {Overlay(mem[imm], stored), Overlay(LostWith(imm), stored)}
      BY <1>1, <1>4, QueueHead DEF Drain, DrainedBy
    <2>2. Holds(base)
      BY <1>1, <1>4 DEF DataInv, Files
    <2>3. \A k \in Keys :
            LET e == Overlay(mem[imm], base)[k]
            IN  stored'[k] = e \/ Unreadable \in {stored'[k], e}
      BY <2>1, <2>2, RotationAssumption DEF Holds, Overlay, LostWith, Entry
    <2>4. TableOf(imm)' = mem[imm]
      BY <1>1, <2>1 DEF TableOf
    <2>5. Files'
      BY <1>1, <2>1, <2>3, <2>4 DEF DataInv, Files, Holds, Overlay
    <2>6. LastTable'
      BY <1>1, <2>1 DEF DataInv, LastTable
    <2> QED
      BY <1>1, <1>2, <2>1, <2>5, <2>6 DEF DataInv, OnItsWay
  <1> QED
    BY <1>3, <1>4

-----------------------------------------------------------------------------
(* Steps of Close.                                                         *)

LEMMA CloseData ==
  ASSUME ControlInv, DataInv, CloseWhileWriting = FALSE,
         \/ CloseWAL \/ CloseWALFails \/ CloseRelock \/ CloseReturn \/ CloseStop
         \/ CloseWait \/ CloseSend \/ CloseLock
  PROVE  DataInv'
PROOF
  <1>1. /\ UNCHANGED <<mem, frozen, active, pc, base, stored, fpc, fdata>>
        /\ imm' = imm \/ imm = None
    BY DEF CloseWAL, CloseWALFails, CloseRelock, CloseReturn, CloseStop, CloseWait,
       CloseSend, CloseLock, tableVars, writeVars, workerVarsR
  <1>2. FiniteTables'
    BY <1>1 DEF DataInv, FiniteTables, Filled
  <1>3. CASE CloseWAL \/ CloseWALFails \/ CloseRelock \/ CloseReturn \/ CloseStop
    BY <1>1, <1>2, <1>3
    DEF CloseWAL, CloseWALFails, CloseRelock, CloseReturn, CloseStop, DataInv,
        Quiescent, Settled, OnItsWay, Files, Holds, Overlay, LastTable, Flushing, TableOf
  <1>4. CASE CloseLock
    <2>1. Size(active) = 0 => mem[active] = NoTable
      <3>1. active \in TableId /\ mem[active] \in Table
        BY DEF ControlInv, RotTypeOK
      <3>2. Size(active) = 0 => Filled(active) = {}
        BY <3>1, FS_EmptySet DEF DataInv, FiniteTables, Size, Filled
      <3>3. Filled(active) = {} => mem[active] = [k \in Keys |-> Absent]
        BY <3>1 DEF Filled, Table
      <3> QED
        BY <3>2, <3>3 DEF NoTable
    <2>2. Size(active) \in Nat
      BY FS_CardinalityType DEF DataInv, FiniteTables, ControlInv, RotTypeOK, Size,
         Filled
    <2>3. cpc' = "wait" \/ (cpc' = "unlock" /\ mem[active] = NoTable)
      BY <1>4, <2>1, <2>2 DEF CloseLock
    <2> QED
      BY <1>1, <1>2, <1>4, <2>3
      DEF CloseLock, DataInv, Quiescent, Settled, OnItsWay, Files, Holds, Overlay, LastTable,
          Flushing, TableOf
  <1>5. CASE CloseWait
    <2>1. cpc = "wait" /\ ctab' = ctab /\ flushQ' = flushQ /\ stop = FALSE
      BY <1>5 DEF CloseWait, ControlInv, Stopping, RotTypeOK
    <2>2. fpc \notin {"drain", "done"}
      BY <2>1 DEF ControlInv, Stopping
    <2>3. imm = None => ~ Flushing
      BY FlushingImmutable
    <2> QED
      BY <1>1, <1>2, <1>5, <2>1, <2>2, <2>3
      DEF CloseWait, DataInv, Quiescent, Settled, OnItsWay, Files, Holds, Overlay, LastTable,
          Flushing
  <1>6. CASE CloseSend
    <2>1. /\ cpc = "send" /\ cpc' = "unlock" /\ imm' = imm /\ ctab' = ctab
          /\ imm = ctab /\ ctab = active /\ ctab \in TableId /\ flushQ = << >>
          /\ flushQ' = Append(flushQ, ctab) /\ ~ Flushing
      BY <1>6 DEF CloseSend, ControlInv, Rotating, Made, DataInv, Quiescent
    <2>2. flushQ' # << >>
      <3>1. Len(flushQ') = 1
        BY <2>1
      <3> QED
        BY <3>1
    <2>3. fpc \notin {"drain", "done"}
      BY <2>1 DEF ControlInv, Stopping
    <2> QED
      BY <1>1, <1>2, <2>1, <2>2, <2>3
      DEF DataInv, Quiescent, Settled, OnItsWay, Files, Holds, Overlay, LastTable, Flushing
  <1> QED
    BY <1>3, <1>4, <1>5, <1>6

LEMMA NextData ==
  ASSUME ControlInv, DataInv, CloseWhileWriting = FALSE, [RotNext]_rotVars
  PROVE  DataInv'
PROOF
  <1>1. CASE UNCHANGED rotVars
    BY <1>1
    DEF rotVars, tableVars, writeVars, workerVarsR, closeVars, DataInv, Quiescent,
        Settled, OnItsWay, Files, Holds, Overlay, FiniteTables, Filled, LastTable, Flushing, TableOf
  <1>2. CASE \E w \in Writers : AppendWAL(w) \/ WriterStep(w) \/ LockAndFreeze(w)
    BY <1>2, InsertData, OtherWriterData DEF WriterStep
  <1>3. CASE FlusherStep \/ ClearImmutable \/ SeeStop
    BY <1>3, FlushData, StopData, DrainData DEF FlusherStep
  <1>4. CASE CloseWAL \/ CloseWALFails \/ CloserStep \/ CloseLock \/ CloseRelock
    BY <1>4, CloseData DEF CloserStep
  <1> QED
    BY <1>1, <1>2, <1>3, <1>4 DEF RotNext

LEMMA DataInvariant ==
  ASSUME CloseWhileWriting = FALSE
  PROVE  RotSpec => [](ControlInv /\ DataInv)
PROOF
  <1>1. ControlInv /\ DataInv /\ [RotNext]_rotVars => ControlInv' /\ DataInv'
    BY NextControl, NextData
  <1> QED
    BY InitControl, InitData, <1>1, PTL DEF RotSpec

\* Close, called after the last Put and Delete have returned, leaves every entry
\* a lookup sees in a file on disk, whatever the worker was doing and however
\* many tables were pending when it began, unless the flush of the entry's table
\* failed, which Close does not report (db.go:488-513, db.go:443-482).
THEOREM CloseFlushesEverything ==
  ASSUME CloseWhileWriting = FALSE
  PROVE  RotSpec => []CloseFlushesAll
PROOF
  <1>1. ASSUME ControlInv, DataInv PROVE CloseFlushesAll
    <2>1. ASSUME cpc = "closed" PROVE Holds(View)
      <3>1. Holds(Overlay(TableOf(imm), base))
        BY <1>1, <2>1 DEF DataInv, Files
      <3>2. \/ mem[active] = NoTable
            \/ imm = active
            \/ imm = None /\ Holds(Overlay(mem[active], base))
        BY <1>1, <2>1 DEF DataInv, LastTable
      <3>3. /\ mem[active] \in Table /\ TableOf(imm) \in Table /\ base \in FileTable
            /\ imm = None => TableOf(imm) = NoTable
            /\ imm = active => TableOf(imm) = mem[active]
        BY <1>1, TablesTyped, RotationAssumption DEF TableOf, ControlInv, RotTypeOK
      <3>4. CASE mem[active] = NoTable
        <4>1. Overlay(TableOf(imm), base) \in FileTable
          BY <3>3, OverlayFacts
        <4> QED
          BY <3>1, <3>4, <4>1, <3>3, OverlayFacts DEF View
      <3>5. CASE imm = active
        BY <3>1, <3>3, <3>5, OverlayFacts DEF View
      <3>6. CASE imm = None /\ Holds(Overlay(mem[active], base))
        BY <3>3, <3>6, OverlayFacts DEF View
      <3> QED
        BY <3>2, <3>4, <3>5, <3>6
    <2> QED
      BY <2>1 DEF CloseFlushesAll, Holds
  <1> QED
    BY DataInvariant, <1>1, PTL

\* As long as flushes succeed nothing is lost.
Readable == fdata \in Table /\ base \in Table /\ stored \in Table

LEMMA ReadableKept ==
  ASSUME ControlInv, Readable, FlushMayFail = FALSE, [RotNext]_rotVars
  PROVE  Readable'
PROOF
  <1>1. CASE WriteFile
    <2>1. ftab \in TableId /\ mem[ftab] \in Table
      BY <1>1 DEF WriteFile, ControlInv, Rotating, Flushing, RotTypeOK
    <2> QED
      BY <1>1, <2>1, OverlayType DEF WriteFile, Readable
  <1>2. CASE Publish
    BY <1>2, OverlayType DEF Publish, Readable
  <1>3. CASE ClearImmutable
    BY <1>3 DEF ClearImmutable, Readable, NoTable, Table, Entry
  <1>4. CASE Drain
    <2>1. CASE flushQ = << >>
      BY <1>4, <2>1 DEF Drain, Readable
    <2>2. CASE flushQ # << >>
      <3>1. Head(flushQ) = imm /\ imm \in TableId
        BY <2>2, QueueOfOne
      <3>2. mem[imm] \in Table
        BY <3>1 DEF ControlInv, RotTypeOK
      <3> QED
        BY <1>4, <2>2, <3>1, <3>2, OverlayType DEF Drain, DrainedBy, Readable
    <2> QED
      BY <2>1, <2>2
  <1>5. CASE ~ (WriteFile \/ Publish \/ ClearImmutable \/ Drain)
    <2>1. UNCHANGED workerVarsR \/ Receive \/ SeeStop
      BY <1>5
      DEF RotNext, rotVars, WriterStep, FlusherStep, CloserStep, AppendWAL, LoadActive,
          Insert, CheckSize, LockAndFreeze, StoreImmutable, StoreActive, SendAndUnlock,
          CloseWAL, CloseWALFails, CloseLock, CloseWait, CloseRelock, CloseSend,
          CloseStop, CloseReturn
    <2> QED
      BY <2>1 DEF workerVarsR, Receive, SeeStop, Readable
  <1> QED
    BY <1>1, <1>2, <1>3, <1>4, <1>5

LEMMA StaysReadable ==
  ASSUME FlushMayFail = FALSE
  PROVE  RotSpec => []Readable
PROOF
  <1>1. RotInit => Readable
    BY DEF RotInit, Readable, NoTable, Table, Entry
  <1> QED
    BY <1>1, ReadableKept, ControlInvariant, PTL DEF RotSpec

\* When flushes succeed, Close leaves every entry a lookup sees in a file
\* (db.go:474, db.go:488-513).
THEOREM CloseLosesNothing ==
  ASSUME CloseWhileWriting = FALSE, FlushMayFail = FALSE
  PROVE  RotSpec => []ClosePersists
PROOF
  <1>1. ASSUME ControlInv, Readable, CloseFlushesAll PROVE ClosePersists
    <2>1. ASSUME NEW k \in Keys PROVE Unreadable \notin {stored[k], View[k]}
      <3>1. mem[active] \in Table /\ TableOf(imm) \in Table
        BY <1>1, TablesTyped
      <3>2. stored \in Table /\ View \in Table
        BY <1>1, <3>1, OverlayType DEF Readable, View
      <3> QED
        BY <3>2, RotationAssumption DEF Table
    <2> QED
      BY <1>1, <2>1 DEF CloseFlushesAll, ClosePersists
  <1> QED
    BY <1>1, CloseFlushesEverything, StaysReadable, ControlInvariant, PTL
-----------------------------------------------------------------------------
(* The write path implements the map of KV.                                *)

\* The map that the tables stand for.
Answers == [k \in Keys |-> Visible(View[k])]

\* Where each call stands.
Progress == [w \in Writers |-> StatusOf(pc[w])]

\* Taking over immutableMT, and a new active table, hide nothing.
LEMMA RotationKeepsView ==
  ASSUME ControlInv, ControlInv', NEW w \in Writers,
         StoreImmutable(w) \/ StoreActive(w)
  PROVE  View' = View
PROOF
  <1>1. CASE StoreImmutable(w)
    <2>1. /\ imm = None /\ TableOf(imm) = NoTable
          /\ TableOf(imm)' = mem[active] /\ mem' = mem /\ active' = active
          /\ base' = base
      BY <1>1, RotationAssumption
      DEF StoreImmutable, ControlInv, Rotating, RotTypeOK, TableOf, tableVars,
          workerVarsR
    <2>2. /\ View = Overlay(mem[active], Overlay(NoTable, base))
          /\ View' = Overlay(mem[active], Overlay(mem[active], base))
      BY <2>1 DEF View, Overlay
    <2>3. /\ Overlay(NoTable, base) = base
          /\ Overlay(mem[active], Overlay(mem[active], base)) =
               Overlay(mem[active], base)
      BY TablesTyped, OverlayFacts, Zenon
    <2> QED
      BY <2>2, <2>3, Zenon
  <1>2. CASE StoreActive(w)
    <2>1. /\ imm = active /\ TableOf(imm) = mem[active]
          /\ TableOf(imm)' = TableOf(imm) /\ mem' = mem /\ base' = base
          /\ active' = nextTable /\ active' \in TableId
      BY <1>2, RotationAssumption
      DEF StoreActive, NewMemTable, ControlInv, Rotating, RotTypeOK, TableOf,
          workerVarsR
    <2>2. mem[nextTable] = NoTable
      BY <2>1, RotationAssumption DEF ControlInv, Made, TableId
    <2>3. /\ View = Overlay(mem[active], Overlay(mem[active], base))
          /\ View' = Overlay(NoTable, Overlay(mem[active], base))
      BY <2>1, <2>2 DEF View, Overlay
    <2>4. Overlay(mem[active], base) \in FileTable
      BY TablesTyped, OverlayFacts, Zenon
    <2>5. /\ Overlay(NoTable, Overlay(mem[active], base)) = Overlay(mem[active], base)
          /\ Overlay(mem[active], Overlay(mem[active], base)) =
               Overlay(mem[active], base)
      BY <2>4, TablesTyped, OverlayFacts, Zenon
    <2> QED
      BY <2>3, <2>5, Zenon
  <1> QED
    BY <1>1, <1>2

\* Neither does a flush that succeeds: a table is in immutableMT until the files
\* answer for it.  One that fails turns answers into errors.
LEMMA FlushKeepsView ==
  ASSUME ControlInv, DataInv,
         \/ Receive \/ WriteFile \/ Publish \/ ClearImmutable \/ SeeStop \/ Drain
  PROVE  \/ View' = View
         \/ FlushMayFail /\ \A k \in Keys : View'[k] \in {View[k], Unreadable}
PROOF
  <1>1. mem' = mem /\ active' = active
    BY DEF Receive, WriteFile, Publish, ClearImmutable, SeeStop, Drain, tableVars
  <1>2. CASE Receive \/ WriteFile \/ SeeStop \/ Drain
    <2>1. base' = base /\ imm' = imm
      BY <1>2 DEF Receive, WriteFile, SeeStop, Drain
    <2> QED
      BY <1>1, <2>1 DEF View, Overlay, TableOf
  <1>3. CASE Publish
    <2>1. Flushing /\ (fdata = mem[imm] \/ (FlushMayFail /\ fdata = NoFile))
      BY <1>3 DEF Publish, DataInv, Files, Flushing
    <2>2. /\ imm' = imm /\ imm # None /\ TableOf(imm) = mem[imm]
          /\ TableOf(imm)' = mem[imm] /\ base' = Overlay(fdata, base)
      BY <1>1, <1>3, <2>1, FlushingImmutable DEF Publish, TableOf
    <2>3. View = Overlay(mem[active], Overlay(mem[imm], base))
      BY <2>2 DEF View
    <2>4. View' = Overlay(mem[active], Overlay(mem[imm], Overlay(fdata, base)))
      BY <1>1, <2>2 DEF View, Overlay
    <2>5. CASE fdata = mem[imm]
      BY <2>2, <2>3, <2>4, <2>5, TablesTyped, OverlayFacts, Zenon
    <2>6. CASE FlushMayFail /\ fdata = NoFile
      BY <2>3, <2>4, <2>6, RotationAssumption DEF NoFile, Overlay, Entry
    <2> QED
      BY <2>1, <2>5, <2>6
  <1>4. CASE ClearImmutable
    <2>1. Flushing /\ (Overlay(mem[imm], base) = base \/ (FlushMayFail /\ base = NoFile))
      BY <1>4 DEF ClearImmutable, DataInv, Files, Flushing
    <2>2. /\ TableOf(imm) = mem[imm] /\ TableOf(imm)' = NoTable /\ base' = base
      BY <1>4, <2>1, FlushingImmutable DEF ClearImmutable, ImmutableCleared, TableOf
    <2>3. /\ View = Overlay(mem[active], Overlay(mem[imm], base))
          /\ View' = Overlay(mem[active], Overlay(NoTable, base))
      BY <1>1, <2>2 DEF View, Overlay
    <2>4. View' = Overlay(mem[active], base)
      BY <2>3, TablesTyped, OverlayFacts, Zenon
    <2>5. CASE Overlay(mem[imm], base) = base
      BY <2>3, <2>4, <2>5
    <2>6. CASE FlushMayFail /\ base = NoFile
      BY <2>3, <2>4, <2>6 DEF NoFile, Overlay
    <2> QED
      BY <2>1, <2>5, <2>6
  <1> QED
    BY <1>2, <1>3, <1>4

\* Close hands its table over the way a rotation does.
LEMMA CloseKeepsView ==
  ASSUME ControlInv, DataInv,
         \/ CloseWAL \/ CloseWALFails \/ CloserStep \/ CloseLock \/ CloseRelock
  PROVE  View' = View
PROOF
  <1>1. mem' = mem /\ active' = active /\ base' = base
    BY DEF CloseWAL, CloseWALFails, CloserStep, CloseRelock, CloseReturn, CloseStop,
       CloseWait, CloseSend, CloseLock, tableVars, workerVarsR
  <1>2. CASE imm' = imm
    BY <1>1, <1>2 DEF View, Overlay, TableOf
  <1>3. CASE imm' # imm
    <2>1. imm = None /\ imm' = active /\ active # None
      BY <1>3, RotationAssumption
      DEF CloseWAL, CloseWALFails, CloserStep, CloseRelock, CloseReturn, CloseStop,
          CloseWait, CloseSend, CloseLock, DataInv, Quiescent, ControlInv, RotTypeOK
    <2>2. /\ View = Overlay(mem[active], Overlay(NoTable, base))
          /\ View' = Overlay(mem[active], Overlay(mem[active], base))
      BY <1>1, <2>1 DEF View, Overlay, TableOf
    <2>3. /\ Overlay(NoTable, base) = base
          /\ Overlay(mem[active], Overlay(mem[active], base)) =
               Overlay(mem[active], base)
      BY TablesTyped, OverlayFacts, Zenon
    <2> QED
      BY <2>2, <2>3, Zenon
  <1> QED
    BY <1>2, <1>3

\* A step that changes neither the answers nor the control of a writer is
\* invisible in KV.
LEMMA Stutters ==
  ASSUME View' = View, pc' = pc, op' = op
  PROVE  UNCHANGED Abstract!vars
PROOF
  BY DEF Abstract!vars, Abstract!Visible, Visible

\* One that only turns answers into errors is a loss.
LEMMA Losing ==
  ASSUME FlushMayFail, \A k \in Keys : View'[k] \in {View[k], Unreadable},
         pc' = pc, op' = op
  PROVE  Abstract!Lose
PROOF
  <1> DEFINE K == {k \in Keys : View'[k] = Unreadable}
  <1>1. Visible(Unreadable) = Unreadable
    BY RotationAssumption DEF Visible, Entry
  <1>2. \A k \in Keys : Visible(View'[k]) =
                          IF k \in K THEN Unreadable ELSE Visible(View[k])
    BY <1>1
  <1>3. Answers' = [k \in Keys |-> IF k \in K THEN Unreadable ELSE Answers[k]]
    BY <1>2 DEF Answers
  <1>4. K \in SUBSET Keys
    OBVIOUS
  <1>5. \E S \in SUBSET Keys :
          Answers' = [k \in Keys |-> IF k \in S THEN Unreadable ELSE Answers[k]]
    BY <1>3, <1>4
  <1> QED
    BY <1>5 DEF Abstract!Lose, Answers, Abstract!Visible, Visible

\* Every insert that is not refused is one Apply.
LEMMA InsertApplies ==
  ASSUME ControlInv, DataInv, CloseWhileWriting = FALSE, NEW w \in Writers,
         Insert(w), ~ frozen[tab[w]]
  PROVE  Answers' = [Answers EXCEPT ![op[w].key] = Visible(op[w].val)]
PROOF
  <1>1. /\ imm # active /\ op[w].key \in Keys /\ op[w].val \in Mutation
        /\ mem' = [mem EXCEPT ![active] =
                     [mem[active] EXCEPT ![op[w].key] = op[w].val]]
    BY InsertIsActive
  <1>2. active' = active /\ imm' = imm /\ base' = base
    BY DEF Insert, workerVarsR
  <1>3. mem \in [TableId -> Table] /\ active \in TableId /\ mem[active] \in Table
        /\ imm \in TableId \cup {None}
    BY DEF ControlInv, RotTypeOK
  <1>4. /\ mem'[active] = [mem[active] EXCEPT ![op[w].key] = op[w].val]
        /\ TableOf(imm)' = TableOf(imm)
    BY <1>1, <1>2, <1>3 DEF TableOf
  <1>5. \A k \in Keys :
          View'[k] = IF k = op[w].key THEN op[w].val ELSE View[k]
    <2>1. op[w].val # Absent
      BY <1>1, EntriesAssumption DEF Mutation
    <2>2. View' = Overlay(mem'[active], Overlay(TableOf(imm), base))
      BY <1>2, <1>4 DEF View, Overlay
    <2> QED
      BY <1>1, <1>3, <1>4, <2>1, <2>2 DEF View, Overlay, Table
  <1> QED
    BY <1>1, <1>5 DEF Answers

\* Each step of the engine is a step of the map or leaves the map alone.
LEMMA StepImplements ==
  ASSUME ControlInv, DataInv, ControlInv', CloseWhileWriting = FALSE,
         [RotNext]_rotVars
  PROVE  [Abstract!Next]_(Abstract!vars)
PROOF
  <1> USE DEF Abstract!Visible, Visible
  <1>1. CASE UNCHANGED rotVars
    <2>1. View' = View /\ pc' = pc /\ op' = op
      BY <1>1 DEF rotVars, tableVars, writeVars, workerVarsR, View, Overlay, TableOf
    <2> QED
      BY <2>1, Stutters
  <1>2. ASSUME NEW w \in Writers, AppendWAL(w) PROVE Abstract!Call(w)
    <2>1. View' = View
      BY <1>2 DEF AppendWAL, tableVars, workerVarsR, View, Overlay, TableOf
    <2>2. PICK o \in Op : op' = [op EXCEPT ![w] = o]
      BY <1>2 DEF AppendWAL
    <2>3. o \in Abstract!Op
      BY DEF Op, Abstract!Op, Mutation, Abstract!Mutation
    <2>4. pc[w] = "idle" /\ pc' = [pc EXCEPT ![w] = "load"]
      BY <1>2 DEF AppendWAL
    <2>5. Progress[w] = "idle" /\ Progress' = [Progress EXCEPT ![w] = "called"]
      BY <2>4 DEF Progress, StatusOf, ControlInv, RotTypeOK
    <2> QED
      BY <2>1, <2>2, <2>3, <2>5 DEF Abstract!Call, Progress
  <1>3. ASSUME NEW w \in Writers, LoadActive(w) PROVE UNCHANGED Abstract!vars
    <2>1. View' = View /\ op' = op
      BY <1>3 DEF LoadActive, tableVars, workerVarsR, View, Overlay, TableOf
    <2>2. pc[w] = "load" /\ pc' = [pc EXCEPT ![w] = "insert"]
      BY <1>3 DEF LoadActive
    <2>3. Progress' = Progress
      BY <2>2 DEF Progress, StatusOf, ControlInv, RotTypeOK
    <2> QED
      BY <2>1, <2>3 DEF Abstract!vars, Progress
  <1>4. ASSUME NEW w \in Writers, Insert(w)
        PROVE  Abstract!Apply(w) \/ UNCHANGED Abstract!vars
    <2>1. CASE frozen[tab[w]]
      <3>1. View' = View /\ op' = op
        BY <1>4, <2>1 DEF Insert, Rejects, workerVarsR, View, Overlay, TableOf
      <3>2. pc[w] = "insert" /\ pc' = [pc EXCEPT ![w] = "load"]
        BY <1>4, <2>1 DEF Insert, Rejects
      <3>3. Progress' = Progress
        BY <3>2 DEF Progress, StatusOf, ControlInv, RotTypeOK
      <3> QED
        BY <3>1, <3>3 DEF Abstract!vars, Progress
    <2>2. CASE ~ frozen[tab[w]]
      <3>1. Answers' = [Answers EXCEPT ![op[w].key] = Visible(op[w].val)]
        BY <1>4, <2>2, InsertApplies
      <3>2. pc[w] = "insert" /\ pc' = [pc EXCEPT ![w] = "size"] /\ op' = op
        BY <1>4, <2>2 DEF Insert, Rejects
      <3>3. Progress[w] = "called" /\ Progress' = [Progress EXCEPT ![w] = "applied"]
        BY <3>2 DEF Progress, StatusOf, ControlInv, RotTypeOK
      <3> QED
        BY <3>1, <3>2, <3>3 DEF Abstract!Apply, Answers, Progress
    <2> QED
      BY <2>1, <2>2
  <1>5. ASSUME NEW w \in Writers, CheckSize(w) \/ LockAndFreeze(w)
        PROVE  Abstract!Return(w) \/ UNCHANGED Abstract!vars
    <2>1. View' = View
      BY <1>5 DEF CheckSize, LockAndFreeze, tableVars, workerVarsR, View, Overlay,
         TableOf
    <2>2. /\ pc[w] \in {"size", "lock"}
          /\ \/ ReturnFromPut(w)
             \/ \E x \in {"lock", "imm"} : pc' = [pc EXCEPT ![w] = x] /\ op' = op
      BY <1>5 DEF CheckSize, LockAndFreeze
    <2>3. CASE ReturnFromPut(w)
      <3>1. Progress[w] = "applied" /\ Progress' = [Progress EXCEPT ![w] = "idle"]
        BY <2>2, <2>3 DEF ReturnFromPut, Progress, StatusOf, ControlInv, RotTypeOK
      <3> QED
        BY <2>1, <2>3, <3>1
        DEF ReturnFromPut, Abstract!Return, Progress, NoOp, Abstract!NoOp
    <2>4. CASE \E x \in {"lock", "imm"} : pc' = [pc EXCEPT ![w] = x] /\ op' = op
      <3>1. Progress' = Progress
        BY <2>2, <2>4 DEF Progress, StatusOf, ControlInv, RotTypeOK
      <3> QED
        BY <2>1, <2>4, <3>1 DEF Abstract!vars, Progress
    <2> QED
      BY <2>2, <2>3, <2>4
  <1>6. ASSUME NEW w \in Writers, StoreImmutable(w) \/ StoreActive(w)
        PROVE  UNCHANGED Abstract!vars
    <2>1. View' = View
      BY <1>6, RotationKeepsView
    <2>2. /\ pc[w] \in {"imm", "active"} /\ op' = op
          /\ \E x \in {"active", "send"} : pc' = [pc EXCEPT ![w] = x]
      BY <1>6 DEF StoreImmutable, StoreActive
    <2>3. Progress' = Progress
      BY <2>2 DEF Progress, StatusOf, ControlInv, RotTypeOK
    <2> QED
      BY <2>1, <2>2, <2>3 DEF Abstract!vars, Progress
  <1>7. ASSUME NEW w \in Writers, SendAndUnlock(w)
        PROVE  Abstract!Return(w) \/ UNCHANGED Abstract!vars
    <2>1. View' = View
      BY <1>7 DEF SendAndUnlock, tableVars, workerVarsR, View, Overlay, TableOf
    <2>2. pc[w] = "send" /\ (ReturnFromPut(w) \/ (pc' = pc /\ op' = op))
      BY <1>7 DEF SendAndUnlock
    <2>3. CASE ReturnFromPut(w)
      <3>1. Progress[w] = "applied" /\ Progress' = [Progress EXCEPT ![w] = "idle"]
        BY <2>2, <2>3 DEF ReturnFromPut, Progress, StatusOf, ControlInv, RotTypeOK
      <3> QED
        BY <2>1, <2>3, <3>1
        DEF ReturnFromPut, Abstract!Return, Progress, NoOp, Abstract!NoOp
    <2>4. CASE pc' = pc /\ op' = op
      BY <2>1, <2>4, Stutters
    <2> QED
      BY <2>2, <2>3, <2>4
  <1>8. ASSUME \/ FlusherStep \/ ClearImmutable \/ SeeStop
               \/ CloseWAL \/ CloseWALFails \/ CloserStep \/ CloseLock \/ CloseRelock
        PROVE  Abstract!Lose \/ UNCHANGED Abstract!vars
    <2>1. \/ View' = View
          \/ FlushMayFail /\ \A k \in Keys : View'[k] \in {View[k], Unreadable}
      <3>1. CASE FlusherStep \/ ClearImmutable \/ SeeStop
        BY <3>1, FlushKeepsView DEF FlusherStep
      <3>2. CASE CloseWAL \/ CloseWALFails \/ CloserStep \/ CloseLock \/ CloseRelock
        BY <3>2, CloseKeepsView
      <3> QED
        BY <1>8, <3>1, <3>2
    <2>2. pc' = pc /\ op' = op
      BY <1>8 DEF FlusherStep, Receive, WriteFile, Publish, Drain, ClearImmutable,
         SeeStop, CloseWAL, CloseWALFails, CloserStep, CloseRelock, CloseReturn,
         CloseStop, CloseWait, CloseSend, CloseLock, writeVars
    <2> QED
      BY <2>1, <2>2, Stutters, Losing
  <1> QED
    BY <1>1, <1>2, <1>3, <1>4, <1>5, <1>6, <1>7, <1>8
    DEF RotNext, WriterStep, Abstract!Next

\* The write path implements the map of KV: every Put and Delete changes what a
\* lookup sees exactly once, between call and return, and freezing, rotating,
\* flushing, clearing and closing change nothing a lookup sees, except that a
\* failed flush makes lookups report errors; no lookup finds a value that was
\* overwritten (db.go:305-382, db.go:434-513).
THEOREM EngineImplementsKV ==
  ASSUME CloseWhileWriting = FALSE
  PROVE  RotSpec => ImplementsKV
PROOF
  <1>1. RotInit => Abstract!Init
    <2> SUFFICES ASSUME RotInit PROVE Abstract!Init
      OBVIOUS
    <2>1. 1 \in TableId
      BY RotationAssumption DEF TableId
    <2>2. \A k \in Keys : View[k] = Absent
      BY <2>1 DEF RotInit, View, Overlay, TableOf, NoTable
    <2>3. \A k \in Keys : Visible(View[k]) = Absent
      BY <2>2, EntriesAssumption DEF Visible
    <2>4. \A w \in Writers : StatusOf(pc[w]) = "idle"
      BY DEF RotInit, StatusOf
    <2> QED
      BY <2>3, <2>4
      DEF RotInit, Abstract!Init, Abstract!NoTable, Abstract!NoOp, NoOp
  <1> QED
    BY <1>1, StepImplements, DataInvariant, PTL DEF RotSpec, ImplementsKV, Abstract!Spec
=============================================================================
