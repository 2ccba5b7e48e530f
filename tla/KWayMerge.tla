----------------------------- MODULE KWayMerge -----------------------------
(***************************************************************************)
(* CompactL0toL1 (compactor.go) over the iterators of iterator.go: the     *)
(* K-way merge that module VersionSet takes for one step.  The iterators   *)
(* are opened one by one and seed a heap; each round pops the smallest     *)
(* key, drops its older duplicates, writes it and advances its iterator.   *)
(* Opening, reading and writing may fail.                                  *)
(***************************************************************************)
EXTENDS SSTable

CONSTANTS
  Inputs,  \* the MemTables flushed to the L0 files, oldest first
  Faults   \* which operations may fail: "open", "read", "write"

ASSUME KWayMergeAssumption ==
  /\ Inputs \subseteq Seq(Table)
  /\ Faults \subseteq {"open", "read", "write"}

VARIABLES
  input,     \* history: the tables that were flushed
  l0Files,   \* the files they were flushed to
  pc,        \* "open", "pop", "write", "done" or "failed"
  opened,    \* iterators opened so far
  cursor,    \* cursor[i]: entries iterator i has delivered
  heap,      \* the heads of the iterators
  item, lastKey,
  out,       \* entries written to the L1 file
  readError  \* history: some iterator ended with it.err set

kmVars == <<input, l0Files, pc, opened, cursor, heap, item, lastKey, out, readError>>

Files == 1 .. Len(input)

NoItem == [key |-> None, val |-> None, seq |-> 0]

KmInit ==
  /\ input \in Inputs
  /\ l0Files = [i \in Files |-> FlushedSSTable(input[i])]
  /\ pc = "open" /\ opened = 0
  /\ cursor = [i \in Files |-> 0]
  /\ heap = {}
  /\ item = NoItem /\ lastKey = None
  /\ out = << >>
  /\ readError = FALSE

-----------------------------------------------------------------------------
(* Iterators and heap.                                                     *)

HeapItem(i, n) ==
  LET e == l0Files[i].data[n] IN [key |-> e.key, val |-> e.val, seq |-> i]

LessIgnoringKey(a, b) == a.seq > b.seq
LessOlderFirst(a, b) == a.key < b.key \/ (a.key = b.key /\ a.seq < b.seq)
\* MinHeap.Less: by key, the newer file first.
Less(a, b) == a.key < b.key \/ (a.key = b.key /\ a.seq > b.seq)

Top(h) == CHOOSE a \in h : \A b \in h \ {a} : Less(a, b)

\* SSTIterator.Next of iterator i, and the push of its head onto h.  A read
\* error ends the iterator as the end of the data does.
NextAndPush(i, h) ==
  \/ /\ cursor[i] < Len(l0Files[i].data)
     /\ cursor' = [cursor EXCEPT ![i] = @ + 1]
     /\ heap' = h \cup {HeapItem(i, cursor[i] + 1)}
     /\ UNCHANGED readError
  \/ /\ cursor[i] = Len(l0Files[i].data)
     /\ heap' = h
     /\ UNCHANGED <<cursor, readError>>
  \/ /\ "read" \in Faults /\ cursor[i] < Len(l0Files[i].data)
     /\ heap' = h
     /\ readError' = TRUE
     /\ UNCHANGED cursor

-----------------------------------------------------------------------------
(* CompactL0toL1.                                                          *)

OpenIterator ==
  /\ pc = "open" /\ opened < Len(input)
  /\ opened' = opened + 1
  /\ NextAndPush(opened + 1, heap)
  /\ UNCHANGED <<input, l0Files, pc, item, lastKey, out>>

\* The iterators opened before are closed.
OpenFails ==
  /\ pc = "open" /\ opened < Len(input) /\ "open" \in Faults
  /\ pc' = "failed"
  /\ UNCHANGED <<input, l0Files, opened, cursor, heap, item, lastKey, out, readError>>

CreateFile ==
  /\ pc = "open" /\ opened = Len(input)
  /\ pc' = "pop"
  /\ UNCHANGED <<input, l0Files, opened, cursor, heap, item, lastKey, out, readError>>

PopItem ==
  /\ pc = "pop" /\ heap # {}
  /\ item' = Top(heap)
  /\ heap' = heap \ {Top(heap)}
  /\ pc' = "write"
  /\ UNCHANGED <<input, l0Files, opened, cursor, lastKey, out, readError>>

OlderDuplicate == heap # {} /\ Top(heap).key = item.key

DropDuplicate ==
  /\ pc = "write" /\ OlderDuplicate
  /\ NextAndPush(Top(heap).seq, heap \ {Top(heap)})
  /\ UNCHANGED <<input, l0Files, pc, opened, item, lastKey, out>>

\* bytes.Equal, for which a nil lastKey is the zero-length key.
SameBytes(last, key) == last = key \/ (last = None /\ KeyLen[key] = 0)

WriteItem ==
  /\ pc = "write" /\ ~ OlderDuplicate
  /\ IF SameBytes(lastKey, item.key)
     THEN UNCHANGED <<out, lastKey>>
     ELSE /\ out' = Append(out, [key |-> item.key, val |-> item.val])
          /\ lastKey' = item.key
  /\ NextAndPush(item.seq, heap)
  /\ item' = NoItem
  /\ pc' = "pop"
  /\ UNCHANGED <<input, l0Files, opened>>

FinalizeSSTable ==
  /\ pc = "pop" /\ heap = {}
  /\ pc' = "done"
  /\ UNCHANGED <<input, l0Files, opened, cursor, heap, item, lastKey, out, readError>>

\* Creating the file, an entry, the trailer or the fsync fails.
WriteFails ==
  /\ "write" \in Faults
  /\ \/ pc = "open" /\ opened = Len(input)
     \/ pc = "write" /\ ~ OlderDuplicate /\ ~ SameBytes(lastKey, item.key)
     \/ pc = "pop" /\ heap = {}
  /\ pc' = "failed"
  /\ UNCHANGED <<input, l0Files, opened, cursor, heap, item, lastKey, out, readError>>

KmNext ==
  \/ OpenIterator \/ OpenFails
  \/ CreateFile
  \/ PopItem
  \/ DropDuplicate
  \/ WriteItem
  \/ FinalizeSSTable
  \/ WriteFails

KmSpec == KmInit /\ [][KmNext]_kmVars

-----------------------------------------------------------------------------
(* Properties.                                                             *)

Item == [key : Keys, val : Mutation, seq : Files]

\* Every variable holds a value of its type, and the heap never holds two heads
\* of one iterator (compactor.go:107-153).
KmTypeOK ==
  /\ pc \in {"open", "pop", "write", "done", "failed"}
  /\ opened \in 0 .. Len(input)
  /\ \A i \in Files : cursor[i] \in 0 .. Len(l0Files[i].data)
  /\ heap \subseteq Item /\ item \in Item \cup {NoItem}
  /\ \A a, b \in heap : a.seq = b.seq => a = b
  /\ lastKey \in Keys \cup {None}
  /\ out \in Seq([key : Keys, val : Mutation])
  /\ readError \in BOOLEAN

\* A lookup in a flushed file answers what the MemTable held, whatever block
\* the key falls into and whatever bits other keys have set in the filter:
\* neither the filter nor the sparse index hides an entry.  Not so when the
\* first key is longer than 65529 bytes (sstable.go:31-148, sstable.go:152-280).
FlushedLookUpExact ==
  pc = "open" /\ opened = 0 =>
    \A i \in Files, k \in Keys :
      \/ LookUp(l0Files[i], k) = input[i][k]
      \/ l0Files[i].index # << >> /\ ~ FirstKeySliceFits(l0Files[i])

\* What a newest-first search of the tables finds.
NewestEntry(k) ==
  LET S == {i \in Files : input[i][k] # Absent}
  IN  IF S = {} THEN Absent ELSE input[CHOOSE i \in S : \A j \in S : j <= i][k]

\* The L1 file answers every key but the zero-length one with the newest entry
\* of the L0 files, tombstones included, unless a read error cut an iterator
\* short (compactor.go:60-160).
MergedLookUpExact ==
  pc = "done" /\ ~ readError =>
    \A k \in Keys :
      \/ KeyLen[k] = 0
      \/ LookUp(SSTableOf(out), k) = NewestEntry(k)
      \/ out # << >> /\ ~ FirstKeySliceFits(SSTableOf(out))

\* The L1 file is sorted and has each key once, also when iterators fail midway:
\* the lookup and the next merge rely on it (sstable.go:271, db.go:258).
OutputSorted == \A i \in 2 .. Len(out) : out[i - 1].key < out[i].key

\* The state of the merge and its output together.
KmInv == KmTypeOK /\ OutputSorted
=============================================================================
