------------------------------ MODULE SSTable ------------------------------
(***************************************************************************)
(* The SSTable file (sstable.go, the writer in compactor.go, bloom.go):    *)
(* data entries at byte offsets, a sparse index, a Bloom filter and a      *)
(* footer; the point lookup that uses them.  Keys are numbers in the order *)
(* of the byte strings they stand for, with the lengths of those strings;  *)
(* offsets, block bounds and 16-bit lengths are the code's.                *)
(***************************************************************************)
EXTENDS Entries, SequencesExt

CONSTANTS
  KeyLen,     \* KeyLen[k]: bytes of key k
  ValLen,     \* ValLen[v]: bytes of value v
  BlockSize,  \* bytes between two entries of the sparse index: 4096
  BloomM, BloomK,  \* m and k as NewBloomFilter computes them
  WordBits,   \* bits of a word of the filter: 64
  Hash1, Hash2,    \* the halves of the FNV hash of a key
  Panic       \* outcome of a lookup: a slice expression out of range

MaxUint8 == 2^8 - 1
MaxUint16 == 2^16 - 1

ASSUME SSTableAssumption ==
  /\ Keys \subseteq Nat /\ IsFiniteSet(Keys) /\ None \notin Keys
  /\ KeyLen \in [Keys -> 0 .. MaxUint16] /\ ValLen \in [Values -> Nat \ {0}]
  /\ BlockSize \in Nat \ {0} /\ WordBits \in Nat \ {0}
  /\ BloomM \in Nat \ {0} /\ BloomK \in 1 .. MaxUint8
  /\ Hash1 \in [Keys -> Nat] /\ Hash2 \in [Keys -> Nat]
  /\ Panic \notin Entry

-----------------------------------------------------------------------------
(* Bloom filter.                                                           *)

BloomWords(m) == (m + WordBits - 1) \div WordBits

NewBloomFilter ==
  [k |-> BloomK, m |-> BloomM, bits |-> [i \in 1 .. BloomWords(BloomM) |-> {}]]

\* The word and the bit in it of each probe of key.
Probes(bf, key) ==
  {LET idx == (Hash1[key] + i * Hash2[key]) % bf.m
   IN  <<idx \div WordBits + 1, idx % WordBits>> : i \in 0 .. bf.k - 1}

BloomAdd(bf, key) ==
  [bf EXCEPT !.bits = [w \in DOMAIN @ |->
     @[w] \cup {b \in 0 .. WordBits - 1 : <<w, b>> \in Probes(bf, key)}]]

ContainsFirstWordOnly(bf, key) ==
  \A p \in Probes(bf, key) : p[2] \in bf.bits[1]
BloomContains(bf, key) == \A p \in Probes(bf, key) : p[2] \in bf.bits[p[1]]

\* The layout k, m, words; the number of words is computed again from m.
Encode(bf) == <<bf.k, bf.m>> \o bf.bits
DecodeBloomFilter(data) ==
  [k |-> data[1], m |-> data[2], bits |-> SubSeq(data, 3, 2 + BloomWords(data[2]))]

-----------------------------------------------------------------------------
(* Writing: FlushMemTable and the writer of a compaction.                  *)

EntrySize(e) == 7 + KeyLen[e.key] + (IF e.val = Tomb THEN 0 ELSE ValLen[e.val])

\* Offsets(s)[i] is where entry i of s begins; the last one ends the data.
Offsets(s) ==
  LET at[i \in 1 .. Len(s) + 1] == IF i = 1 THEN 0 ELSE at[i - 1] + EntrySize(s[i - 1])
  IN  at

\* Does an entry written at off get an index entry?
DueForIndex(off, last) == off - last >= BlockSize \/ off = 0

SparseIndex(s) ==
  LET at == Offsets(s)
      upto[i \in 0 .. Len(s)] ==
        IF i = 0 THEN [last |-> 0, index |-> << >>]
        ELSE LET p == upto[i - 1]
             IN  IF DueForIndex(at[i], p.last)
                 THEN [last  |-> at[i],
                       index |-> Append(p.index, [key |-> s[i].key, off |-> at[i]])]
                 ELSE p
  IN  upto[Len(s)].index

\* The file that writing the entries s, one after the other, leaves behind.
SSTableOf(s) ==
  LET filter[i \in 0 .. Len(s)] ==
        IF i = 0 THEN NewBloomFilter ELSE BloomAdd(filter[i - 1], s[i].key)
  IN  [data |-> s, index |-> SparseIndex(s), dataEnd |-> Offsets(s)[Len(s) + 1],
       bloom |-> Encode(filter[Len(s)])]

\* FlushMemTable: the nodes of table t in ascending order.
FlushedSSTable(t) ==
  LET S == {k \in Keys : t[k] # Absent}
      Nth(i) == CHOOSE k \in S : Cardinality({j \in S : j <= k}) = i
  IN  SSTableOf([i \in 1 .. Cardinality(S) |-> [key |-> Nth(i), val |-> t[Nth(i)]]])

-----------------------------------------------------------------------------
(* ReadSSTable.                                                            *)

StopsAtGreater(indexKey, key) == indexKey > key

\* The index is scanned up to the first key greater than the one searched.
BlockOf(f, key) ==
  LET after == SelectInSeq(f.index, LAMBDA e : StopsAtGreater(e.key, key))
      n == Len(f.index)
  IN  CASE after = 0 /\ n = 0 -> [from |-> 0, to |-> f.dataEnd]
        [] after = 0 /\ n > 0 -> [from |-> f.index[n].off, to |-> f.dataEnd]
        [] after = 1 -> [from |-> 0, to |-> f.index[1].off]
        [] OTHER -> [from |-> f.index[after - 1].off, to |-> f.index[after].off]

\* The slice indexData[6 : 6+firstKeyLen], whose sum is a uint16.
FirstKeySliceFits(f) == (6 + KeyLen[f.index[1].key]) % (MaxUint16 + 1) >= 6

\* The linear scan of a block: the first entry not below the key decides.
ScanBlock(f, block, key) ==
  LET at == Offsets(f.data)
      i == SelectInSeq([j \in 1 .. Len(f.data) |->
                          at[j] >= block.from /\ at[j + 1] <= block.to
                          /\ f.data[j].key >= key], LAMBDA b : b)
  IN  IF i > 0 /\ f.data[i].key = key THEN f.data[i].val ELSE Absent

LookUp(f, key) ==
  LET block == BlockOf(f, key)
      first == block.from = 0 /\ f.index # << >>
  IN  IF ~ BloomContains(DecodeBloomFilter(f.bloom), key) THEN Absent
      ELSE IF first /\ ~ FirstKeySliceFits(f) THEN Panic
      ELSE IF first /\ f.index[1].key > key THEN Absent
      ELSE ScanBlock(f, block, key)
=============================================================================
