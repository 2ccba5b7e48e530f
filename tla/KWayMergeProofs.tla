-------------------------- MODULE KWayMergeProofs --------------------------
(***************************************************************************)
(* Proofs about the SSTable files and the K-way merge: for any keys and    *)
(* values of any lengths, any block size, any Bloom filter and hash, and   *)
(* any number of files, with and without faults.                           *)
(***************************************************************************)
EXTENDS KWayMerge, TLAPS, SequenceTheorems, FiniteSetTheorems, WellFoundedInduction

-----------------------------------------------------------------------------
(* Numbers.                                                                *)

\* A set of numbers has a least one, and a bounded one a greatest.
LEMMA LeastNumber ==
  ASSUME NEW T, T \subseteq Nat, T # {}
  PROVE  \E x \in T : \A y \in T : x <= y
PROOF
  <1> DEFINE R == OpToRel(<, Nat)
  <1>1. PICK x \in T : \A y \in T : ~ (<<y, x>> \in R)
    BY NatLessThanWellFounded, WFMin
  <1>2. \A a, b \in Nat : a < b => <<a, b>> \in R
    <2>1. R = {ss \in Nat \X Nat : ss[1] < ss[2]}
      BY Zenon DEF OpToRel
    <2> HIDE DEF R
    <2> QED
      BY <2>1
  <1> HIDE DEF R
  <1>3. ASSUME NEW y \in T PROVE x <= y
    <2>1. x \in Nat /\ y \in Nat
      OBVIOUS
    <2>2. ~ (y < x)
      BY <1>1, <1>2, <2>1, Zenon
    <2> QED
      BY <2>1, <2>2
  <1> QED
    BY <1>3

LEMMA GreatestNumber ==
  ASSUME NEW n \in Nat, NEW T, T \subseteq 0 .. n, T # {}
  PROVE  \E x \in T : \A y \in T : y <= x
PROOF
  <1>1. PICK U : U = {n - x : x \in T}
    OBVIOUS
  <1>2. \A x \in T : x \in 0 .. n /\ n - x \in Nat /\ n - x \in U
    BY <1>1
  <1>3. U \subseteq Nat /\ U # {}
    BY <1>1, <1>2
  <1>4. PICK u \in U : \A v \in U : u <= v
    BY <1>3, LeastNumber
  <1>5. PICK x \in T : u = n - x
    BY <1>1
  <1>6. ASSUME NEW y \in T PROVE y <= x
    <2>1. n - y \in U /\ x \in Int /\ y \in Int
      BY <1>2
    <2> QED
      BY <1>4, <1>5, <2>1
  <1> QED
    BY <1>6

\* A set that holds 0, and with a number the next one up to n, holds all of them.
LEMMA Upward ==
  ASSUME NEW n \in Nat, NEW T, 0 \in T,
         \A m \in 0 .. n - 1 : m \in T => m + 1 \in T
  PROVE  \A m \in 0 .. n : m \in T
PROOF
  <1> SUFFICES ASSUME NEW m \in 0 .. n, m \notin T PROVE FALSE
    OBVIOUS
  <1>1. PICK D : D = {d \in 0 .. n : d \notin T}
    OBVIOUS
  <1>2. D \subseteq Nat /\ m \in D
    BY <1>1
  <1>3. PICK d \in D : \A e \in D : d <= e
    BY <1>2, LeastNumber
  <1>4. d \in 1 .. n /\ d \notin T
    BY <1>1
  <1>5. d - 1 \in 0 .. n - 1 /\ (d - 1) + 1 = d /\ d - 1 \in 0 .. n /\ ~ (d <= d - 1)
    BY <1>4
  <1>6. d - 1 \notin D
    BY <1>3, <1>5
  <1> QED
    BY <1>1, <1>4, <1>5, <1>6

\* A function over 0 .. n that computes each value from the one before it.
Iterates(f, n, V, b, g) ==
  /\ f \in [0 .. n -> V]
  /\ f[0] = b /\ \A i \in 1 .. n : f[i] = g[i][f[i - 1]]

LEMMA Recursion ==
  ASSUME NEW n \in Nat, NEW V, NEW b, b \in V, NEW g, g \in [1 .. n -> [V -> V]]
  PROVE  \E f : Iterates(f, n, V, b, g)
PROOF
  <1> DEFINE To(m) == \E f \in [0 .. n -> V] :
                        f[0] = b /\ \A i \in 1 .. m : f[i] = g[i][f[i - 1]]
             T == {m \in 0 .. n : To(m)}
  <1>1. 0 \in T
    <2>1. PICK f \in [0 .. n -> V] : f = [i \in 0 .. n |-> b]
      OBVIOUS
    <2>2. f[0] = b /\ \A i \in 1 .. 0 : f[i] = g[i][f[i - 1]]
      BY <2>1
    <2>3. To(0)
      BY <2>2
    <2> QED
      BY <2>3
  <1>2. ASSUME NEW m \in 0 .. n - 1, m \in T PROVE m + 1 \in T
    <2>1. PICK f \in [0 .. n -> V] : f[0] = b /\ \A i \in 1 .. m : f[i] = g[i][f[i - 1]]
      BY <1>2
    <2>2. m + 1 \in 1 .. n /\ m \in 0 .. n /\ g[m + 1][f[m]] \in V
      OBVIOUS
    <2>3. PICK h \in [0 .. n -> V] : h = [f EXCEPT ![m + 1] = g[m + 1][f[m]]]
      BY <2>2
    <2>4. h[m + 1] = g[m + 1][f[m]] /\ \A i \in 0 .. m : h[i] = f[i]
      BY <2>2, <2>3
    <2>5. h[0] = b
      BY <2>1, <2>4
    <2>6. ASSUME NEW i \in 1 .. m + 1 PROVE h[i] = g[i][h[i - 1]]
      <3>1. CASE i = m + 1
        <4>1. h[i - 1] = f[m]
          BY <2>4, <3>1
        <4> QED
          BY <2>4, <3>1, <4>1
      <3>2. CASE i # m + 1
        <4>1. i \in 1 .. m /\ i \in 0 .. m /\ i - 1 \in 0 .. m
          BY <3>2
        <4> QED
          BY <2>1, <2>4, <4>1
      <3> QED
        BY <3>1, <3>2
    <2>7. To(m + 1)
      BY <2>5, <2>6
    <2> QED
      BY <2>2, <2>7
  <1>3. n \in T
    <2>1. n \in 0 .. n
      OBVIOUS
    <2> HIDE DEF T
    <2> QED
      BY <1>1, <1>2, <2>1, Upward
  <1> QED
    BY <1>3 DEF Iterates

-----------------------------------------------------------------------------
(* The entries of a flushed file.                                          *)

Rows == [key : Keys, val : Mutation]

Sorted(s) == \A i, j \in 1 .. Len(s) : i < j => s[i].key < s[j].key

\* s lists the entries of table t in the order of their keys.
Enumerates(s, t) ==
  /\ s \in Seq(Rows) /\ Sorted(s)
  /\ \A i \in 1 .. Len(s) : s[i].val = t[s[i].key]
  /\ \A k \in Keys : t[k] # Absent => \E i \in 1 .. Len(s) : s[i].key = k

LEMMA KeyFacts ==
  /\ \A k \in Keys : k \in Nat
  /\ IsFiniteSet(Keys) /\ None \notin Keys
PROOF
  <1>1. Keys \subseteq Nat /\ IsFiniteSet(Keys) /\ None \notin Keys
    BY SSTableAssumption
  <1> QED
    BY <1>1

LEMMA RowFacts ==
  ASSUME NEW s \in Seq(Rows), NEW i \in 1 .. Len(s)
  PROVE  /\ s[i] \in Rows /\ s[i].key \in Keys /\ s[i].key \in Nat
         /\ s[i].val \in Mutation /\ s[i].val # Absent
         /\ s[i] = [key |-> s[i].key, val |-> s[i].val]
PROOF
  <1>1. s[i] \in Rows
    BY ElementOfSeq
  <1>2. s[i].key \in Keys /\ s[i].val \in Mutation /\ s[i] = [key |-> s[i].key, val |-> s[i].val]
    BY <1>1 DEF Rows
  <1>3. s[i].val # Absent
    BY <1>2, EntriesAssumption DEF Mutation
  <1> QED
    BY <1>1, <1>2, <1>3, KeyFacts

\* The rank of a key in a set of keys: ranks are 1 .. Cardinality(S), each once.
LEMMA Ranked ==
  ASSUME NEW S, S \subseteq Keys
  PROVE  LET rank(k) == Cardinality({j \in S : j <= k})
         IN  /\ Cardinality(S) \in Nat
             /\ \A k \in S : rank(k) \in 1 .. Cardinality(S)
             /\ \A k, l \in S : k < l => rank(k) < rank(l)
             /\ \A i \in 1 .. Cardinality(S) : \E k \in S : rank(k) = i
PROOF
  <1> DEFINE upto(k) == {j \in S : j <= k}
             rank(k) == Cardinality(upto(k))
  <1>1. IsFiniteSet(S) /\ S \subseteq Nat
    BY KeyFacts, FS_Subset
  <1>2. PICK n \in Nat : n = Cardinality(S)
    BY <1>1, FS_CardinalityType
  <1>3. ASSUME NEW k \in S
        PROVE  /\ upto(k) \subseteq S /\ k \in upto(k) /\ IsFiniteSet(upto(k))
               /\ rank(k) \in Nat /\ rank(k) \in 1 .. n
    <2>1. upto(k) \subseteq S /\ k \in upto(k)
      BY <1>1
    <2> HIDE DEF upto
    <2>2. IsFiniteSet(upto(k)) /\ Cardinality(upto(k)) <= n
      BY <1>1, <1>2, <2>1, FS_Subset
    <2>3. Cardinality(upto(k)) \in Nat
      BY <2>2, FS_CardinalityType
    <2>4. Cardinality(upto(k)) # 0
      BY <2>1, <2>2, FS_EmptySet
    <2> QED
      BY <2>1, <2>2, <2>3, <2>4
  <1>4. ASSUME NEW k \in S, NEW l \in S, k < l PROVE rank(k) < rank(l)
    <2>1. upto(k) \subseteq upto(l) /\ l \in upto(l) /\ l \notin upto(k)
      <3>1. k \in Nat /\ l \in Nat /\ k <= l /\ l <= l /\ ~ (l <= k)
        BY <1>1, <1>4
      <3>2. \A j \in S : j <= k => j <= l
        BY <1>1, <3>1
      <3> QED
        BY <3>1, <3>2
    <2>2. /\ IsFiniteSet(upto(l)) /\ Cardinality(upto(l)) \in Nat
          /\ Cardinality(upto(k)) \in Nat
      BY <1>3
    <2> HIDE DEF upto
    <2>3. /\ Cardinality(upto(k)) <= Cardinality(upto(l))
          /\ Cardinality(upto(l)) = Cardinality(upto(k)) => upto(l) = upto(k)
      BY <2>1, <2>2, FS_Subset
    <2> QED
      BY <2>1, <2>2, <2>3
  <1>5. ASSUME NEW i \in 1 .. n PROVE \E k \in S : rank(k) = i
    <2>1. PICK f : f = [k \in S |-> rank(k)]
      OBVIOUS
    <2>2. \A k \in S : f[k] = rank(k)
      BY <2>1
    <2>3. f \in [S -> 1 .. n]
      <3> HIDE DEF rank
      <3> QED
        BY <1>3, <2>1
    <2>4. ASSUME NEW k \in S, NEW l \in S, f[k] = f[l] PROVE k = l
      <3>1. k \in Nat /\ l \in Nat
        BY <1>1
      <3>2. ~ (k < l) /\ ~ (l < k)
        <4>1. rank(k) = rank(l) /\ rank(k) \in Nat
          BY <1>3, <2>2, <2>4
        <4> HIDE DEF rank
        <4> QED
          BY <1>4, <4>1
      <3> QED
        BY <3>1, <3>2
    <2>5. f \in Injection(S, 1 .. n)
      BY <2>3, <2>4 DEF Injection, IsInjective
    <2>6. IsFiniteSet(1 .. n) /\ Cardinality(1 .. n) = n
      <3>1. 1 \in Int /\ n \in Int
        OBVIOUS
      <3> QED
        BY <3>1, FS_Interval
    <2>7. f \in Surjection(S, 1 .. n)
      BY <1>2, <2>5, <2>6, FS_Injection
    <2>8. \E k \in S : f[k] = i
      BY <2>7 DEF Surjection
    <2> HIDE DEF rank
    <2> QED
      BY <2>2, <2>8
  <1> QED
    BY <1>2, <1>3, <1>4, <1>5

\* FlushMemTable writes the entries of the table in ascending order.
LEMMA FlushEnumerates ==
  ASSUME NEW t \in Table
  PROVE  /\ Enumerates(FlushedSSTable(t).data, t)
         /\ FlushedSSTable(t) = SSTableOf(FlushedSSTable(t).data)
PROOF
  <1> DEFINE S == {k \in Keys : t[k] # Absent}
             rank(k) == Cardinality({j \in S : j <= k})
             Nth(i) == CHOOSE k \in S : rank(k) = i
             s == [i \in 1 .. Cardinality(S) |-> [key |-> Nth(i), val |-> t[Nth(i)]]]
  <1>1. FlushedSSTable(t) = SSTableOf(s)
    BY DEF FlushedSSTable
  <1>2. SSTableOf(s).data = s
    <2> HIDE DEF s
    <2> QED
      BY DEF SSTableOf
  <1>3. PICK n \in Nat : n = Cardinality(S)
    <2>1. S \subseteq Keys
      OBVIOUS
    <2> QED
      BY <2>1, Ranked
  <1>4. /\ \A k \in S : rank(k) \in 1 .. n
        /\ \A k, l \in S : k < l => rank(k) < rank(l)
        /\ \A i \in 1 .. n : \E k \in S : rank(k) = i
    <2>1. S \subseteq Keys
      OBVIOUS
    <2> HIDE DEF S
    <2> QED
      BY <1>3, <2>1, Ranked
  <1>5. \A k \in S : k \in Keys /\ k \in Nat /\ t[k] # Absent /\ t[k] \in Mutation
    BY KeyFacts DEF Table, Entry, Mutation
  <1>6. \A k \in Keys : t[k] # Absent => k \in S
    OBVIOUS
  <1> HIDE DEF S, rank
  <1>7. \A i \in 1 .. n : Nth(i) \in S /\ rank(Nth(i)) = i
    BY <1>4
  <1>8. s = [i \in 1 .. n |-> [key |-> Nth(i), val |-> t[Nth(i)]]]
    BY <1>3
  <1> HIDE DEF Nth, s
  <1>9. \A i \in 1 .. n : s[i] \in Rows /\ s[i].key = Nth(i) /\ s[i].val = t[Nth(i)]
    BY <1>5, <1>7, <1>8 DEF Rows
  <1>10. s \in Seq(Rows) /\ Len(s) = n
    BY <1>8, <1>9
  <1>11. ASSUME NEW i \in 1 .. n, NEW j \in 1 .. n, i < j PROVE Nth(i) < Nth(j)
    <2>1. /\ Nth(i) \in S /\ Nth(j) \in S /\ rank(Nth(i)) = i /\ rank(Nth(j)) = j
          /\ Nth(i) \in Nat /\ Nth(j) \in Nat
      BY <1>5, <1>7
    <2>2. ~ (Nth(j) < Nth(i))
      BY <1>4, <1>11, <2>1
    <2>3. Nth(i) # Nth(j)
      BY <1>11, <2>1
    <2> QED
      BY <2>1, <2>2, <2>3
  <1>12. Sorted(s)
    BY <1>9, <1>10, <1>11 DEF Sorted
  <1>13. ASSUME NEW k \in Keys, t[k] # Absent PROVE \E i \in 1 .. n : s[i].key = k
    <2>1. k \in S /\ k \in Nat
      BY <1>5, <1>6, <1>13
    <2>2. PICK i \in 1 .. n : i = rank(k)
      BY <1>4, <2>1
    <2>3. Nth(i) \in S /\ rank(Nth(i)) = rank(k) /\ Nth(i) \in Nat
      BY <1>5, <1>7, <2>2
    <2>4. ~ (Nth(i) < k) /\ ~ (k < Nth(i))
      BY <1>4, <2>1, <2>2, <2>3
    <2>5. Nth(i) = k
      BY <2>1, <2>3, <2>4
    <2> QED
      BY <1>9, <2>5
  <1>14. Enumerates(s, t)
    BY <1>9, <1>10, <1>12, <1>13 DEF Enumerates
  <1> QED
    BY <1>1, <1>2, <1>14

-----------------------------------------------------------------------------
(* The inductive invariant of the merge.                                   *)

Data(i) == l0Files[i].data

\* The inputs are flushed MemTables.
Flushed ==
  /\ input \in Seq(Table)
  /\ l0Files = [i \in Files |-> FlushedSSTable(input[i])]

MergeTypes ==
  /\ pc \in {"open", "pop", "write", "done", "failed"}
  /\ opened \in 0 .. Len(input)
  /\ cursor \in [Files -> Nat]
  /\ \A i \in Files : cursor[i] \in 0 .. Len(Data(i))
  /\ item \in Item \cup {NoItem}
  /\ readError \in BOOLEAN

\* a is the entry that the iterator of its file has delivered last.
AtHead(a) ==
  /\ a.seq \in 1 .. opened
  /\ cursor[a.seq] \in 1 .. Len(Data(a.seq))
  /\ a = HeapItem(a.seq, cursor[a.seq])

\* The heap holds heads; the item in hand is one too, and the least.
Heads ==
  /\ \A a \in heap : AtHead(a)
  /\ pc = "write" =>
       /\ AtHead(item)
       /\ \A a \in heap : a.seq # item.seq /\ item.key <= a.key

\* What is written is sorted, comes from the inputs, and is below all that is
\* still to come.
Output ==
  /\ out \in Seq(Rows) /\ Sorted(out)
  /\ pc = "open" => out = << >>
  /\ lastKey = IF out = << >> THEN None ELSE out[Len(out)].key
  /\ \A j \in 1 .. Len(out) :
       /\ \A a \in heap : out[j].key < a.key
       /\ pc = "write" => out[j].key < item.key
       /\ \E i \in Files : input[i][out[j].key] # Absent

MergeInv == Flushed /\ MergeTypes /\ Heads /\ Output

InHeap(i) == \E a \in heap : a.seq = i

Waiting(i) == InHeap(i) \/ (pc = "write" /\ item.seq = i)

\* Entry n of file i has been dealt with.
Passed(i, n) == n < cursor[i] \/ (n = cursor[i] /\ ~ Waiting(i))

Settled(k) ==
  \/ KeyLen[k] = 0
  \/ \E j \in 1 .. Len(out) : out[j] = [key |-> k, val |-> NewestEntry(k)]

\* Every iterator waits in the heap or is at its end.
Delivering ==
  /\ \A i \in Files : IF i <= opened THEN Waiting(i) \/ cursor[i] = Len(Data(i))
                                     ELSE cursor[i] = 0
  /\ pc # "open" => opened = Len(input)
  /\ pc = "done" => heap = {}

\* What has been dealt with is settled, or settled by the item in hand.
Accounted ==
  \A i \in Files : \A n \in 1 .. Len(Data(i)) : Passed(i, n) =>
    Settled(Data(i)[n].key) \/ (pc = "write" /\ Data(i)[n].key = item.key)

\* The item in hand is the newest entry of its key.
Newest == pc = "write" => item.val = NewestEntry(item.key) \/ KeyLen[item.key] = 0

\* As long as no operation fails, nothing is lost.
Complete == ~ readError /\ pc # "failed" => Delivering /\ Accounted /\ Newest

-----------------------------------------------------------------------------
(* Files, heads and the heap.                                              *)

LEMMA FileFacts ==
  ASSUME Flushed, NEW i \in Files
  PROVE  /\ input[i] \in Table /\ i \in Nat /\ Len(input) \in Nat
         /\ l0Files[i] = SSTableOf(Data(i)) /\ Enumerates(Data(i), input[i])
         /\ Data(i) \in Seq(Rows) /\ Sorted(Data(i)) /\ Len(Data(i)) \in Nat
PROOF
  <1>1. input[i] \in Table /\ Len(input) \in Nat /\ i \in Nat
    <2>1. Len(input) \in Nat
      BY DEF Flushed
    <2> QED
      BY <2>1 DEF Flushed, Files
  <1>2. l0Files[i] = FlushedSSTable(input[i])
    BY DEF Flushed
  <1>3. l0Files[i] = SSTableOf(Data(i)) /\ Enumerates(Data(i), input[i])
    BY <1>1, <1>2, FlushEnumerates DEF Data
  <1>4. Data(i) \in Seq(Rows) /\ Sorted(Data(i))
    BY <1>3 DEF Enumerates
  <1> QED
    BY <1>1, <1>3, <1>4, LenProperties

LEMMA HeadFacts ==
  ASSUME Flushed, NEW i \in Files, NEW n \in 1 .. Len(Data(i))
  PROVE  /\ HeapItem(i, n) \in Item /\ HeapItem(i, n).seq = i
         /\ HeapItem(i, n).key = Data(i)[n].key /\ HeapItem(i, n).val = Data(i)[n].val
         /\ Data(i)[n].key \in Keys /\ Data(i)[n].key \in Nat
         /\ Data(i)[n].val = input[i][Data(i)[n].key] /\ Data(i)[n].val # Absent
PROOF
  <1>1. Data(i) \in Seq(Rows) /\ Enumerates(Data(i), input[i])
    BY FileFacts
  <1>2. /\ Data(i)[n].key \in Keys /\ Data(i)[n].key \in Nat
        /\ Data(i)[n].val \in Mutation /\ Data(i)[n].val # Absent
    BY <1>1, RowFacts
  <1>3. HeapItem(i, n) = [key |-> Data(i)[n].key, val |-> Data(i)[n].val, seq |-> i]
    BY DEF HeapItem, Data
  <1>4. Data(i)[n].val = input[i][Data(i)[n].key]
    BY <1>1 DEF Enumerates
  <1> QED
    BY <1>2, <1>3, <1>4 DEF Item

LEMMA AtHeadFacts ==
  ASSUME Flushed, MergeTypes, NEW a, AtHead(a)
  PROVE  /\ a \in Item /\ a.seq \in Files /\ a.seq \in Nat
         /\ a.key \in Keys /\ a.key \in Nat
         /\ cursor[a.seq] \in 1 .. Len(Data(a.seq))
         /\ a.key = Data(a.seq)[cursor[a.seq]].key
         /\ a.val = Data(a.seq)[cursor[a.seq]].val
         /\ a.val = input[a.seq][a.key] /\ a.val # Absent
PROOF
  <1>1. a.seq \in Files /\ a.seq \in Nat
    <2>1. Len(input) \in Nat
      BY DEF Flushed
    <2> QED
      BY <2>1 DEF AtHead, MergeTypes, Files
  <1>2. PICK i \in Files : i = a.seq
    BY <1>1
  <1>3. PICK n \in 1 .. Len(Data(i)) : n = cursor[i]
    BY <1>2 DEF AtHead
  <1>4. a = HeapItem(i, n)
    BY <1>2, <1>3 DEF AtHead
  <1> QED
    BY <1>1, <1>2, <1>3, <1>4, HeadFacts

\* MinHeap: the top is the least by key, and of equal keys the newest.
LEMMA TopIs ==
  ASSUME NEW n \in Nat, NEW h, h # {},
         \A a \in h : a.key \in Nat /\ a.seq \in 0 .. n,
         \A a, b \in h : a.seq = b.seq => a = b
  PROVE  Top(h) \in h /\ \A b \in h \ {Top(h)} : Less(Top(h), b)
PROOF
  <1>1. PICK T : T = {a.key : a \in h}
    OBVIOUS
  <1>2. T \subseteq Nat /\ T # {}
    BY <1>1
  <1>3. PICK x \in T : \A y \in T : x <= y
    BY <1>2, LeastNumber
  <1>4. PICK U : U = {a.seq : a \in {b \in h : b.key = x}}
    OBVIOUS
  <1>5. U \subseteq 0 .. n /\ U # {}
    BY <1>1, <1>4
  <1>6. PICK z \in U : \A y \in U : y <= z
    BY <1>5, GreatestNumber
  <1>7. PICK a \in h : a.key = x /\ a.seq = z
    BY <1>4
  <1>8. ASSUME NEW b \in h \ {a} PROVE Less(a, b)
    <2>1. b.key \in T /\ b.key \in Nat /\ b.seq \in Nat /\ a.seq \in Nat /\ a.key \in Nat
      BY <1>1
    <2>2. a.key <= b.key
      BY <1>3, <1>7, <2>1
    <2>3. CASE b.key = x
      <3>1. b.seq \in U
        BY <1>4, <2>3
      <3>2. b.seq <= a.seq /\ b.seq # a.seq
        BY <1>6, <1>7, <3>1
      <3> QED
        BY <1>7, <2>1, <2>3, <3>2 DEF Less
    <2>4. CASE b.key # x
      BY <1>7, <2>1, <2>2, <2>4 DEF Less
    <2> QED
      BY <2>3, <2>4
  <1>9. \E c \in h : \A b \in h \ {c} : Less(c, b)
    BY <1>8
  <1> QED
    BY <1>9 DEF Top

\* The top of a heap of heads.
LEMMA TopOfHeap ==
  ASSUME Flushed, MergeTypes, \A a \in heap : AtHead(a), heap # {}
  PROVE  /\ Top(heap) \in heap /\ AtHead(Top(heap))
         /\ \A b \in heap \ {Top(heap)} :
              /\ b.seq # Top(heap).seq /\ Top(heap).key <= b.key
              /\ b.key = Top(heap).key => Top(heap).seq > b.seq
PROOF
  <1>1. PICK n \in Nat : n = Len(input)
    BY DEF Flushed
  <1>2. \A a \in heap : a.key \in Nat /\ a.seq \in 0 .. n /\ a.seq \in Nat
    BY <1>1, AtHeadFacts DEF Files
  <1>3. \A a, b \in heap : a.seq = b.seq => a = b
    BY DEF AtHead
  <1>4. Top(heap) \in heap /\ \A b \in heap \ {Top(heap)} : Less(Top(heap), b)
    BY <1>2, <1>3, TopIs, Zenon
  <1>5. PICK t \in heap : t = Top(heap)
    BY <1>4
  <1>6. ASSUME NEW b \in heap \ {t}
        PROVE  b.seq # t.seq /\ t.key <= b.key /\ (b.key = t.key => t.seq > b.seq)
    <2>1. b.key \in Nat /\ t.key \in Nat /\ b.seq \in Nat /\ t.seq \in Nat
      BY <1>2
    <2>2. b.seq # t.seq
      BY <1>3
    <2>3. Less(t, b)
      BY <1>4, <1>5
    <2> QED
      BY <2>1, <2>2, <2>3 DEF Less
  <1> QED
    BY <1>4, <1>5, <1>6

\* What an iterator delivers next is greater than what it delivered last.
LEMMA NextGreater ==
  ASSUME Flushed, NEW i \in Files, NEW n \in 1 .. Len(Data(i)), NEW m \in 1 .. Len(Data(i)), n < m
  PROVE  Data(i)[n].key < Data(i)[m].key
PROOF
  BY FileFacts DEF Sorted

-----------------------------------------------------------------------------
(* The invariant of the merge is inductive.                                *)

\* Advancing iterator i: the heads in h stay heads, and at most one is new.
LEMMA Advance ==
  ASSUME Flushed, MergeTypes, NEW i \in Files, NEW h,
         opened' \in Nat, opened <= opened', i <= opened', UNCHANGED <<input, l0Files>>,
         \A a \in h : AtHead(a) /\ a.seq # i,
         NextAndPush(i, h)
  PROVE  /\ cursor' \in [Files -> Nat]
         /\ \A j \in Files : cursor'[j] \in 0 .. Len(Data(j))
         /\ \A j \in Files \ {i} : cursor'[j] = cursor[j]
         /\ readError' \in BOOLEAN
         /\ \A a \in heap' : AtHead(a)'
         /\ \A a \in heap' : \/ a \in h
                             \/ /\ cursor[i] + 1 \in 1 .. Len(Data(i))
                                /\ a = HeapItem(i, cursor[i] + 1)
         /\ h \subseteq heap'
PROOF
  <1>1. /\ cursor \in [Files -> Nat] /\ cursor[i] \in 0 .. Len(Data(i))
        /\ \A j \in Files : cursor[j] \in 0 .. Len(Data(j))
        /\ opened \in Nat /\ readError \in BOOLEAN
    BY DEF MergeTypes
  <1>2. Len(Data(i)) \in Nat /\ i \in 1 .. opened' /\ Files' = Files
    <2>1. Len(Data(i)) \in Nat /\ i \in Nat /\ Len(input) \in Nat
      BY FileFacts
    <2> QED
      BY <2>1 DEF Files
  <1>3. \A j \in Files : Data(j)' = Data(j)
    BY DEF Data
  <1>4. ASSUME NEW a \in h, cursor'[a.seq] = cursor[a.seq] PROVE AtHead(a)'
    <2>1. AtHead(a) /\ a.seq \in Files
      BY AtHeadFacts
    <2>2. a.seq \in 1 .. opened'
      BY <1>1, <2>1 DEF AtHead
    <2>3. cursor'[a.seq] \in 1 .. Len(Data(a.seq)')
      BY <1>3, <1>4, <2>1 DEF AtHead
    <2>4. a = HeapItem(a.seq, cursor[a.seq])'
      BY <1>4, <2>1 DEF AtHead, HeapItem
    <2> QED
      BY <2>2, <2>3, <2>4 DEF AtHead
  <1>5. CASE /\ cursor[i] < Len(Data(i))
             /\ cursor' = [cursor EXCEPT ![i] = @ + 1]
             /\ heap' = h \cup {HeapItem(i, cursor[i] + 1)}
             /\ UNCHANGED readError
    <2>1. cursor[i] + 1 \in 1 .. Len(Data(i)) /\ cursor[i] + 1 \in Nat
      BY <1>1, <1>2, <1>5
    <2>2. cursor' \in [Files -> Nat] /\ cursor'[i] = cursor[i] + 1
          /\ \A j \in Files \ {i} : cursor'[j] = cursor[j]
      BY <1>1, <1>5, <2>1
    <2>3. \A j \in Files : cursor'[j] \in 0 .. Len(Data(j))
      BY <1>1, <2>1, <2>2
    <2>4. PICK b : b = HeapItem(i, cursor[i] + 1)
      OBVIOUS
    <2>5. AtHead(b)'
      <3>1. b.seq = i
        BY <2>1, <2>4, HeadFacts
      <3>2. b = HeapItem(i, cursor[i])'
        BY <2>2, <2>4 DEF HeapItem
      <3>3. cursor'[i] \in 1 .. Len(Data(i)')
        BY <1>3, <2>1, <2>2
      <3> QED
        BY <1>2, <3>1, <3>2, <3>3 DEF AtHead
    <2>6. \A a \in h : AtHead(a)'
      BY <1>4, <2>2, AtHeadFacts
    <2> QED
      BY <1>1, <1>5, <2>1, <2>2, <2>3, <2>4, <2>5, <2>6
  <1>6. CASE heap' = h /\ cursor' = cursor /\ readError' \in BOOLEAN
    BY <1>1, <1>4, <1>6
  <1> QED
    BY <1>1, <1>5, <1>6 DEF NextAndPush, Data

\* Whatever the step, the files stay as they were flushed.
LEMMA FlushedStays ==
  ASSUME Flushed, UNCHANGED <<input, l0Files>>
  PROVE  Flushed' /\ Files' = Files /\ Item' = Item /\ \A j \in Files : Data(j)' = Data(j)
PROOF
  <1>1. Files' = Files
    BY DEF Files
  <1> QED
    BY <1>1 DEF Flushed, Item, Data

LEMMA MergeInitially ==
  ASSUME KmInit
  PROVE  MergeInv
PROOF
  <1>1. input \in Seq(Table) /\ Len(input) \in Nat
    BY KWayMergeAssumption DEF KmInit
  <1>2. Flushed
    BY <1>1 DEF KmInit, Flushed
  <1>3. MergeTypes
    <2>1. \A i \in Files : 0 \in 0 .. Len(Data(i))
      BY <1>2, FileFacts
    <2>2. cursor \in [Files -> Nat] /\ \A i \in Files : cursor[i] = 0
      BY DEF KmInit
    <2>3. opened \in 0 .. Len(input)
      BY <1>1 DEF KmInit
    <2>4. pc = "open" /\ item = NoItem /\ readError = FALSE
      BY DEF KmInit
    <2> QED
      BY <2>1, <2>2, <2>3, <2>4 DEF MergeTypes
  <1>4. Heads
    BY DEF KmInit, Heads
  <1>5. Output
    <2>1. out = << >> /\ lastKey = None /\ Len(out) = 0
      BY DEF KmInit
    <2>2. out \in Seq(Rows) /\ \A j \in 1 .. Len(out) : FALSE
      BY <2>1
    <2> QED
      BY <2>1, <2>2 DEF Output, Sorted
  <1> QED
    BY <1>2, <1>3, <1>4, <1>5 DEF MergeInv

LEMMA OpenIteratorMerge ==
  ASSUME MergeInv, OpenIterator
  PROVE  MergeInv'
PROOF
  <1> USE DEF MergeInv
  <1>1. /\ Flushed' /\ Files' = Files /\ Item' = Item
        /\ \A j \in Files : Data(j)' = Data(j)
    BY FlushedStays DEF OpenIterator
  <1>2. PICK i : i = opened + 1
    OBVIOUS
  <1>3. i \in Files /\ opened' = i /\ opened' \in 0 .. Len(input) /\ opened <= opened'
        /\ i <= opened' /\ opened' \in Nat /\ pc = "open" /\ pc' = "open"
    <2>1. Len(input) \in Nat
      BY DEF Flushed
    <2> QED
      BY <1>2, <2>1 DEF OpenIterator, MergeTypes, Files
  <1>4. \A a \in heap : AtHead(a) /\ a.seq # i
    BY <1>2 DEF Heads, AtHead, MergeTypes
  <1>5. NextAndPush(i, heap)
    BY <1>2 DEF OpenIterator
  <1>6. /\ cursor' \in [Files -> Nat]
        /\ \A j \in Files : cursor'[j] \in 0 .. Len(Data(j))
        /\ readError' \in BOOLEAN
        /\ \A a \in heap' : AtHead(a)'
    BY <1>3, <1>4, <1>5, Advance DEF OpenIterator
  <1>7. MergeTypes'
    BY <1>1, <1>3, <1>6 DEF MergeTypes, OpenIterator
  <1>8. Heads'
    BY <1>3, <1>6 DEF Heads
  <1>9. out' = << >> /\ lastKey' = None
    BY <1>3 DEF Output, OpenIterator
  <1>10. Output'
    <2>1. Len(out') = 0 /\ out' \in Seq(Rows) /\ \A j \in 1 .. Len(out') : FALSE
      BY <1>9
    <2> QED
      BY <1>9, <2>1 DEF Output, Sorted
  <1> QED
    BY <1>1, <1>7, <1>8, <1>10

\* A step that only moves the program counter, to the next round or to the end.
LEMMA PcMerge ==
  ASSUME MergeInv, pc' \in {"pop", "done", "failed"},
         UNCHANGED <<input, l0Files, opened, cursor, heap, item, lastKey, out, readError>>
  PROVE  MergeInv'
PROOF
  <1> USE DEF MergeInv
  <1>1. /\ Flushed' /\ Files' = Files /\ Item' = Item
        /\ \A j \in Files : Data(j)' = Data(j)
    BY FlushedStays
  <1>2. MergeTypes'
    BY <1>1 DEF MergeTypes
  <1>3. \A a \in heap' : AtHead(a)'
    <2>1. ASSUME NEW a \in heap PROVE AtHead(a)'
      <3>1. AtHead(a)
        BY DEF Heads
      <3> QED
        BY <3>1 DEF AtHead, HeapItem, Data
    <2> QED
      BY <2>1
  <1>4. Heads'
    BY <1>3 DEF Heads
  <1>5. Output'
    BY <1>1 DEF Output, Sorted
  <1> QED
    BY <1>1, <1>2, <1>4, <1>5

LEMMA PopItemMerge ==
  ASSUME MergeInv, PopItem
  PROVE  MergeInv'
PROOF
  <1> USE DEF MergeInv
  <1>1. /\ Flushed' /\ Files' = Files /\ Item' = Item
        /\ \A j \in Files : Data(j)' = Data(j)
    BY FlushedStays DEF PopItem
  <1>2. PICK t \in heap : t = Top(heap)
    BY TopOfHeap DEF PopItem, Heads
  <1>3. /\ AtHead(t) /\ t \in Item /\ t.key \in Nat
        /\ \A b \in heap \ {t} : b.seq # t.seq /\ t.key <= b.key
    <2>1. AtHead(t) /\ \A b \in heap \ {t} : b.seq # t.seq /\ t.key <= b.key
      BY <1>2, TopOfHeap DEF Heads
    <2> QED
      BY <2>1, AtHeadFacts
  <1>4. item' = t /\ heap' = heap \ {t} /\ pc' = "write"
    BY <1>2 DEF PopItem
  <1>5. MergeTypes'
    BY <1>1, <1>3, <1>4 DEF MergeTypes, PopItem
  <1>6. \A a \in heap : AtHead(a)'
    <2>1. ASSUME NEW a \in heap PROVE AtHead(a)'
      <3>1. AtHead(a)
        BY DEF Heads
      <3> QED
        BY <3>1 DEF AtHead, HeapItem, Data, PopItem
    <2> QED
      BY <2>1
  <1>7. AtHead(item)'
    <2>1. AtHead(t)'
      BY <1>6
    <2> QED
      BY <1>4, <2>1 DEF AtHead
  <1>8. Heads'
    BY <1>3, <1>4, <1>6, <1>7 DEF Heads
  <1>9. Output'
    <2>1. out' = out /\ lastKey' = lastKey /\ input' = input
      BY DEF PopItem
    <2> QED
      BY <1>1, <1>4, <2>1 DEF Output, Sorted
  <1> QED
    BY <1>1, <1>5, <1>8, <1>9

LEMMA DropDuplicateMerge ==
  ASSUME MergeInv, DropDuplicate
  PROVE  MergeInv'
PROOF
  <1> USE DEF MergeInv
  <1>1. /\ Flushed' /\ Files' = Files /\ Item' = Item
        /\ \A j \in Files : Data(j)' = Data(j)
    BY FlushedStays DEF DropDuplicate
  <1>2. PICK t \in heap : t = Top(heap)
    BY TopOfHeap DEF DropDuplicate, OlderDuplicate, Heads
  <1>3. /\ AtHead(t) /\ t.seq \in Files /\ t.key \in Nat
        /\ cursor[t.seq] \in 1 .. Len(Data(t.seq))
        /\ t.key = Data(t.seq)[cursor[t.seq]].key
        /\ \A b \in heap \ {t} : b.seq # t.seq
    <2>1. AtHead(t) /\ \A b \in heap \ {t} : b.seq # t.seq
      BY <1>2, TopOfHeap DEF Heads
    <2> QED
      BY <2>1, AtHeadFacts
  <1>4. PICK i \in Files : i = t.seq
    BY <1>3
  <1>5. /\ pc = "write" /\ pc' = "write" /\ item' = item /\ out' = out /\ lastKey' = lastKey
        /\ t.key = item.key /\ UNCHANGED <<input, l0Files, opened>>
    BY <1>2 DEF DropDuplicate, OlderDuplicate
  <1>6. NextAndPush(i, heap \ {t})
    BY <1>2, <1>4 DEF DropDuplicate
  <1>7. opened' = opened /\ opened \in Nat /\ i <= opened
    BY <1>3, <1>4, <1>5 DEF AtHead, MergeTypes
  <1>8. \A a \in heap \ {t} : AtHead(a) /\ a.seq # i
    BY <1>3, <1>4 DEF Heads
  <1>9. /\ cursor' \in [Files -> Nat]
        /\ \A j \in Files : cursor'[j] \in 0 .. Len(Data(j))
        /\ \A j \in Files \ {i} : cursor'[j] = cursor[j]
        /\ readError' \in BOOLEAN
        /\ \A a \in heap' : AtHead(a)'
        /\ \A a \in heap' : \/ a \in heap \ {t}
                            \/ /\ cursor[i] + 1 \in 1 .. Len(Data(i))
                               /\ a = HeapItem(i, cursor[i] + 1)
    <2>1. opened' \in Nat /\ opened <= opened' /\ i <= opened'
      BY <1>7
    <2> QED
      BY <1>5, <1>6, <1>8, <2>1, Advance
  <1>10. ASSUME NEW a \in heap', a \notin heap \ {t}
         PROVE  a.seq = i /\ item.key < a.key /\ a.key \in Nat
    <2>1. /\ cursor[i] + 1 \in 1 .. Len(Data(i)) /\ a = HeapItem(i, cursor[i] + 1)
          /\ cursor[i] \in 1 .. Len(Data(i)) /\ cursor[i] < cursor[i] + 1
      BY <1>3, <1>4, <1>9, <1>10
    <2>2. Data(i)[cursor[i]].key < Data(i)[cursor[i] + 1].key
      BY <2>1, NextGreater
    <2>3. a.seq = i /\ a.key = Data(i)[cursor[i] + 1].key /\ a.key \in Nat
      BY <2>1, HeadFacts
    <2> QED
      BY <1>3, <1>4, <1>5, <2>2, <2>3
  <1>11. AtHead(item) /\ item.key \in Nat /\ item.seq \in Files /\ item.seq # i
    <2>1. AtHead(item) /\ item.seq # i
      BY <1>4, <1>5 DEF Heads
    <2> QED
      BY <2>1, AtHeadFacts
  <1>12. MergeTypes'
    BY <1>1, <1>5, <1>9 DEF MergeTypes
  <1>13. Heads'
    <2>1. AtHead(item)'
      <3>1. cursor'[item.seq] = cursor[item.seq]
        BY <1>9, <1>11
      <3> QED
        BY <1>1, <1>5, <1>11, <3>1 DEF AtHead, HeapItem, Data
    <2>2. \A a \in heap' : a.seq # item.seq /\ item.key <= a.key
      <3>1. \A a \in heap \ {t} : a.seq # item.seq /\ item.key <= a.key
        BY <1>5 DEF Heads
      <3> QED
        BY <1>10, <1>11, <3>1
    <2> QED
      BY <1>5, <1>9, <2>1, <2>2 DEF Heads
  <1>14. Output'
    <2>1. ASSUME NEW j \in 1 .. Len(out), NEW a \in heap' PROVE out[j].key < a.key
      <3>1. CASE a \in heap
        BY <3>1 DEF Output
      <3>2. CASE a \notin heap
        <4>1. item.key < a.key /\ a.key \in Nat
          BY <1>10, <3>2
        <4>2. out[j].key < item.key /\ out[j].key \in Nat
          BY <1>5, RowFacts DEF Output
        <4> QED
          BY <1>11, <4>1, <4>2
      <3> QED
        BY <3>1, <3>2
    <2>2. \A j \in 1 .. Len(out) : /\ out[j].key < item.key
                                   /\ \E f \in Files : input[f][out[j].key] # Absent
      BY <1>5 DEF Output
    <2> QED
      BY <1>1, <1>5, <2>1, <2>2 DEF Output, Sorted
  <1> QED
    BY <1>1, <1>12, <1>13, <1>14

LEMMA WriteItemMerge ==
  ASSUME MergeInv, WriteItem
  PROVE  MergeInv'
PROOF
  <1> USE DEF MergeInv
  <1>1. /\ Flushed' /\ Files' = Files /\ Item' = Item
        /\ \A j \in Files : Data(j)' = Data(j)
    BY FlushedStays DEF WriteItem
  <1>2. /\ pc = "write" /\ pc' = "pop" /\ item' = NoItem
        /\ UNCHANGED <<input, l0Files, opened>> /\ ~ OlderDuplicate
    BY DEF WriteItem
  <1>3. /\ AtHead(item) /\ item \in Item /\ item.seq \in Files
        /\ item.key \in Nat /\ item.key \in Keys /\ item.val \in Mutation
        /\ cursor[item.seq] \in 1 .. Len(Data(item.seq))
        /\ item.key = Data(item.seq)[cursor[item.seq]].key
        /\ input[item.seq][item.key] # Absent
    <2>1. AtHead(item)
      BY <1>2 DEF Heads
    <2>2. item \in Item
      BY <2>1, AtHeadFacts
    <2>3. item.val \in Mutation
      BY <2>2 DEF Item
    <2> QED
      BY <2>1, <2>3, AtHeadFacts
  <1>4. PICK i \in Files : i = item.seq
    BY <1>3
  <1>5. opened' = opened /\ opened \in Nat /\ i <= opened
    BY <1>2, <1>3, <1>4 DEF AtHead, MergeTypes
  <1>6. \A a \in heap : AtHead(a) /\ a.seq # i
    BY <1>2, <1>4 DEF Heads
  <1>7. NextAndPush(i, heap)
    BY <1>4 DEF WriteItem
  <1>8. /\ cursor' \in [Files -> Nat]
        /\ \A j \in Files : cursor'[j] \in 0 .. Len(Data(j))
        /\ readError' \in BOOLEAN
        /\ \A a \in heap' : AtHead(a)'
        /\ \A a \in heap' : \/ a \in heap
                            \/ /\ cursor[i] + 1 \in 1 .. Len(Data(i))
                               /\ a = HeapItem(i, cursor[i] + 1)
    <2>1. opened' \in Nat /\ opened <= opened' /\ i <= opened'
      BY <1>5
    <2> QED
      BY <1>2, <1>6, <1>7, <2>1, Advance
  <1>9. ASSUME NEW a \in heap' PROVE item.key < a.key /\ a.key \in Nat
    <2>1. CASE a \in heap
      <3>1. a.key \in Nat
        BY <1>6, <2>1, AtHeadFacts
      <3>2. item.key <= a.key
        BY <1>2, <2>1 DEF Heads
      <3>3. PICK t \in heap : t = Top(heap)
        BY <1>6, <2>1, TopOfHeap
      <3>4. t.key # item.key /\ t.key \in Nat /\ item.key <= t.key
        <4>1. t.key # item.key
          BY <1>2, <2>1, <3>3 DEF OlderDuplicate
        <4>2. item.key <= t.key
          BY <1>2 DEF Heads
        <4>3. t.key \in Nat
          BY <1>6, AtHeadFacts
        <4> QED
          BY <4>1, <4>2, <4>3
      <3>5. t.key <= a.key
        <4>1. \A b \in heap \ {t} : t.key <= b.key
          BY <1>6, <2>1, <3>3, TopOfHeap
        <4> QED
          BY <2>1, <3>4, <4>1
      <3> QED
        BY <1>3, <3>1, <3>2, <3>4, <3>5
    <2>2. CASE a \notin heap
      <3>1. /\ cursor[i] + 1 \in 1 .. Len(Data(i)) /\ a = HeapItem(i, cursor[i] + 1)
            /\ cursor[i] \in 1 .. Len(Data(i)) /\ cursor[i] < cursor[i] + 1
        BY <1>3, <1>4, <1>8, <2>2
      <3>2. Data(i)[cursor[i]].key < Data(i)[cursor[i] + 1].key
        BY <3>1, NextGreater
      <3>3. a.key = Data(i)[cursor[i] + 1].key /\ a.key \in Nat
        BY <3>1, HeadFacts
      <3> QED
        BY <1>3, <1>4, <3>2, <3>3
    <2> QED
      BY <2>1, <2>2
  <1>10. MergeTypes'
    BY <1>1, <1>2, <1>8 DEF MergeTypes
  <1>11. Heads'
    BY <1>2, <1>8 DEF Heads
  <1>12. \A j \in 1 .. Len(out) :
           /\ out[j].key < item.key /\ out[j].key \in Nat /\ out[j].key \in Keys
           /\ \E f \in Files : input[f][out[j].key] # Absent
    BY <1>2, RowFacts DEF Output
  <1>13. CASE UNCHANGED <<out, lastKey>>
    <2>1. ASSUME NEW j \in 1 .. Len(out), NEW a \in heap' PROVE out[j].key < a.key
      BY <1>3, <1>9, <1>12
    <2>2. Output'
      BY <1>1, <1>2, <1>12, <1>13, <2>1 DEF Output, Sorted
    <2> QED
      BY <1>1, <1>10, <1>11, <2>2
  <1>14. CASE /\ out' = Append(out, [key |-> item.key, val |-> item.val])
              /\ lastKey' = item.key
    <2>1. PICK n \in Nat : n = Len(out)
      BY DEF Output
    <2>2. PICK e \in Rows : e = [key |-> item.key, val |-> item.val]
      BY <1>3 DEF Rows
    <2>3. /\ out' \in Seq(Rows) /\ Len(out') = n + 1 /\ out'[n + 1] = e
          /\ \A j \in 1 .. n : out'[j] = out[j]
      <3>1. out \in Seq(Rows) /\ out' = Append(out, e)
        BY <1>14, <2>2 DEF Output
      <3> QED
        BY <2>1, <3>1, AppendProperties
    <2>4. e.key = item.key
      BY <2>2
    <2>5. ASSUME NEW p \in 1 .. Len(out'), NEW q \in 1 .. Len(out'), p < q
          PROVE  out'[p].key < out'[q].key
      <3>1. p \in 1 .. n
        BY <2>1, <2>3, <2>5
      <3>2. CASE q = n + 1
        BY <1>12, <2>1, <2>3, <2>4, <3>1, <3>2
      <3>3. CASE q # n + 1
        <4>1. q \in 1 .. n
          BY <2>3, <3>3
        <4>2. out[p].key < out[q].key
          BY <2>1, <2>5, <3>1, <4>1 DEF Output, Sorted
        <4> QED
          BY <2>3, <3>1, <4>1, <4>2
      <3> QED
        BY <3>2, <3>3
    <2>6. ASSUME NEW j \in 1 .. Len(out')
          PROVE  /\ \A a \in heap' : out'[j].key < a.key
                 /\ \E f \in Files : input[f][out'[j].key] # Absent
      <3>1. CASE j = n + 1
        BY <1>3, <1>9, <2>3, <2>4, <3>1
      <3>2. CASE j # n + 1
        <4>1. j \in 1 .. Len(out) /\ out'[j] = out[j]
          BY <2>1, <2>3, <3>2
        <4> QED
          BY <1>3, <1>9, <1>12, <4>1
      <3> QED
        BY <3>1, <3>2
    <2>7. out' # << >> /\ lastKey' = out'[Len(out')].key
      <3>1. Len(out') # 0
        BY <2>1, <2>3
      <3> QED
        BY <1>14, <2>3, <2>4, <3>1
    <2>8. Output'
      BY <1>1, <1>2, <2>3, <2>5, <2>6, <2>7 DEF Output, Sorted
    <2> QED
      BY <1>1, <1>10, <1>11, <2>8
  <1> QED
    BY <1>13, <1>14 DEF WriteItem

LEMMA MergeStep ==
  ASSUME MergeInv, [KmNext]_kmVars
  PROVE  MergeInv'
PROOF
  <1>1. CASE UNCHANGED kmVars
    <2>1. /\ Flushed' /\ Files' = Files /\ Item' = Item
          /\ \A j \in Files : Data(j)' = Data(j)
      BY <1>1, FlushedStays DEF MergeInv, kmVars
    <2>2. UNCHANGED <<input, l0Files, pc, opened, cursor, heap, item, lastKey, out, readError>>
      BY <1>1 DEF kmVars
    <2>3. MergeTypes'
      BY <2>1, <2>2 DEF MergeInv, MergeTypes
    <2>4. Heads'
      BY <2>2 DEF MergeInv, Heads, AtHead, HeapItem, Data
    <2>5. Output'
      BY <2>1, <2>2 DEF MergeInv, Output, Sorted
    <2> QED
      BY <2>1, <2>3, <2>4, <2>5 DEF MergeInv
  <1>2. CASE OpenFails \/ CreateFile \/ FinalizeSSTable \/ WriteFails
    BY <1>2, PcMerge DEF OpenFails, CreateFile, FinalizeSSTable, WriteFails
  <1> QED
    BY <1>1, <1>2, OpenIteratorMerge, PopItemMerge, DropDuplicateMerge, WriteItemMerge
    DEF KmNext

LEMMA MergeInvariant == KmSpec => []MergeInv
PROOF
  <1>1. KmInit => MergeInv
    BY MergeInitially
  <1>2. MergeInv /\ [KmNext]_kmVars => MergeInv'
    BY MergeStep
  <1> QED
    BY <1>1, <1>2, PTL DEF KmSpec

\* The merge keeps its variables in their types, the heap holds at most one head
\* of each iterator, and the file it writes is sorted with each key once, also
\* when opens, reads and writes fail (compactor.go:60-160).
THEOREM MergeSafe == KmSpec => []KmInv
PROOF
  <1>1. MergeInv => KmInv
    <2> SUFFICES ASSUME MergeInv PROVE KmInv
      OBVIOUS
    <2> USE DEF MergeInv
    <2>1. heap \subseteq Item
      BY AtHeadFacts DEF Heads
    <2>2. \A a, b \in heap : a.seq = b.seq => a = b
      BY DEF Heads, AtHead
    <2>3. out \in Seq([key : Keys, val : Mutation])
      BY DEF Output, Rows
    <2>4. lastKey \in Keys \cup {None}
      <3>1. CASE out = << >>
        BY <3>1 DEF Output
      <3>2. CASE out # << >>
        <4>1. Len(out) \in 1 .. Len(out)
          BY <2>3, <3>2, EmptySeq, LenProperties
        <4> QED
          BY <3>2, <4>1, RowFacts DEF Output
      <3> QED
        BY <3>1, <3>2
    <2>5. KmTypeOK
      BY <2>1, <2>2, <2>3, <2>4 DEF MergeTypes, KmTypeOK, Data
    <2>6. OutputSorted
      <3>1. ASSUME NEW i \in 2 .. Len(out) PROVE out[i - 1].key < out[i].key
        <4>1. i \in 1 .. Len(out) /\ i - 1 \in 1 .. Len(out) /\ i - 1 < i
          BY <2>3, LenProperties
        <4> QED
          BY <4>1 DEF Output, Sorted
      <3> QED
        BY <3>1 DEF OutputSorted
    <2> QED
      BY <2>5, <2>6 DEF KmInv
  <1> QED
    BY <1>1, MergeInvariant, PTL

-----------------------------------------------------------------------------
(* Nothing is lost on the way from the inputs to the output.               *)

\* What a newest-first search finds: the entry of the last file that has one.
LEMMA NewestIs ==
  ASSUME NEW k, NEW i \in Files, input[i][k] # Absent, Len(input) \in Nat,
         \A j \in Files : input[j][k] # Absent => j <= i
  PROVE  NewestEntry(k) = input[i][k]
PROOF
  <1> DEFINE S == {j \in Files : input[j][k] # Absent}
             x == CHOOSE m \in S : \A j \in S : j <= m
  <1>1. i \in S /\ \A j \in S : j <= i
    OBVIOUS
  <1>2. x \in S /\ \A j \in S : j <= x
    BY <1>1
  <1>3. NewestEntry(k) = IF S = {} THEN Absent ELSE input[x][k]
    BY DEF NewestEntry
  <1>4. x = i
    <2>1. x <= i /\ i <= x /\ x \in Files
      BY <1>1, <1>2
    <2> HIDE DEF x, S
    <2> QED
      BY <2>1 DEF Files
  <1> HIDE DEF x
  <1> QED
    BY <1>1, <1>3, <1>4

LEMMA NewestStays ==
  ASSUME NEW k, UNCHANGED input
  PROVE  NewestEntry(k)' = NewestEntry(k)
PROOF
  BY DEF NewestEntry, Files

\* Advancing iterator i without a fault: it waits again or is at its end, and
\* passes at most the entry it had delivered.
LEMMA AdvanceComplete ==
  ASSUME Flushed, MergeTypes, NEW i \in Files, NEW h, \A a \in h : a.seq # i,
         NextAndPush(i, h), ~ readError'
  PROVE  /\ ~ readError
         /\ InHeap(i)' \/ cursor'[i] = Len(Data(i))
         /\ \A n \in 1 .. Len(Data(i)) :
              n < cursor'[i] \/ (n = cursor'[i] /\ ~ InHeap(i)') => n <= cursor[i]
         /\ \A j \in Files \ {i} : /\ cursor'[j] = cursor[j]
                                   /\ InHeap(j)' <=> \E a \in h : a.seq = j
PROOF
  <1>1. cursor \in [Files -> Nat] /\ cursor[i] \in 0 .. Len(Data(i)) /\ Len(Data(i)) \in Nat
    BY FileFacts DEF MergeTypes
  <1>2. CASE /\ cursor[i] < Len(Data(i))
             /\ cursor' = [cursor EXCEPT ![i] = @ + 1]
             /\ heap' = h \cup {HeapItem(i, cursor[i] + 1)}
             /\ UNCHANGED readError
    <2>1. cursor[i] + 1 \in 1 .. Len(Data(i))
      BY <1>1, <1>2
    <2>2. PICK b : b = HeapItem(i, cursor[i] + 1)
      OBVIOUS
    <2>3. b.seq = i /\ b \in heap'
      BY <1>2, <2>1, <2>2, HeadFacts
    <2>4. cursor'[i] = cursor[i] + 1 /\ \A j \in Files \ {i} : cursor'[j] = cursor[j]
      BY <1>1, <1>2
    <2>5. InHeap(i)'
      BY <2>3 DEF InHeap
    <2>6. \A j \in Files \ {i} : InHeap(j)' <=> \E a \in h : a.seq = j
      BY <1>2, <2>2, <2>3 DEF InHeap
    <2>7. \A n \in 1 .. Len(Data(i)) : n < cursor'[i] => n <= cursor[i]
      BY <1>1, <2>4
    <2> QED
      BY <1>2, <2>4, <2>5, <2>6, <2>7
  <1>3. CASE cursor[i] = Len(Data(i)) /\ heap' = h /\ UNCHANGED <<cursor, readError>>
    <2>1. \A n \in 1 .. Len(Data(i)) : n <= cursor[i]
      BY <1>1, <1>3
    <2> QED
      BY <1>3, <2>1 DEF InHeap
  <1> QED
    BY <1>2, <1>3 DEF NextAndPush, Data

LEMMA CompleteInitially ==
  ASSUME KmInit
  PROVE  Complete
PROOF
  <1>1. Flushed /\ Len(input) \in Nat
    BY MergeInitially DEF MergeInv, Flushed
  <1>2. /\ opened = 0 /\ pc = "open" /\ heap = {}
        /\ \A i \in Files : cursor[i] = 0
    BY DEF KmInit
  <1>3. Delivering
    <2>1. \A i \in Files : ~ (i <= opened)
      BY <1>1, <1>2 DEF Files
    <2> QED
      BY <1>2, <2>1 DEF Delivering
  <1>4. Accounted
    <2>1. ASSUME NEW i \in Files, NEW n \in 1 .. Len(Data(i)) PROVE ~ Passed(i, n)
      BY <1>2 DEF Passed
    <2> QED
      BY <2>1 DEF Accounted
  <1>5. Newest
    BY <1>2 DEF Newest
  <1> QED
    BY <1>3, <1>4, <1>5 DEF Complete

\* A settled key stays settled while the output only grows.
LEMMA SettledStays ==
  ASSUME NEW k, Settled(k), UNCHANGED input,
         Len(out) \in Nat, Len(out') \in Nat, Len(out) <= Len(out'),
         \A j \in 1 .. Len(out) : out'[j] = out[j]
  PROVE  Settled(k)'
PROOF
  <1>1. NewestEntry(k)' = NewestEntry(k)
    BY NewestStays
  <1>2. CASE KeyLen[k] = 0
    BY <1>2 DEF Settled
  <1>3. ASSUME NEW j \in 1 .. Len(out), out[j] = [key |-> k, val |-> NewestEntry(k)]
        PROVE  Settled(k)'
    <2>1. j \in 1 .. Len(out') /\ out'[j] = [key |-> k, val |-> NewestEntry(k)']
      BY <1>1, <1>3
    <2> QED
      BY <2>1 DEF Settled
  <1> QED
    BY <1>2, <1>3 DEF Settled

LEMMA OpenIteratorComplete ==
  ASSUME MergeInv, MergeInv', Complete, OpenIterator, ~ readError'
  PROVE  Delivering' /\ Accounted' /\ Newest'
PROOF
  <1> USE DEF MergeInv
  <1>1. /\ Files' = Files /\ \A j \in Files : Data(j)' = Data(j) /\ Len(Data(j)) \in Nat
    BY FlushedStays, FileFacts DEF OpenIterator
  <1>2. PICK i : i = opened + 1
    OBVIOUS
  <1>3. i \in Files /\ opened' = i /\ pc = "open" /\ pc' = "open" /\ opened \in Nat
    <2>1. Len(input) \in Nat
      BY DEF Flushed
    <2> QED
      BY <1>2, <2>1 DEF OpenIterator, MergeTypes, Files
  <1>4. \A a \in heap : a.seq # i
    BY <1>2 DEF Heads, AtHead, MergeTypes
  <1>5. NextAndPush(i, heap)
    BY <1>2 DEF OpenIterator
  <1>6. /\ ~ readError
        /\ InHeap(i)' \/ cursor'[i] = Len(Data(i))
        /\ \A n \in 1 .. Len(Data(i)) :
             n < cursor'[i] \/ (n = cursor'[i] /\ ~ InHeap(i)') => n <= cursor[i]
        /\ \A j \in Files \ {i} : /\ cursor'[j] = cursor[j]
                                  /\ InHeap(j)' <=> \E a \in heap : a.seq = j
    BY <1>3, <1>4, <1>5, AdvanceComplete
  <1>7. Delivering /\ Accounted
    BY <1>3, <1>6 DEF Complete
  <1>8. cursor[i] = 0
    <2>1. ~ (i <= opened)
      BY <1>2, <1>3
    <2> QED
      BY <1>3, <1>7, <2>1 DEF Delivering
  <1>9. \A j \in Files \ {i} : Waiting(j)' = Waiting(j)
    BY <1>3, <1>6 DEF Waiting, InHeap
  <1>10. Waiting(i)' <=> InHeap(i)'
    BY <1>3 DEF Waiting, InHeap
  <1>11. Delivering'
    <2>1. ASSUME NEW j \in Files
          PROVE  IF j <= opened' THEN Waiting(j)' \/ cursor'[j] = Len(Data(j))
                                 ELSE cursor'[j] = 0
      <3>1. CASE j = i
        <4>1. i <= opened'
          BY <1>2, <1>3
        <4>2. Waiting(i)' \/ cursor'[i] = Len(Data(i))
          BY <1>6, <1>10
        <4> QED
          BY <3>1, <4>1, <4>2
      <3>2. CASE j # i
        <4>1. j \in Nat
          BY FileFacts
        <4>2. j <= opened' <=> j <= opened
          BY <1>2, <1>3, <3>2, <4>1
        <4> QED
          BY <1>6, <1>7, <1>9, <3>2, <4>2 DEF Delivering
      <3> QED
        BY <3>1, <3>2
    <2> QED
      BY <1>1, <1>3, <2>1 DEF Delivering
  <1>12. Accounted'
    <2>1. ASSUME NEW j \in Files, NEW n \in 1 .. Len(Data(j)), Passed(j, n)'
          PROVE  Settled(Data(j)[n].key)'
      <3>1. CASE j = i
        <4>1. n <= cursor[i]
          BY <1>6, <1>10, <2>1, <3>1 DEF Passed
        <4> QED
          BY <1>8, <4>1
      <3>2. CASE j # i
        <4>1. Passed(j, n)
          BY <1>6, <1>9, <2>1, <3>2 DEF Passed
        <4>2. Settled(Data(j)[n].key)
          BY <1>3, <1>7, <4>1 DEF Accounted
        <4>3. out' = out /\ Len(out) \in Nat /\ input' = input
          BY LenProperties DEF OpenIterator, Output
        <4>4. PICK k : k = Data(j)[n].key
          OBVIOUS
        <4>5. Settled(k)'
          BY <4>2, <4>3, <4>4, SettledStays
        <4> QED
          BY <1>1, <4>4, <4>5 DEF Settled
      <3> QED
        BY <3>1, <3>2
    <2>2. ASSUME NEW j \in Files, NEW n \in 1 .. Len(Data(j)')
          PROVE  Passed(j, n)' => Settled(Data(j)[n].key)'
      BY <1>1, <2>1 DEF Settled
    <2> QED
      BY <1>1, <2>2 DEF Accounted
  <1>13. Newest'
    BY <1>3 DEF Newest
  <1> QED
    BY <1>11, <1>12, <1>13

\* The steps to the next round or to the end of the merge.
LEMMA PcComplete ==
  ASSUME MergeInv, MergeInv', Complete, CreateFile \/ FinalizeSSTable, ~ readError'
  PROVE  Delivering' /\ Accounted' /\ Newest'
PROOF
  <1> USE DEF MergeInv
  <1>1. /\ pc # "write" /\ pc' # "write" /\ pc' # "open" /\ pc # "failed"
        /\ UNCHANGED <<input, l0Files, opened, cursor, heap, item, lastKey, out, readError>>
    BY DEF CreateFile, FinalizeSSTable
  <1>2. /\ Files' = Files /\ \A j \in Files : Data(j)' = Data(j)
    BY <1>1, FlushedStays
  <1>3. Delivering /\ Accounted
    BY <1>1 DEF Complete
  <1>4. \A j \in Files : Waiting(j)' = Waiting(j)
    BY <1>1 DEF Waiting, InHeap
  <1>5. Delivering'
    <2>1. opened = Len(input) /\ (pc' = "done" => heap = {})
      BY <1>3 DEF Delivering, CreateFile, FinalizeSSTable
    <2> QED
      BY <1>1, <1>2, <1>3, <1>4, <2>1 DEF Delivering
  <1>6. Accounted'
    <2>1. ASSUME NEW j \in Files, NEW n \in 1 .. Len(Data(j)'), Passed(j, n)'
          PROVE  Settled(Data(j)[n].key)'
      <3>1. Passed(j, n)
        BY <1>1, <1>4, <2>1 DEF Passed
      <3>2. Settled(Data(j)[n].key)
        BY <1>1, <1>2, <1>3, <3>1 DEF Accounted
      <3>3. Len(out) \in Nat
        BY LenProperties DEF Output
      <3>4. PICK k : k = Data(j)[n].key
        OBVIOUS
      <3>5. Settled(k)'
        BY <1>1, <3>2, <3>3, <3>4, SettledStays
      <3> QED
        BY <1>2, <3>4, <3>5 DEF Settled
    <2> QED
      BY <1>2, <2>1 DEF Accounted
  <1>7. Newest'
    BY <1>1 DEF Newest
  <1> QED
    BY <1>5, <1>6, <1>7

LEMMA PopItemComplete ==
  ASSUME MergeInv, MergeInv', Complete, PopItem, ~ readError'
  PROVE  Delivering' /\ Accounted' /\ Newest'
PROOF
  <1> USE DEF MergeInv
  <1>1. /\ Files' = Files /\ \A j \in Files : Data(j)' = Data(j)
    BY FlushedStays DEF PopItem
  <1>2. PICK t \in heap : t = Top(heap)
    BY TopOfHeap DEF PopItem, Heads
  <1>3. /\ AtHead(t) /\ t.key \in Nat /\ t.seq \in Files /\ t.seq \in Nat
        /\ t.val = input[t.seq][t.key] /\ t.val # Absent
        /\ \A b \in heap \ {t} : /\ b.seq # t.seq /\ t.key <= b.key
                                 /\ b.key = t.key => t.seq > b.seq
    <2>1. /\ AtHead(t)
          /\ \A b \in heap \ {t} : /\ b.seq # t.seq /\ t.key <= b.key
                                   /\ b.key = t.key => t.seq > b.seq
      BY <1>2, TopOfHeap DEF Heads
    <2> QED
      BY <2>1, AtHeadFacts
  <1>4. /\ item' = t /\ heap' = heap \ {t} /\ pc = "pop" /\ pc' = "write"
        /\ UNCHANGED <<input, l0Files, opened, cursor, lastKey, out, readError>>
    BY <1>2 DEF PopItem
  <1>5. Delivering /\ Accounted /\ opened = Len(input)
    BY <1>4 DEF Complete, Delivering
  <1>6. ASSUME NEW j \in Files PROVE Waiting(j)' = Waiting(j)
    <2>1. Waiting(j) = \E a \in heap : a.seq = j
      BY <1>4 DEF Waiting, InHeap
    <2>2. Waiting(j)' = ((\E a \in heap \ {t} : a.seq = j) \/ t.seq = j)
      BY <1>4 DEF Waiting, InHeap
    <2> QED
      BY <2>1, <2>2
  <1>7. Delivering'
    BY <1>1, <1>4, <1>5, <1>6 DEF Delivering
  <1>8. Accounted'
    <2>1. ASSUME NEW j \in Files, NEW n \in 1 .. Len(Data(j)'), Passed(j, n)'
          PROVE  Settled(Data(j)[n].key)'
      <3>1. Passed(j, n)
        BY <1>4, <1>6, <2>1 DEF Passed
      <3>2. Settled(Data(j)[n].key)
        BY <1>1, <1>4, <1>5, <3>1 DEF Accounted
      <3>3. Len(out) \in Nat
        BY LenProperties DEF Output
      <3>4. PICK k : k = Data(j)[n].key
        OBVIOUS
      <3>5. Settled(k)'
        BY <1>4, <3>2, <3>3, <3>4, SettledStays
      <3> QED
        BY <1>1, <3>4, <3>5 DEF Settled
    <2> QED
      BY <1>1, <2>1 DEF Accounted
  <1>9. PICK k : k = t.key
    OBVIOUS
  <1>10. ASSUME KeyLen[k] # 0, NEW j \in Files, input[j][k] # Absent
         PROVE  j <= t.seq
    <2>1. /\ Enumerates(Data(j), input[j]) /\ Sorted(Data(j)) /\ j \in Nat
          /\ Data(j) \in Seq(Rows) /\ Len(Data(j)) \in Nat /\ Len(input) \in Nat
      BY FileFacts
    <2>2. k \in Keys /\ k \in Nat
      BY <1>3, <1>9, AtHeadFacts
    <2>3. PICK n \in 1 .. Len(Data(j)) : Data(j)[n].key = k
      BY <1>10, <2>1, <2>2 DEF Enumerates
    <2>4. ~ Passed(j, n)
      <3> SUFFICES ASSUME Passed(j, n) PROVE FALSE
        OBVIOUS
      <3>1. Settled(k)
        BY <1>4, <1>5, <2>3 DEF Accounted
      <3>2. PICK m \in 1 .. Len(out) : out[m] = [key |-> k, val |-> NewestEntry(k)]
        BY <1>10, <3>1 DEF Settled
      <3>3. out[m].key < t.key
        BY DEF Output
      <3> QED
        BY <1>9, <2>2, <3>2, <3>3
    <2>5. cursor[j] \in Nat /\ cursor[j] <= n /\ Waiting(j)
      <3>1. cursor[j] \in 0 .. Len(Data(j)) /\ cursor[j] \in Nat
        BY <2>1 DEF MergeTypes
      <3>2. cursor[j] <= n /\ (n = cursor[j] => Waiting(j))
        BY <2>4, <3>1 DEF Passed
      <3>3. n # cursor[j] => Waiting(j)
        <4>1. j <= opened
          BY <1>5, <2>1 DEF Files
        <4>2. n # cursor[j] => cursor[j] # Len(Data(j))
          BY <2>1, <3>1, <3>2
        <4> QED
          BY <1>5, <4>1, <4>2 DEF Delivering
      <3> QED
        BY <3>1, <3>2, <3>3
    <2>6. PICK b \in heap : b.seq = j
      BY <1>4, <2>5 DEF Waiting, InHeap
    <2>7. /\ AtHead(b) /\ b.key \in Nat /\ cursor[j] \in 1 .. Len(Data(j))
          /\ b.key = Data(j)[cursor[j]].key
      <3>1. AtHead(b)
        BY DEF Heads
      <3> QED
        BY <2>6, <3>1, AtHeadFacts
    <2>8. b.key <= k
      <3>1. CASE cursor[j] = n
        BY <2>2, <2>3, <2>7, <3>1
      <3>2. CASE cursor[j] # n
        <4>1. cursor[j] < n
          BY <2>5, <3>2
        <4>2. Data(j)[cursor[j]].key < Data(j)[n].key
          BY <2>7, <4>1, NextGreater
        <4> QED
          BY <2>2, <2>3, <2>7, <4>2
      <3> QED
        BY <3>1, <3>2
    <2>9. CASE b = t
      BY <1>3, <2>6, <2>9
    <2>10. CASE b # t
      <3>1. t.key <= b.key /\ (b.key = t.key => t.seq > b.seq)
        BY <1>3, <2>10
      <3>2. b.key = t.key
        BY <1>3, <1>9, <2>7, <2>8, <3>1
      <3> QED
        BY <1>3, <2>1, <2>6, <3>1, <3>2
    <2> QED
      BY <2>9, <2>10
  <1>11. Newest'
    <2>1. KeyLen[k] # 0 => NewestEntry(k) = input[t.seq][k]
      <3>1. input[t.seq][k] # Absent /\ Len(input) \in Nat
        BY <1>3, <1>9 DEF Flushed
      <3> QED
        BY <1>3, <1>10, <3>1, NewestIs
    <2>2. NewestEntry(k)' = NewestEntry(k)
      BY <1>4, NewestStays
    <2>3. item'.key = k /\ item'.val = input[t.seq][k]
      BY <1>3, <1>4, <1>9
    <2>4. item'.val = NewestEntry(k)' \/ KeyLen[k] = 0
      BY <2>1, <2>2, <2>3
    <2>5. NewestEntry(item.key)' = NewestEntry(k)'
      BY <2>3 DEF NewestEntry
    <2> QED
      BY <2>3, <2>4, <2>5 DEF Newest
  <1> QED
    BY <1>7, <1>8, <1>11

\* Advancing the iterator i whose entry, of key k, has been dealt with.
LEMMA AdvancePasses ==
  ASSUME Flushed, MergeTypes, Delivering, opened' = opened, pc # "open", pc' # "open",
         pc' # "done", UNCHANGED <<input, l0Files>>, ~ readError',
         NEW i \in Files, NEW h, \A a \in h : a.seq # i, NextAndPush(i, h),
         ~ (pc' = "write" /\ item'.seq = i),
         \A j \in Files \ {i} : Waiting(j) <=>
            (\E a \in h : a.seq = j) \/ (pc' = "write" /\ item'.seq = j)
  PROVE  /\ Delivering'
         /\ \A j \in Files : \A n \in 1 .. Len(Data(j)) : Passed(j, n)' =>
              Passed(j, n) \/ (j = i /\ n = cursor[i])
PROOF
  <1>1. /\ Files' = Files /\ \A j \in Files : Data(j)' = Data(j) /\ j \in Nat
        /\ Len(input) \in Nat
    BY FlushedStays, FileFacts DEF Flushed
  <1>2. /\ InHeap(i)' \/ cursor'[i] = Len(Data(i))
        /\ \A n \in 1 .. Len(Data(i)) :
             n < cursor'[i] \/ (n = cursor'[i] /\ ~ InHeap(i)') => n <= cursor[i]
        /\ \A j \in Files \ {i} : /\ cursor'[j] = cursor[j]
                                  /\ InHeap(j)' <=> \E a \in h : a.seq = j
    BY AdvanceComplete
  <1>3. \A j \in Files \ {i} : Waiting(j)' <=> Waiting(j)
    BY <1>2 DEF Waiting
  <1>4. Waiting(i)' <=> InHeap(i)'
    BY DEF Waiting
  <1>5. opened' = Len(input) /\ opened = Len(input)
    BY DEF Delivering
  <1>6. Delivering'
    <2>1. ASSUME NEW j \in Files
          PROVE  j <= opened' /\ (Waiting(j)' \/ cursor'[j] = Len(Data(j)))
      <3>1. j <= opened' /\ j <= opened
        BY <1>1, <1>5 DEF Files
      <3>2. CASE j = i
        BY <1>2, <1>4, <3>1, <3>2
      <3>3. CASE j # i
        BY <1>2, <1>3, <3>1, <3>3 DEF Delivering
      <3> QED
        BY <3>2, <3>3, <3>1
    <2> QED
      BY <1>1, <1>5, <2>1 DEF Delivering
  <1>7. ASSUME NEW j \in Files, NEW n \in 1 .. Len(Data(j)), Passed(j, n)'
        PROVE  Passed(j, n) \/ (j = i /\ n = cursor[i])
    <2>1. CASE j = i
      <3>1. n <= cursor[i] /\ cursor[i] \in Nat
        BY <1>2, <1>4, <1>7, <2>1 DEF Passed, MergeTypes
      <3> QED
        BY <2>1, <3>1 DEF Passed
    <2>2. CASE j # i
      BY <1>2, <1>3, <1>7, <2>2 DEF Passed
    <2> QED
      BY <2>1, <2>2
  <1> QED
    BY <1>6, <1>7

LEMMA DropDuplicateComplete ==
  ASSUME MergeInv, MergeInv', Complete, DropDuplicate, ~ readError'
  PROVE  Delivering' /\ Accounted' /\ Newest'
PROOF
  <1> USE DEF MergeInv
  <1>1. /\ Files' = Files /\ \A j \in Files : Data(j)' = Data(j)
    BY FlushedStays DEF DropDuplicate
  <1>2. PICK t \in heap : t = Top(heap)
    BY TopOfHeap DEF DropDuplicate, OlderDuplicate, Heads
  <1>3. /\ t.seq \in Files /\ t.key = Data(t.seq)[cursor[t.seq]].key
        /\ \A b \in heap \ {t} : b.seq # t.seq
    <2>1. AtHead(t) /\ \A b \in heap \ {t} : b.seq # t.seq
      BY <1>2, TopOfHeap DEF Heads
    <2> QED
      BY <2>1, AtHeadFacts
  <1>4. PICK i \in Files : i = t.seq
    BY <1>3
  <1>5. /\ pc = "write" /\ pc' = "write" /\ item' = item /\ out' = out
        /\ t.key = item.key /\ UNCHANGED <<input, l0Files, opened>>
        /\ item.seq # i /\ NextAndPush(i, heap \ {t})
    BY <1>2, <1>4 DEF DropDuplicate, OlderDuplicate, Heads
  <1>6. ~ readError
    BY <1>3, <1>4, <1>5, AdvanceComplete
  <1>7. Delivering /\ Accounted /\ Newest
    BY <1>5, <1>6 DEF Complete
  <1>8. \A j \in Files \ {i} : Waiting(j) <=>
          (\E a \in heap \ {t} : a.seq = j) \/ (pc' = "write" /\ item'.seq = j)
    BY <1>4, <1>5 DEF Waiting, InHeap
  <1>9. /\ Delivering'
        /\ \A j \in Files : \A n \in 1 .. Len(Data(j)) : Passed(j, n)' =>
             Passed(j, n) \/ (j = i /\ n = cursor[i])
    <2>1. /\ \A a \in heap \ {t} : a.seq # i
          /\ ~ (pc' = "write" /\ item'.seq = i)
          /\ opened' = opened /\ pc # "open" /\ pc' # "open" /\ pc' # "done"
          /\ UNCHANGED <<input, l0Files>> /\ NextAndPush(i, heap \ {t})
      BY <1>3, <1>4, <1>5
    <2> QED
      BY <1>7, <1>8, <2>1, AdvancePasses
  <1>10. Accounted'
    <2>1. ASSUME NEW j \in Files, NEW n \in 1 .. Len(Data(j)'), Passed(j, n)'
          PROVE  Settled(Data(j)[n].key)' \/ Data(j)[n].key' = item'.key
      <3>1. PICK k : k = Data(j)[n].key
        OBVIOUS
      <3>2. Data(j)[n].key' = k
        BY <1>1, <3>1
      <3>3. CASE j = i /\ n = cursor[i]
        BY <1>3, <1>4, <1>5, <3>1, <3>2, <3>3
      <3>4. CASE Passed(j, n)
        <4>1. Settled(k) \/ k = item.key
          BY <1>1, <1>7, <3>1, <3>4 DEF Accounted
        <4>2. Len(out) \in Nat
          BY LenProperties DEF Output
        <4>3. Settled(k) => Settled(k)'
          BY <1>5, <4>2, SettledStays
        <4>4. Settled(k)' => Settled(Data(j)[n].key)'
          BY <3>2 DEF Settled
        <4> QED
          BY <1>5, <3>2, <4>1, <4>3, <4>4
      <3> QED
        BY <1>1, <1>9, <2>1, <3>3, <3>4
    <2> QED
      BY <1>1, <1>5, <2>1 DEF Accounted
  <1>11. Newest'
    <2>1. PICK k : k = item.key
      OBVIOUS
    <2>2. NewestEntry(k)' = NewestEntry(k)
      BY <1>5, NewestStays
    <2>3. NewestEntry(item.key)' = NewestEntry(k)' /\ NewestEntry(item.key) = NewestEntry(k)
      BY <1>5, <2>1 DEF NewestEntry
    <2> QED
      BY <1>5, <1>7, <2>2, <2>3 DEF Newest
  <1> QED
    BY <1>9, <1>10, <1>11

LEMMA WriteItemComplete ==
  ASSUME MergeInv, MergeInv', Complete, WriteItem, ~ readError'
  PROVE  Delivering' /\ Accounted' /\ Newest'
PROOF
  <1> USE DEF MergeInv
  <1>1. /\ Files' = Files /\ \A j \in Files : Data(j)' = Data(j)
    BY FlushedStays DEF WriteItem
  <1>2. /\ pc = "write" /\ pc' = "pop" /\ item' = NoItem
        /\ UNCHANGED <<input, l0Files, opened>>
    BY DEF WriteItem
  <1>3. /\ item.seq \in Files /\ item.key = Data(item.seq)[cursor[item.seq]].key
        /\ item.key \in Keys /\ item.key \in Nat
        /\ \A a \in heap : a.seq # item.seq
    BY <1>2, AtHeadFacts DEF Heads
  <1>4. PICK i \in Files : i = item.seq
    BY <1>3
  <1>5. PICK k : k = item.key
    OBVIOUS
  <1>6. NextAndPush(i, heap) /\ \A a \in heap : a.seq # i
    BY <1>3, <1>4 DEF WriteItem
  <1>7. ~ readError
    BY <1>6, AdvanceComplete
  <1>8. Delivering /\ Accounted /\ Newest
    BY <1>2, <1>7 DEF Complete
  <1>9. \A j \in Files \ {i} : Waiting(j) <=>
          (\E a \in heap : a.seq = j) \/ (pc' = "write" /\ item'.seq = j)
    BY <1>2, <1>4 DEF Waiting, InHeap
  <1>10. /\ Delivering'
         /\ \A j \in Files : \A n \in 1 .. Len(Data(j)) : Passed(j, n)' =>
              Passed(j, n) \/ (j = i /\ n = cursor[i])
    <2>1. /\ ~ (pc' = "write" /\ item'.seq = i)
          /\ opened' = opened /\ pc # "open" /\ pc' # "open" /\ pc' # "done"
          /\ UNCHANGED <<input, l0Files>>
      BY <1>2
    <2> QED
      BY <1>6, <1>8, <1>9, <2>1, AdvancePasses
  <1>11. item.val = NewestEntry(k) \/ KeyLen[k] = 0
    BY <1>2, <1>5, <1>8 DEF Newest
  <1>12. /\ Len(out) \in Nat /\ Len(out') \in Nat /\ Len(out) <= Len(out')
         /\ \A j \in 1 .. Len(out) : out'[j] = out[j]
         /\ Settled(k)'
    <2>1. out \in Seq(Rows) /\ Len(out) \in Nat
      BY LenProperties DEF Output
    <2>2. CASE SameBytes(lastKey, item.key)
      <3>1. out' = out
        BY <2>2 DEF WriteItem
      <3>2. lastKey # item.key
        <4>1. CASE out = << >>
          BY <1>3, <4>1, KeyFacts DEF Output
        <4>2. CASE out # << >>
          <5>1. Len(out) \in 1 .. Len(out)
            BY <2>1, <4>2, EmptySeq, LenProperties
          <5>2. out[Len(out)].key < item.key /\ out[Len(out)].key \in Nat
            BY <1>2, <2>1, <5>1, RowFacts DEF Output
          <5>3. lastKey = out[Len(out)].key
            BY <4>2 DEF Output
          <5> QED
            BY <1>3, <5>2, <5>3
        <4> QED
          BY <4>1, <4>2
      <3>3. KeyLen[k] = 0
        BY <1>5, <2>2, <3>2 DEF SameBytes
      <3> QED
        BY <2>1, <3>1, <3>3 DEF Settled
    <2>3. CASE ~ SameBytes(lastKey, item.key)
      <3>1. PICK e : e = [key |-> k, val |-> item.val]
        OBVIOUS
      <3>2. out' = Append(out, e)
        BY <1>5, <2>3, <3>1 DEF WriteItem
      <3>3. e \in Rows
        <4>1. item \in Item /\ item.val \in Mutation
          <5>1. item \in Item
            BY <1>2, AtHeadFacts DEF Heads
          <5> QED
            BY <5>1 DEF Item
        <4> QED
          BY <1>3, <1>5, <3>1, <4>1 DEF Rows
      <3>4. /\ Len(out') = Len(out) + 1 /\ out'[Len(out) + 1] = e
            /\ \A j \in 1 .. Len(out) : out'[j] = out[j]
        BY <2>1, <3>2, <3>3, AppendProperties
      <3>5. NewestEntry(k)' = NewestEntry(k)
        BY <1>2, NewestStays
      <3>6. Settled(k)'
        <4>1. CASE KeyLen[k] = 0
          BY <4>1 DEF Settled
        <4>2. CASE KeyLen[k] # 0
          <5>1. out'[Len(out) + 1] = [key |-> k, val |-> NewestEntry(k)']
            BY <1>11, <3>1, <3>4, <3>5, <4>2
          <5>2. Len(out) + 1 \in 1 .. Len(out')
            BY <2>1, <3>4
          <5> QED
            BY <5>1, <5>2 DEF Settled
        <4> QED
          BY <4>1, <4>2
      <3> QED
        BY <2>1, <3>4, <3>6
    <2> QED
      BY <2>2, <2>3
  <1>13. Accounted'
    <2>1. ASSUME NEW j \in Files, NEW n \in 1 .. Len(Data(j)'), Passed(j, n)'
          PROVE  Settled(Data(j)[n].key)'
      <3>1. PICK l : l = Data(j)[n].key
        OBVIOUS
      <3>2. Data(j)[n].key' = l
        BY <1>1, <3>1
      <3>3. Settled(l)' => Settled(Data(j)[n].key)'
        BY <3>2 DEF Settled
      <3>4. CASE l = k
        BY <1>12, <3>3, <3>4
      <3>5. CASE l # k
        <4>1. Passed(j, n)
          BY <1>1, <1>3, <1>4, <1>5, <1>10, <2>1, <3>1, <3>5
        <4>2. Settled(l)
          BY <1>1, <1>5, <1>8, <3>1, <3>5, <4>1 DEF Accounted
        <4> QED
          BY <1>2, <1>12, <3>3, <4>2, SettledStays
      <3> QED
        BY <3>4, <3>5
    <2> QED
      BY <1>1, <2>1 DEF Accounted
  <1>14. Newest'
    BY <1>2 DEF Newest
  <1> QED
    BY <1>10, <1>13, <1>14

LEMMA CompleteStep ==
  ASSUME MergeInv, MergeInv', Complete, [KmNext]_kmVars
  PROVE  Complete'
PROOF
  <1>1. CASE UNCHANGED kmVars
    <2>1. UNCHANGED <<input, l0Files, pc, opened, cursor, heap, item, lastKey, out, readError>>
      BY <1>1 DEF kmVars
    <2>2. Files' = Files /\ \A k : NewestEntry(k)' = NewestEntry(k)
      BY <2>1, NewestStays DEF Files
    <2>3. Delivering' = Delivering
      BY <2>1, <2>2 DEF Delivering, Waiting, InHeap, Data
    <2>4. \A k : Settled(k)' = Settled(k)
      BY <2>1, <2>2 DEF Settled
    <2>5. Accounted' = Accounted
      BY <2>1, <2>2, <2>4 DEF Accounted, Passed, Waiting, InHeap, Data
    <2>6. Newest' = Newest
      BY <2>1, <2>2 DEF Newest
    <2> QED
      BY <2>1, <2>3, <2>5, <2>6 DEF Complete
  <1>2. CASE OpenFails \/ WriteFails
    BY <1>2 DEF OpenFails, WriteFails, Complete
  <1> SUFFICES ASSUME ~ readError' PROVE Complete'
    BY DEF Complete
  <1>3. CASE OpenIterator
    BY <1>3, OpenIteratorComplete DEF Complete
  <1>4. CASE CreateFile \/ FinalizeSSTable
    BY <1>4, PcComplete DEF Complete
  <1>5. CASE PopItem
    BY <1>5, PopItemComplete DEF Complete
  <1>6. CASE DropDuplicate
    BY <1>6, DropDuplicateComplete DEF Complete
  <1>7. CASE WriteItem
    BY <1>7, WriteItemComplete DEF Complete
  <1> QED
    BY <1>1, <1>2, <1>3, <1>4, <1>5, <1>6, <1>7 DEF KmNext

LEMMA NothingLost == KmSpec => []Complete
PROOF
  <1>1. KmInit => Complete
    BY CompleteInitially
  <1>2. MergeInv /\ MergeInv' /\ Complete /\ [KmNext]_kmVars => Complete'
    BY CompleteStep
  <1> QED
    BY <1>1, <1>2, MergeInvariant, PTL DEF KmSpec

-----------------------------------------------------------------------------
(* The bytes of a file: offsets, sparse index and Bloom filter.            *)

LEMMA SizeFacts ==
  ASSUME NEW e \in Rows
  PROVE  EntrySize(e) \in Nat /\ EntrySize(e) >= 7
PROOF
  <1>1. e.key \in Keys /\ e.val \in Mutation
    BY DEF Rows
  <1>2. KeyLen[e.key] \in Nat
    <2>1. KeyLen \in [Keys -> 0 .. MaxUint16]
      BY SSTableAssumption
    <2> QED
      BY <1>1, <2>1
  <1>3. e.val # Tomb => ValLen[e.val] \in Nat
    <2>1. ValLen \in [Values -> Nat \ {0}]
      BY SSTableAssumption
    <2> QED
      BY <1>1, <2>1 DEF Mutation
  <1> QED
    BY <1>2, <1>3 DEF EntrySize

\* Each entry begins where the one before it ends, the first at 0.
LEMMA OffsetsAre ==
  ASSUME NEW s \in Seq(Rows)
  PROVE  /\ Offsets(s) \in [1 .. Len(s) + 1 -> Nat] /\ Offsets(s)[1] = 0
         /\ \A i \in 1 .. Len(s) : Offsets(s)[i + 1] = Offsets(s)[i] + EntrySize(s[i])
PROOF
  <1>1. PICK n \in Nat : n = Len(s)
    BY LenProperties
  <1>2. \A i \in 1 .. n : EntrySize(s[i]) \in Nat
    BY <1>1, RowFacts, SizeFacts
  <1>3. PICK size \in [1 .. n -> Nat] : \A i \in 1 .. n : size[i] = EntrySize(s[i])
    <2>1. PICK size : size = [i \in 1 .. n |-> EntrySize(s[i])]
      OBVIOUS
    <2> QED
      BY <1>2, <2>1
  <1> DEFINE Sol(f) == f = [i \in 1 .. n + 1 |-> IF i = 1 THEN 0 ELSE f[i - 1] + EntrySize(s[i - 1])]
             at == CHOOSE f : Sol(f)
  <1>4. Offsets(s) = at
    BY <1>1 DEF Offsets
  <1>5. \E f : Sol(f)
    <2>1. PICK g : g = [i \in 1 .. n |-> [x \in Nat |-> x + size[i]]]
      OBVIOUS
    <2>2. g \in [1 .. n -> [Nat -> Nat]] /\ 0 \in Nat
      BY <2>1
    <2>3. PICK h \in [0 .. n -> Nat] : h[0] = 0 /\ \A i \in 1 .. n : h[i] = g[i][h[i - 1]]
      <3>1. \E h : Iterates(h, n, Nat, 0, g)
        BY <2>2, Recursion
      <3> QED
        BY <3>1 DEF Iterates
    <2>4. PICK f : f = [i \in 1 .. n + 1 |-> h[i - 1]]
      OBVIOUS
    <2>5. ASSUME NEW i \in 1 .. n + 1, i # 1 PROVE f[i] = f[i - 1] + EntrySize(s[i - 1])
      <3>1. i - 1 \in 1 .. n /\ i - 1 \in 1 .. n + 1 /\ (i - 1) - 1 \in 0 .. n /\ h[(i - 1) - 1] \in Nat
        BY <2>5
      <3>2. f[i] = h[i - 1] /\ f[i - 1] = h[(i - 1) - 1]
        BY <2>4, <3>1
      <3>3. h[i - 1] = h[(i - 1) - 1] + size[i - 1]
        <4>1. h[i - 1] = g[i - 1][h[(i - 1) - 1]]
          BY <2>3, <3>1
        <4> QED
          BY <2>1, <3>1, <4>1
      <3> QED
        BY <1>3, <3>1, <3>2, <3>3
    <2>6. 1 \in 1 .. n + 1 /\ f[1] = 0
      BY <2>3, <2>4
    <2>7. Sol(f)
      <3>1. f = [i \in 1 .. n + 1 |-> f[i]]
        BY <2>4
      <3>2. \A i \in 1 .. n + 1 : f[i] = IF i = 1 THEN 0 ELSE f[i - 1] + EntrySize(s[i - 1])
        BY <2>5, <2>6
      <3> QED
        BY <3>1, <3>2
    <2> QED
      BY <2>7
  <1>6. Sol(at)
    <2> HIDE DEF Sol
    <2> QED
      BY <1>5
  <1>7. at = [i \in 1 .. n + 1 |-> IF i = 1 THEN 0 ELSE at[i - 1] + EntrySize(s[i - 1])]
    BY <1>6
  <1> HIDE DEF at, Sol
  <1>8. at[1] = 0
    <2>1. 1 \in 1 .. n + 1
      OBVIOUS
    <2> QED
      BY <1>7, <2>1
  <1>9. ASSUME NEW i \in 1 .. n PROVE at[i + 1] = at[i] + EntrySize(s[i])
    <2>1. i + 1 \in 1 .. n + 1 /\ i + 1 # 1 /\ (i + 1) - 1 = i
      OBVIOUS
    <2>2. at[i + 1] = at[(i + 1) - 1] + EntrySize(s[(i + 1) - 1])
      BY <1>7, <2>1
    <2> QED
      BY <2>1, <2>2
  <1>10. \A i \in 1 .. n + 1 : at[i] \in Nat
    <2>1. PICK T : T = {m \in 0 .. n : at[m + 1] \in Nat}
      OBVIOUS
    <2>2. 0 \in T
      BY <1>8, <2>1
    <2>3. ASSUME NEW m \in 0 .. n - 1, m \in T PROVE m + 1 \in T
      <3>1. m + 1 \in 1 .. n /\ m + 1 \in 0 .. n /\ at[m + 1] \in Nat
        BY <2>1, <2>3
      <3>2. at[(m + 1) + 1] \in Nat
        BY <1>2, <1>9, <3>1
      <3> QED
        BY <2>1, <3>1, <3>2
    <2>4. \A m \in 0 .. n : m \in T
      BY <2>2, <2>3, Upward
    <2>5. ASSUME NEW i \in 1 .. n + 1 PROVE at[i] \in Nat
      <3>1. i - 1 \in 0 .. n /\ (i - 1) + 1 = i
        OBVIOUS
      <3> QED
        BY <2>1, <2>4, <3>1
    <2> QED
      BY <2>5
  <1>11. at \in [1 .. n + 1 -> Nat]
    <2>1. at = [i \in 1 .. n + 1 |-> at[i]]
      BY <1>7
    <2> QED
      BY <1>10, <2>1
  <1> QED
    BY <1>1, <1>4, <1>8, <1>9, <1>11

LEMMA OffsetsAscend ==
  ASSUME NEW s \in Seq(Rows)
  PROVE  \A i, j \in 1 .. Len(s) + 1 : i < j => Offsets(s)[i] < Offsets(s)[j]
PROOF
  <1>1. PICK n \in Nat : n = Len(s)
    BY LenProperties
  <1>2. PICK at \in [1 .. n + 1 -> Nat] : at = Offsets(s)
    BY <1>1, OffsetsAre
  <1>3. \A i \in 1 .. n : at[i] < at[i + 1]
    <2>1. ASSUME NEW i \in 1 .. n PROVE at[i] < at[i + 1]
      <3>1. at[i + 1] = at[i] + EntrySize(s[i])
        BY <1>1, <1>2, OffsetsAre
      <3>2. EntrySize(s[i]) \in Nat /\ EntrySize(s[i]) >= 7
        BY <1>1, RowFacts, SizeFacts
      <3> QED
        BY <3>1, <3>2
    <2> QED
      BY <2>1
  <1>4. PICK T : T = {m \in 0 .. n : \A i \in 1 .. m : at[i] < at[m + 1]}
    OBVIOUS
  <1>5. 0 \in T
    BY <1>4
  <1>6. ASSUME NEW m \in 0 .. n - 1, m \in T PROVE m + 1 \in T
    <2>1. m + 1 \in 1 .. n /\ m + 1 \in 0 .. n /\ at[m + 1] < at[(m + 1) + 1]
      BY <1>3
    <2>2. ASSUME NEW i \in 1 .. m + 1 PROVE at[i] < at[(m + 1) + 1]
      <3>1. CASE i = m + 1
        BY <2>1, <3>1
      <3>2. CASE i # m + 1
        <4>1. i \in 1 .. m /\ at[i] < at[m + 1]
          BY <1>4, <1>6, <3>2
        <4>2. at[i] \in Nat /\ at[m + 1] \in Nat /\ at[(m + 1) + 1] \in Nat
          BY <2>1
        <4> QED
          BY <2>1, <4>1, <4>2
      <3> QED
        BY <3>1, <3>2
    <2> QED
      BY <1>4, <2>1, <2>2
  <1>7. \A m \in 0 .. n : m \in T
    BY <1>5, <1>6, Upward
  <1>8. ASSUME NEW i \in 1 .. n + 1, NEW j \in 1 .. n + 1, i < j PROVE at[i] < at[j]
    <2>1. j - 1 \in 0 .. n /\ (j - 1) + 1 = j /\ i \in 1 .. j - 1
      BY <1>8
    <2> QED
      BY <1>4, <1>7, <2>1
  <1> QED
    BY <1>1, <1>2, <1>8

IndexEntry == [key : Keys, off : Nat]

\* The index entries of the first n entries of s: keys and offsets of some of
\* them, the very first included.
Indexes(idx, s, n) ==
  /\ idx \in Seq(IndexEntry)
  /\ \A m \in 1 .. Len(idx) :
       \E p \in 1 .. n : idx[m] = [key |-> s[p].key, off |-> Offsets(s)[p]]
  /\ n > 0 => idx # << >> /\ idx[1].off = 0

LEMMA IndexIs ==
  ASSUME NEW s \in Seq(Rows)
  PROVE  Indexes(SparseIndex(s), s, Len(s))
PROOF
  <1>1. PICK n \in Nat : n = Len(s)
    BY LenProperties
  <1>2. PICK at \in [1 .. n + 1 -> Nat] : at = Offsets(s) /\ at[1] = 0
    BY <1>1, OffsetsAre
  <1>3. ASSUME NEW i \in 1 .. n
        PROVE  [key |-> s[i].key, off |-> at[i]] \in IndexEntry /\ at[i] \in Nat
    <2>1. i \in 1 .. n + 1
      OBVIOUS
    <2>2. at[i] \in Nat
      BY <2>1
    <2>3. s[i].key \in Keys
      BY <1>1, RowFacts
    <2> QED
      BY <2>2, <2>3 DEF IndexEntry
  <1> DEFINE None0 == [last |-> 0, index |-> << >>]
             V == [last : Nat, index : Seq(IndexEntry)]
             With(i, p) == IF DueForIndex(at[i], p.last)
                           THEN [last  |-> at[i],
                                 index |-> Append(p.index, [key |-> s[i].key, off |-> at[i]])]
                           ELSE p
             Sol(f) == f = [i \in 0 .. n |-> IF i = 0 THEN None0 ELSE With(i, f[i - 1])]
             upto == CHOOSE f : Sol(f)
  <1>4. SparseIndex(s) = upto[n].index
    BY <1>1, <1>2 DEF SparseIndex
  <1>5. None0 \in V
    OBVIOUS
  <1>6. \A i \in 1 .. n : \A p \in V : With(i, p) \in V
    <2>1. ASSUME NEW i \in 1 .. n, NEW p \in V PROVE With(i, p) \in V
      <3>1. p.index \in Seq(IndexEntry)
        OBVIOUS
      <3>2. PICK e \in IndexEntry : e = [key |-> s[i].key, off |-> at[i]]
        BY <1>3
      <3>3. Append(p.index, e) \in Seq(IndexEntry)
        BY <3>1, AppendProperties
      <3> QED
        BY <1>3, <3>2, <3>3
    <2> QED
      BY <2>1
  <1> HIDE DEF With, V, None0
  <1>7. PICK h : h \in [0 .. n -> V] /\ h[0] = None0 /\ \A i \in 1 .. n : h[i] = With(i, h[i - 1])
    <2>1. PICK g : g = [i \in 1 .. n |-> [p \in V |-> With(i, p)]]
      OBVIOUS
    <2>2. g \in [1 .. n -> [V -> V]]
      BY <1>6, <2>1
    <2>3. PICK h : Iterates(h, n, V, None0, g)
      BY <1>5, <2>2, Recursion
    <2>4. ASSUME NEW i \in 1 .. n PROVE h[i] = With(i, h[i - 1])
      <3>1. h[i] = g[i][h[i - 1]] /\ h[i - 1] \in V
        BY <2>3 DEF Iterates
      <3> QED
        BY <2>1, <3>1
    <2> QED
      BY <2>3, <2>4 DEF Iterates
  <1>8. Sol(h)
    <2>1. h = [i \in 0 .. n |-> h[i]]
      BY <1>7
    <2>2. \A i \in 0 .. n : h[i] = IF i = 0 THEN None0 ELSE With(i, h[i - 1])
      BY <1>7
    <2> QED
      BY <2>1, <2>2
  <1>9. Sol(upto)
    <2> HIDE DEF Sol
    <2> QED
      BY <1>8
  <1>10. upto = [i \in 0 .. n |-> IF i = 0 THEN None0 ELSE With(i, upto[i - 1])]
    BY <1>9
  <1> HIDE DEF upto, Sol
  <1>11. upto[0] = None0 /\ \A i \in 1 .. n : upto[i] = With(i, upto[i - 1])
    <2>1. 0 \in 0 .. n /\ \A i \in 1 .. n : i \in 0 .. n /\ i # 0
      OBVIOUS
    <2> QED
      BY <1>10, <2>1, Zenon
  <1>12. PICK T : T = {m \in 0 .. n : upto[m] \in V /\ Indexes(upto[m].index, s, m)}
    OBVIOUS
  <1>13. 0 \in T
    <2>1. upto[0].index = << >>
      BY <1>11 DEF None0
    <2>2. Indexes(upto[0].index, s, 0)
      <3>1. << >> \in Seq(IndexEntry) /\ Len(<< >>) = 0
        OBVIOUS
      <3> QED
        BY <2>1, <3>1 DEF Indexes
    <2> QED
      BY <1>5, <1>11, <1>12, <2>2
  <1>14. ASSUME NEW m \in 0 .. n - 1, m \in T PROVE m + 1 \in T
    <2>1. /\ m + 1 \in 1 .. n /\ m + 1 \in 0 .. n /\ (m + 1) - 1 = m
      OBVIOUS
    <2>2. PICK p \in V : p = upto[m]
      BY <1>12, <1>14
    <2>3. upto[m + 1] = With(m + 1, p)
      BY <1>11, <2>1, <2>2
    <2>4. upto[m + 1] \in V
      BY <1>6, <2>1, <2>3
    <2>5. PICK idx \in Seq(IndexEntry) : idx = p.index
      BY DEF V
    <2>6. Indexes(idx, s, m)
      BY <1>12, <1>14, <2>2, <2>5
    <2>7. CASE DueForIndex(at[m + 1], p.last)
      <3>1. PICK e \in IndexEntry : e = [key |-> s[m + 1].key, off |-> at[m + 1]]
        BY <1>3, <2>1
      <3>2. PICK new \in Seq(IndexEntry) : new = Append(idx, e)
        BY AppendProperties
      <3>3. upto[m + 1].index = new
        BY <2>3, <2>5, <2>7, <3>1, <3>2 DEF With
      <3>4. /\ Len(idx) \in Nat /\ Len(new) = Len(idx) + 1 /\ new[Len(idx) + 1] = e
            /\ new # << >> /\ \A l \in 1 .. Len(idx) : new[l] = idx[l]
        BY <3>2, AppendProperties, LenProperties
      <3>5. ASSUME NEW l \in 1 .. Len(new)
            PROVE  \E q \in 1 .. m + 1 : new[l] = [key |-> s[q].key, off |-> Offsets(s)[q]]
        <4>1. CASE l = Len(idx) + 1
          <5>1. m + 1 \in 1 .. m + 1
            OBVIOUS
          <5> QED
            BY <1>2, <3>1, <3>4, <4>1, <5>1
        <4>2. CASE l # Len(idx) + 1
          <5>1. l \in 1 .. Len(idx)
            BY <3>4, <4>2
          <5>2. PICK q \in 1 .. m : idx[l] = [key |-> s[q].key, off |-> Offsets(s)[q]]
            BY <2>6, <5>1 DEF Indexes
          <5>3. q \in 1 .. m + 1
            OBVIOUS
          <5> QED
            BY <3>4, <5>1, <5>2, <5>3
        <4> QED
          BY <4>1, <4>2
      <3>6. new[1].off = 0
        <4>1. CASE m = 0
          <5>1. Len(idx) = 0
            <6>1. \A l \in 1 .. Len(idx) : FALSE
              BY <2>6, <4>1 DEF Indexes
            <6> QED
              BY <3>4, <6>1
          <5> QED
            BY <1>2, <3>1, <3>4, <4>1, <5>1
        <4>2. CASE m # 0
          <5>1. idx # << >> /\ idx[1].off = 0
            BY <2>6, <4>2 DEF Indexes
          <5>2. 1 \in 1 .. Len(idx)
            BY <3>4, <5>1, EmptySeq
          <5> QED
            BY <3>4, <5>1, <5>2
        <4> QED
          BY <4>1, <4>2
      <3>7. Indexes(new, s, m + 1)
        BY <3>4, <3>5, <3>6 DEF Indexes
      <3> QED
        BY <1>12, <2>1, <2>4, <3>3, <3>7
    <2>8. CASE ~ DueForIndex(at[m + 1], p.last)
      <3>1. upto[m + 1].index = idx
        BY <2>3, <2>5, <2>8 DEF With
      <3>2. m # 0
        BY <1>2, <2>8 DEF DueForIndex
      <3>3. ASSUME NEW l \in 1 .. Len(idx)
            PROVE  \E q \in 1 .. m + 1 : idx[l] = [key |-> s[q].key, off |-> Offsets(s)[q]]
        <4>1. PICK q \in 1 .. m : idx[l] = [key |-> s[q].key, off |-> Offsets(s)[q]]
          BY <2>6 DEF Indexes
        <4>2. q \in 1 .. m + 1
          OBVIOUS
        <4> QED
          BY <4>1, <4>2
      <3>4. Indexes(idx, s, m + 1)
        BY <2>6, <3>2, <3>3 DEF Indexes
      <3> QED
        BY <1>12, <2>1, <2>4, <3>1, <3>4
    <2> QED
      BY <2>7, <2>8
  <1>15. n \in T
    <2>1. n \in 0 .. n
      OBVIOUS
    <2> QED
      BY <1>13, <1>14, <2>1, Upward
  <1> QED
    BY <1>1, <1>4, <1>12, <1>15

\* The filters of this engine: BloomM bits in words of WordBits.
Filter == [k : {BloomK}, m : {BloomM},
           bits : [1 .. BloomWords(BloomM) -> SUBSET (0 .. WordBits - 1)]]

LEMMA BloomNumbers ==
  /\ WordBits \in Nat \ {0} /\ BloomM \in Nat \ {0} /\ BloomWords(BloomM) \in Nat
  /\ BloomK \in Nat
PROOF
  <1>1. WordBits \in Nat \ {0} /\ BloomM \in Nat \ {0} /\ BloomK \in 1 .. MaxUint8
    BY SSTableAssumption
  <1>2. BloomM + WordBits - 1 \in Nat
    BY <1>1
  <1>3. BloomWords(BloomM) \in Nat
    BY <1>1, <1>2 DEF BloomWords
  <1> QED
    BY <1>1, <1>3

\* A probe is a bit of a word of the filter.
LEMMA ProbesFit ==
  ASSUME NEW bf \in Filter, NEW key \in Keys, NEW p \in Probes(bf, key)
  PROVE  /\ p[1] \in 1 .. BloomWords(BloomM) /\ p[2] \in 0 .. WordBits - 1
         /\ p = <<p[1], p[2]>>
PROOF
  <1>1. bf.m = BloomM /\ bf.k = BloomK
    BY DEF Filter
  <1>2. PICK h1 \in Nat : h1 = Hash1[key]
    BY SSTableAssumption
  <1>3. PICK h2 \in Nat : h2 = Hash2[key]
    BY SSTableAssumption
  <1>4. PICK i \in 0 .. BloomK - 1 :
          p = <<((h1 + i * h2) % BloomM) \div WordBits + 1, ((h1 + i * h2) % BloomM) % WordBits>>
    BY <1>1, <1>2, <1>3 DEF Probes
  <1>5. h1 + i * h2 \in Nat
    <2>1. i \in Nat
      BY BloomNumbers
    <2>2. i * h2 \in Nat
      BY <2>1
    <2> QED
      BY <2>2
  <1>6. PICK idx \in 0 .. BloomM - 1 : idx = (h1 + i * h2) % BloomM
    BY <1>5, BloomNumbers
  <1>7. p = <<idx \div WordBits + 1, idx % WordBits>>
    BY <1>4, <1>6
  <1>8. idx \div WordBits + 1 \in 1 .. (BloomM + WordBits - 1) \div WordBits
    BY BloomNumbers
  <1>9. idx % WordBits \in 0 .. WordBits - 1
    BY BloomNumbers
  <1> QED
    BY <1>7, <1>8, <1>9 DEF BloomWords

\* All filters probe the same bits for a key.
LEMMA SameProbes ==
  ASSUME NEW bf \in Filter, NEW key
  PROVE  Probes(bf, key) = Probes(NewBloomFilter, key)
PROOF
  <1>1. bf.m = BloomM /\ bf.k = BloomK
    BY DEF Filter
  <1>2. NewBloomFilter.m = BloomM /\ NewBloomFilter.k = BloomK
    BY DEF NewBloomFilter
  <1> QED
    BY <1>1, <1>2 DEF Probes

LEMMA BloomAddIs ==
  ASSUME NEW bf \in Filter, NEW key \in Keys
  PROVE  /\ BloomAdd(bf, key) \in Filter
         /\ BloomContains(BloomAdd(bf, key), key)
         /\ \A l \in Keys : BloomContains(bf, l) => BloomContains(BloomAdd(bf, key), l)
PROOF
  <1>1. PICK W : W = 1 .. BloomWords(BloomM)
    OBVIOUS
  <1>2. PICK B : B = 0 .. WordBits - 1
    OBVIOUS
  <1>3. bf.bits \in [W -> SUBSET B] /\ bf \in [k : {BloomK}, m : {BloomM}, bits : [W -> SUBSET B]]
    BY <1>1, <1>2 DEF Filter
  <1>4. PICK add : add = BloomAdd(bf, key)
    OBVIOUS
  <1>5. PICK bits : bits = [w \in W |-> bf.bits[w] \cup {b \in B : <<w, b>> \in Probes(bf, key)}]
    OBVIOUS
  <1>6. add = [bf EXCEPT !.bits = bits]
    BY <1>2, <1>3, <1>4, <1>5 DEF BloomAdd
  <1>7. bits \in [W -> SUBSET B]
    BY <1>3, <1>5
  <1>8. add.bits = bits /\ add \in Filter
    BY <1>1, <1>2, <1>3, <1>6, <1>7 DEF Filter
  <1>9. BloomContains(add, key)
    <2>1. ASSUME NEW p \in Probes(add, key) PROVE p[2] \in add.bits[p[1]]
      <3>1. p \in Probes(bf, key)
        BY <1>8, SameProbes
      <3>2. p[1] \in W /\ p[2] \in B /\ p = <<p[1], p[2]>>
        BY <1>1, <1>2, <3>1, ProbesFit
      <3> QED
        BY <1>5, <1>8, <3>1, <3>2
    <2> QED
      BY <2>1 DEF BloomContains
  <1>10. ASSUME NEW l \in Keys, BloomContains(bf, l) PROVE BloomContains(add, l)
    <2>1. ASSUME NEW p \in Probes(add, l) PROVE p[2] \in add.bits[p[1]]
      <3>1. p \in Probes(bf, l)
        BY <1>8, SameProbes
      <3>2. p[1] \in W
        BY <1>1, <3>1, ProbesFit
      <3>3. p[2] \in bf.bits[p[1]]
        BY <1>10, <3>1 DEF BloomContains
      <3> QED
        BY <1>5, <1>8, <3>2, <3>3
    <2> QED
      BY <2>1 DEF BloomContains
  <1> QED
    BY <1>4, <1>8, <1>9, <1>10

\* What DecodeBloomFilter reads is what Encode wrote.
LEMMA DecodeEncode ==
  ASSUME NEW bf \in Filter
  PROVE  DecodeBloomFilter(Encode(bf)) = bf
PROOF
  <1>1. PICK n \in Nat : n = BloomWords(BloomM)
    BY BloomNumbers
  <1>2. PICK bits : bits = bf.bits
    OBVIOUS
  <1>3. /\ bits \in [1 .. n -> SUBSET (0 .. WordBits - 1)] /\ bf.k = BloomK /\ bf.m = BloomM
        /\ bf = [k |-> BloomK, m |-> BloomM, bits |-> bits]
    BY <1>1, <1>2 DEF Filter
  <1>4. PICK S : S = {BloomK, BloomM} \cup SUBSET (0 .. WordBits - 1)
    OBVIOUS
  <1>5. bits \in Seq(S) /\ Len(bits) = n
    BY <1>3, <1>4
  <1>6. PICK head \in Seq(S) : head = <<BloomK, BloomM>>
    <2>1. BloomK \in S /\ BloomM \in S
      BY <1>4
    <2>2. <<BloomK, BloomM>> \in Seq(S)
      BY <2>1
    <2> QED
      BY <2>2
  <1>7. Len(head) = 2 /\ head[1] = BloomK /\ head[2] = BloomM
    BY <1>6
  <1>8. PICK data : data = head \o bits
    OBVIOUS
  <1>9. Encode(bf) = data
    BY <1>2, <1>3, <1>6, <1>8 DEF Encode
  <1>10. /\ data \in Seq(S) /\ Len(data) = 2 + n
         /\ \A i \in 1 .. 2 + n : data[i] = IF i <= 2 THEN head[i] ELSE bits[i - 2]
    <2>1. /\ head \o bits \in Seq(S) /\ Len(head \o bits) = Len(head) + Len(bits)
          /\ \A i \in 1 .. Len(head) + Len(bits) : (head \o bits)[i] =
               IF i <= Len(head) THEN head[i] ELSE bits[i - Len(head)]
      BY <1>5, ConcatProperties, Zenon
    <2> QED
      BY <1>5, <1>7, <1>8, <2>1
  <1>11. data[1] = BloomK /\ data[2] = BloomM
    BY <1>7, <1>10
  <1>12. \A i \in 3 .. 2 + n : data[i] \in S /\ data[i] = bits[i - 2]
    <2>1. ASSUME NEW i \in 3 .. 2 + n PROVE data[i] \in S /\ data[i] = bits[i - 2]
      <3>1. i \in 1 .. 2 + n /\ ~ (i <= 2) /\ i - 2 \in 1 .. n
        OBVIOUS
      <3>2. bits[i - 2] \in S
        BY <1>5, <3>1
      <3> QED
        BY <1>10, <3>1, <3>2
    <2> QED
      BY <2>1
  <1>13. PICK sub : sub = SubSeq(data, 3, 2 + n)
    OBVIOUS
  <1>14. /\ sub \in Seq(S) /\ Len(sub) = n
         /\ \A i \in 1 .. n : sub[i] = data[3 + i - 1]
    <2>1. 3 \in Int /\ 2 + n \in Int /\ (2 + n) - 3 + 1 = n
      OBVIOUS
    <2>2. /\ sub \in Seq(S) /\ Len(sub) = IF 3 <= 2 + n THEN (2 + n) - 3 + 1 ELSE 0
          /\ \A i \in 1 .. (2 + n) - 3 + 1 : sub[i] = data[3 + i - 1]
      BY <1>12, <1>13, <2>1, SubSeqProperties
    <2> QED
      BY <2>1, <2>2
  <1>15. sub = bits
    <2>1. ASSUME NEW i \in 1 .. n PROVE sub[i] = bits[i]
      <3>1. i + 2 \in 3 .. 2 + n /\ 3 + i - 1 = i + 2 /\ (i + 2) - 2 = i
        OBVIOUS
      <3> QED
        BY <1>12, <1>14, <3>1
    <2> QED
      BY <1>5, <1>14, <2>1, SeqEqual
  <1> QED
    BY <1>1, <1>3, <1>9, <1>11, <1>13, <1>15 DEF DecodeBloomFilter

\* The filter of a file has the bits of every key in the file.
LEMMA BloomHolds ==
  ASSUME NEW s \in Seq(Rows), NEW j \in 1 .. Len(s)
  PROVE  BloomContains(DecodeBloomFilter(SSTableOf(s).bloom), s[j].key)
PROOF
  <1>1. PICK n \in Nat : n = Len(s)
    BY LenProperties
  <1>2. \A i \in 1 .. n : s[i].key \in Keys
    BY <1>1, RowFacts
  <1>3. NewBloomFilter \in Filter
    BY DEF NewBloomFilter, Filter
  <1> DEFINE Sol(f) == f = [i \in 0 .. n |->
                              IF i = 0 THEN NewBloomFilter ELSE BloomAdd(f[i - 1], s[i].key)]
             filter == CHOOSE f : Sol(f)
  <1>4. SSTableOf(s).bloom = Encode(filter[n])
    BY <1>1 DEF SSTableOf
  <1>5. \E f : Sol(f)
    <2>1. PICK g : g = [i \in 1 .. n |-> [p \in Filter |-> BloomAdd(p, s[i].key)]]
      OBVIOUS
    <2>2. g \in [1 .. n -> [Filter -> Filter]]
      BY <1>2, <2>1, BloomAddIs
    <2>3. PICK h : Iterates(h, n, Filter, NewBloomFilter, g)
      BY <1>3, <2>2, Recursion
    <2>4. ASSUME NEW i \in 1 .. n PROVE h[i] = BloomAdd(h[i - 1], s[i].key)
      <3>1. h[i] = g[i][h[i - 1]] /\ h[i - 1] \in Filter
        BY <2>3 DEF Iterates
      <3> QED
        BY <2>1, <3>1
    <2>5. h = [i \in 0 .. n |-> h[i]] /\ h[0] = NewBloomFilter
      BY <2>3 DEF Iterates
    <2>6. ASSUME NEW i \in 0 .. n
          PROVE  h[i] = IF i = 0 THEN NewBloomFilter ELSE BloomAdd(h[i - 1], s[i].key)
      <3>1. i = 0 \/ (i # 0 /\ i \in 1 .. n)
        OBVIOUS
      <3> QED
        BY <2>4, <2>5, <3>1
    <2>7. Sol(h)
      BY <2>5, <2>6
    <2> QED
      BY <2>7
  <1>6. Sol(filter)
    <2> HIDE DEF Sol
    <2> QED
      BY <1>5
  <1>7. filter = [i \in 0 .. n |->
                    IF i = 0 THEN NewBloomFilter ELSE BloomAdd(filter[i - 1], s[i].key)]
    BY <1>6
  <1> HIDE DEF Sol, filter
  <1>8. /\ filter[0] = NewBloomFilter
        /\ \A i \in 1 .. n : filter[i] = BloomAdd(filter[i - 1], s[i].key)
    <2>1. 0 \in 0 .. n /\ \A i \in 1 .. n : i \in 0 .. n /\ i # 0
      OBVIOUS
    <2> QED
      BY <1>7, <2>1, Zenon
  <1>9. PICK T : T = {m \in 0 .. n : /\ filter[m] \in Filter
                                     /\ \A i \in 1 .. m : BloomContains(filter[m], s[i].key)}
    OBVIOUS
  <1>10. 0 \in T
    BY <1>3, <1>8, <1>9
  <1>11. ASSUME NEW m \in 0 .. n - 1, m \in T PROVE m + 1 \in T
    <2>1. m + 1 \in 1 .. n /\ m + 1 \in 0 .. n /\ (m + 1) - 1 = m
      OBVIOUS
    <2>2. PICK bf \in Filter : bf = filter[m]
      BY <1>9, <1>11
    <2>3. filter[m + 1] = BloomAdd(bf, s[m + 1].key) /\ s[m + 1].key \in Keys
      BY <1>2, <1>8, <2>1, <2>2
    <2>4. /\ filter[m + 1] \in Filter /\ BloomContains(filter[m + 1], s[m + 1].key)
          /\ \A l \in Keys : BloomContains(bf, l) => BloomContains(filter[m + 1], l)
      BY <2>3, BloomAddIs
    <2>5. ASSUME NEW i \in 1 .. m + 1 PROVE BloomContains(filter[m + 1], s[i].key)
      <3>1. CASE i = m + 1
        BY <2>4, <3>1
      <3>2. CASE i # m + 1
        <4>1. i \in 1 .. m /\ i \in 1 .. n
          BY <3>2
        <4>2. BloomContains(bf, s[i].key)
          BY <1>9, <1>11, <2>2, <4>1
        <4> QED
          BY <1>2, <2>4, <4>1, <4>2
      <3> QED
        BY <3>1, <3>2
    <2> QED
      BY <1>9, <2>1, <2>4, <2>5
  <1>12. n \in T
    <2>1. n \in 0 .. n
      OBVIOUS
    <2> QED
      BY <1>10, <1>11, <2>1, Upward
  <1>13. filter[n] \in Filter /\ BloomContains(filter[n], s[j].key)
    BY <1>1, <1>9, <1>12
  <1> QED
    BY <1>4, <1>13, DecodeEncode

-----------------------------------------------------------------------------
(* ReadSSTable finds what is in the file.                                  *)

LEMMA MinIs ==
  ASSUME NEW I, I \subseteq Nat, I # {}
  PROVE  Min(I) \in I /\ \A y \in I : Min(I) <= y
PROOF
  <1>1. \E x \in I : \A y \in I : x <= y
    BY LeastNumber
  <1> QED
    BY <1>1 DEF Min

\* The entries of a block at or above the key: the first of them decides.
AtOrAbove(s, block, key) ==
  {j \in 1 .. Len(s) : /\ Offsets(s)[j] >= block.from /\ Offsets(s)[j + 1] <= block.to
                       /\ s[j].key >= key}

LEMMA ScanIs ==
  ASSUME NEW s \in Seq(Rows), NEW block, NEW key
  PROVE  LET I == AtOrAbove(s, block, key)
         IN  ScanBlock(SSTableOf(s), block, key) =
               IF I # {} /\ s[Min(I)].key = key THEN s[Min(I)].val ELSE Absent
PROOF
  <1>1. PICK n \in Nat : n = Len(s)
    BY LenProperties
  <1>2. PICK I : I = AtOrAbove(s, block, key)
    OBVIOUS
  <1>3. PICK at : at = Offsets(s)
    OBVIOUS
  <1>4. SSTableOf(s).data = s
    BY DEF SSTableOf
  <1> DEFINE q == [j \in 1 .. n |-> at[j] >= block.from /\ at[j + 1] <= block.to /\ s[j].key >= key]
             i == IF {x \in 1 .. Len(q) : q[x]} # {} THEN Min({x \in 1 .. Len(q) : q[x]}) ELSE 0
  <1>5. ScanBlock(SSTableOf(s), block, key) =
          IF i > 0 /\ s[i].key = key THEN s[i].val ELSE Absent
    BY <1>1, <1>3, <1>4 DEF ScanBlock, SelectInSeq
  <1>6. {x \in 1 .. Len(q) : q[x]} = I
    <2>1. Len(q) = n
      OBVIOUS
    <2>2. \A x \in 1 .. n : q[x] = (at[x] >= block.from /\ at[x + 1] <= block.to /\ s[x].key >= key)
      OBVIOUS
    <2> HIDE DEF q
    <2> QED
      BY <1>1, <1>2, <1>3, <2>1, <2>2 DEF AtOrAbove
  <1>7. i = IF I # {} THEN Min(I) ELSE 0
    BY <1>6
  <1> HIDE DEF i
  <1>8. I \subseteq Nat /\ \A x \in I : x > 0
    BY <1>1, <1>2 DEF AtOrAbove
  <1>9. I # {} => Min(I) > 0
    BY <1>8, MinIs
  <1> QED
    BY <1>2, <1>5, <1>7, <1>9

\* A key that is not in the file is not found, unless the lookup panics.
LEMMA LookUpMissing ==
  ASSUME NEW s \in Seq(Rows), NEW k \in Keys, \A j \in 1 .. Len(s) : s[j].key # k
  PROVE  \/ LookUp(SSTableOf(s), k) = Absent
         \/ SSTableOf(s).index # << >> /\ ~ FirstKeySliceFits(SSTableOf(s))
PROOF
  <1>1. ASSUME NEW block PROVE ScanBlock(SSTableOf(s), block, k) = Absent
    <2>1. PICK I : I = AtOrAbove(s, block, k)
      OBVIOUS
    <2>2. I \subseteq 1 .. Len(s) /\ I \subseteq Nat
      BY <2>1, LenProperties DEF AtOrAbove
    <2>3. I # {} => s[Min(I)].key # k
      BY <2>2, MinIs
    <2> QED
      BY <2>1, <2>3, ScanIs
  <1> QED
    BY <1>1 DEF LookUp

\* The key of an entry falls into the block that holds the entry.
LEMMA BlockHolds ==
  ASSUME NEW s \in Seq(Rows), Sorted(s), NEW j \in 1 .. Len(s)
  PROVE  LET block == BlockOf(SSTableOf(s), s[j].key)
         IN  Offsets(s)[j] >= block.from /\ Offsets(s)[j + 1] <= block.to
PROOF
  <1>1. PICK n \in Nat : n = Len(s)
    BY LenProperties
  <1>2. PICK at \in [1 .. n + 1 -> Nat] : at = Offsets(s) /\ at[1] = 0
    BY <1>1, OffsetsAre
  <1>3. PICK k : k = s[j].key
    OBVIOUS
  <1>4. PICK f : f = SSTableOf(s)
    OBVIOUS
  <1>5. PICK idx : idx = f.index
    OBVIOUS
  <1>6. Indexes(idx, s, n) /\ f.dataEnd = at[n + 1]
    BY <1>1, <1>2, <1>4, <1>5, IndexIs DEF SSTableOf
  <1>7. PICK m \in Nat : m = Len(idx)
    BY <1>6, LenProperties DEF Indexes
  <1>8. /\ j \in 1 .. n /\ j \in 1 .. n + 1 /\ j + 1 \in 1 .. n + 1 /\ k \in Nat /\ n > 0
        /\ at[j] \in Nat /\ at[j + 1] \in Nat
    <2>1. j \in 1 .. n /\ j \in 1 .. n + 1 /\ j + 1 \in 1 .. n + 1 /\ n > 0
      BY <1>1
    <2>2. at[j] \in Nat /\ at[j + 1] \in Nat
      BY <2>1
    <2>3. k \in Nat
      BY <1>3, RowFacts
    <2> QED
      BY <2>1, <2>2, <2>3
  <1>9. \A a, b \in 1 .. n + 1 : a <= b => at[a] <= at[b]
    <2>1. \A a, b \in 1 .. n + 1 : a < b => at[a] < at[b]
      BY <1>1, <1>2, OffsetsAscend
    <2>2. ASSUME NEW a \in 1 .. n + 1, NEW b \in 1 .. n + 1, a <= b PROVE at[a] <= at[b]
      <3>1. a = b \/ a < b
        BY <2>2
      <3>2. at[a] \in Nat /\ at[b] \in Nat
        OBVIOUS
      <3> QED
        BY <2>1, <3>1, <3>2
    <2> QED
      BY <2>2
  <1>10. ASSUME NEW l \in 1 .. m
         PROVE  /\ idx[l].key \in Nat /\ idx[l].off \in Nat
                /\ ~ (idx[l].key > k) => at[j] >= idx[l].off
                /\ idx[l].key > k => at[j + 1] <= idx[l].off
    <2>1. PICK p \in 1 .. n : idx[l] = [key |-> s[p].key, off |-> Offsets(s)[p]]
      BY <1>6, <1>7 DEF Indexes
    <2>2. idx[l].key = s[p].key /\ idx[l].off = at[p] /\ s[p].key \in Nat
      <3>1. s[p].key \in Nat
        BY <1>1, RowFacts
      <3> QED
        BY <1>2, <2>1, <3>1
    <2>3. p \in 1 .. n + 1 /\ at[p] \in Nat
      OBVIOUS
    <2>4. ASSUME ~ (idx[l].key > k) PROVE p <= j
      <3>1. ~ (j < p)
        BY <1>1, <1>3, <1>8, <2>2, <2>4 DEF Sorted
      <3> QED
        BY <1>8, <3>1
    <2>5. ASSUME idx[l].key > k PROVE j + 1 <= p
      <3>1. p # j /\ ~ (p < j)
        BY <1>1, <1>3, <1>8, <2>2, <2>5 DEF Sorted
      <3> QED
        BY <1>8, <3>1
    <2> QED
      BY <1>8, <1>9, <2>2, <2>3, <2>4, <2>5
  <1>11. m > 0 /\ idx[1].off = 0
    <2>1. idx # << >> /\ idx[1].off = 0
      BY <1>6, <1>8 DEF Indexes
    <2>2. m # 0
      BY <1>6, <1>7, <2>1, EmptySeq DEF Indexes
    <2> QED
      BY <2>1, <2>2
  <1> DEFINE I == {l \in 1 .. m : idx[l].key > k}
             after == IF I # {} THEN Min(I) ELSE 0
             block == CASE after = 0 /\ m = 0 -> [from |-> 0, to |-> f.dataEnd]
                        [] after = 0 /\ m > 0 -> [from |-> idx[m].off, to |-> f.dataEnd]
                        [] after = 1 -> [from |-> 0, to |-> idx[1].off]
                        [] OTHER -> [from |-> idx[after - 1].off, to |-> idx[after].off]
  <1>12. BlockOf(f, k) = block
    BY <1>5, <1>7 DEF BlockOf, SelectInSeq, StopsAtGreater
  <1>13. I \subseteq Nat
    OBVIOUS
  <1>14. CASE I = {}
    <2>1. ~ (idx[m].key > k) /\ m \in 1 .. m
      BY <1>11, <1>14
    <2>2. after = 0
      BY <1>14
    <2> HIDE DEF after
    <2>3. block = [from |-> idx[m].off, to |-> f.dataEnd]
      BY <1>11, <2>2
    <2> HIDE DEF block
    <2>4. at[j] >= idx[m].off
      BY <1>10, <2>1
    <2>5. at[j + 1] <= at[n + 1]
      <3>1. n + 1 \in 1 .. n + 1 /\ j + 1 <= n + 1
        BY <1>8
      <3> QED
        BY <1>8, <1>9, <3>1
    <2> QED
      BY <1>2, <1>3, <1>4, <1>6, <1>12, <2>3, <2>4, <2>5
  <1>15. CASE I # {}
    <2>1. after \in I /\ \A l \in I : after <= l
      BY <1>13, <1>15, MinIs
    <2>2. after \in 1 .. m /\ idx[after].key > k
      BY <2>1
    <2> HIDE DEF after
    <2>3. after # 1
      <3> SUFFICES ASSUME after = 1 PROVE FALSE
        OBVIOUS
      <3>1. at[j + 1] <= 0
        BY <1>10, <1>11, <2>2
      <3>2. at[1] < at[j + 1]
        <4>1. 1 \in 1 .. Len(s) + 1 /\ j + 1 \in 1 .. Len(s) + 1 /\ 1 < j + 1
          BY <1>1, <1>8
        <4> QED
          BY <1>2, <4>1, OffsetsAscend
      <3> QED
        BY <1>2, <1>8, <3>1, <3>2
    <2>4. block = [from |-> idx[after - 1].off, to |-> idx[after].off]
      BY <2>2, <2>3
    <2> HIDE DEF block
    <2>5. after - 1 \in 1 .. m /\ after - 1 \notin I
      BY <2>1, <2>2, <2>3
    <2>6. ~ (idx[after - 1].key > k)
      BY <2>5
    <2>7. at[j] >= idx[after - 1].off /\ at[j + 1] <= idx[after].off
      BY <1>10, <2>2, <2>5, <2>6
    <2> QED
      BY <1>2, <1>3, <1>4, <1>12, <2>4, <2>7
  <1> QED
    BY <1>14, <1>15

\* A key in the file is found with its entry, unless the lookup panics.
LEMMA LookUpFinds ==
  ASSUME NEW s \in Seq(Rows), Sorted(s), NEW j \in 1 .. Len(s)
  PROVE  \/ LookUp(SSTableOf(s), s[j].key) = s[j].val
         \/ SSTableOf(s).index # << >> /\ ~ FirstKeySliceFits(SSTableOf(s))
PROOF
  <1>1. PICK n \in Nat : n = Len(s) /\ j \in 1 .. n
    BY LenProperties
  <1>2. PICK k : k = s[j].key
    OBVIOUS
  <1>3. PICK f : f = SSTableOf(s)
    OBVIOUS
  <1>4. PICK block : block = BlockOf(f, k)
    OBVIOUS
  <1>5. k \in Nat
    BY <1>2, RowFacts
  <1>6. BloomContains(DecodeBloomFilter(f.bloom), k)
    BY <1>2, <1>3, BloomHolds
  <1>7. ASSUME f.index # << >> PROVE ~ (f.index[1].key > k)
    <2>1. Indexes(f.index, s, n)
      BY <1>1, <1>3, IndexIs DEF SSTableOf
    <2>2. 1 \in 1 .. Len(f.index)
      BY <1>7, <2>1, EmptySeq, LenProperties DEF Indexes
    <2>3. PICK p \in 1 .. n : f.index[1] = [key |-> s[p].key, off |-> Offsets(s)[p]]
      BY <2>1, <2>2 DEF Indexes
    <2>4. Offsets(s)[p] = 0
      BY <1>1, <2>1, <2>3 DEF Indexes
    <2>5. p = 1
      <3>1. Offsets(s)[1] = 0 /\ (1 < p => Offsets(s)[1] < Offsets(s)[p])
        <4>1. 1 \in 1 .. Len(s) + 1 /\ p \in 1 .. Len(s) + 1
          BY <1>1
        <4> QED
          BY <4>1, OffsetsAre, OffsetsAscend
      <3> QED
        BY <2>4, <3>1
    <2>6. f.index[1].key = s[1].key /\ s[1].key \in Nat
      <3>1. 1 \in 1 .. Len(s)
        BY <1>1
      <3>2. s[1].key \in Nat
        BY <3>1, RowFacts
      <3> QED
        BY <2>3, <2>5, <3>2
    <2>7. 1 < j => s[1].key < k
      BY <1>1, <1>2 DEF Sorted
    <2> QED
      BY <1>1, <1>2, <1>5, <2>6, <2>7
  <1>8. ScanBlock(f, block, k) = s[j].val
    <2>1. PICK I : I = AtOrAbove(s, block, k)
      OBVIOUS
    <2>2. j \in I
      <3>1. Offsets(s)[j] >= block.from /\ Offsets(s)[j + 1] <= block.to
        BY <1>2, <1>3, <1>4, BlockHolds
      <3> QED
        BY <1>2, <1>5, <2>1, <3>1 DEF AtOrAbove
    <2>3. I \subseteq 1 .. n /\ I \subseteq Nat /\ \A x \in I : s[x].key >= k
      BY <1>1, <2>1 DEF AtOrAbove
    <2>4. PICK x \in I : x = Min(I) /\ x <= j
      BY <2>2, <2>3, MinIs
    <2>5. x = j
      <3>1. s[x].key \in Nat /\ s[x].key >= k
        BY <1>1, <2>3, RowFacts
      <3>2. x < j => s[x].key < k
        BY <1>1, <1>2, <2>3 DEF Sorted
      <3>3. ~ (x < j)
        BY <1>5, <3>1, <3>2
      <3> QED
        BY <1>1, <2>3, <2>4, <3>3
    <2> QED
      BY <1>2, <1>3, <2>1, <2>2, <2>4, <2>5, ScanIs
  <1> QED
    BY <1>2, <1>3, <1>4, <1>6, <1>7, <1>8 DEF LookUp

-----------------------------------------------------------------------------
(* The answers of the files.                                               *)

\* A lookup in a flushed file answers what the MemTable held: the offsets, the
\* sparse index and the Bloom filter, once encoded and decoded, hide no entry,
\* unless the first key is longer than 65529 bytes (sstable.go:31-148,
\* sstable.go:152-280).
THEOREM FlushedFilesAnswer == KmSpec => []FlushedLookUpExact
PROOF
  <1>1. MergeInv => FlushedLookUpExact
    <2> SUFFICES ASSUME Flushed, NEW i \in Files, NEW k \in Keys
                 PROVE  \/ LookUp(l0Files[i], k) = input[i][k]
                        \/ l0Files[i].index # << >> /\ ~ FirstKeySliceFits(l0Files[i])
      BY DEF MergeInv, FlushedLookUpExact
    <2>1. PICK s : s = Data(i)
      OBVIOUS
    <2>2. /\ l0Files[i] = SSTableOf(s) /\ Enumerates(s, input[i])
          /\ s \in Seq(Rows) /\ Sorted(s)
      BY <2>1, FileFacts
    <2>3. CASE input[i][k] # Absent
      <3>1. PICK j \in 1 .. Len(s) : s[j].key = k
        BY <2>2, <2>3 DEF Enumerates
      <3>2. s[j].val = input[i][k]
        BY <2>2, <3>1 DEF Enumerates
      <3> QED
        BY <2>2, <3>1, <3>2, LookUpFinds
    <2>4. CASE input[i][k] = Absent
      <3>1. ASSUME NEW j \in 1 .. Len(s) PROVE s[j].key # k
        <4>1. s[j].val # Absent /\ s[j].val = input[i][s[j].key]
          BY <2>2, RowFacts DEF Enumerates
        <4> QED
          BY <2>4, <4>1
      <3> QED
        BY <2>2, <2>4, <3>1, LookUpMissing
    <2> QED
      BY <2>3, <2>4
  <1> QED
    BY <1>1, MergeInvariant, PTL

\* A completed merge keeps the newest entry of every key but the zero-length
\* one, tombstones included, and a lookup in the L1 file finds it, unless a read
\* error cut an iterator short or the first key is longer than 65529 bytes
\* (compactor.go:60-160).
THEOREM MergedFileAnswers == KmSpec => []MergedLookUpExact
PROOF
  <1>1. MergeInv /\ Complete => MergedLookUpExact
    <2> SUFFICES ASSUME MergeInv, Complete, pc = "done", ~ readError,
                        NEW k \in Keys, KeyLen[k] # 0
                 PROVE  \/ LookUp(SSTableOf(out), k) = NewestEntry(k)
                        \/ out # << >> /\ ~ FirstKeySliceFits(SSTableOf(out))
      BY DEF MergedLookUpExact
    <2> USE DEF MergeInv
    <2>1. out \in Seq(Rows) /\ Sorted(out)
      BY DEF Output
    <2>2. Delivering /\ Accounted
      BY DEF Complete
    <2>3. SSTableOf(out).index # << >> => out # << >>
      <3> SUFFICES ASSUME out = << >> PROVE SSTableOf(out).index = << >>
        OBVIOUS
      <3>1. Len(out) = 0
        OBVIOUS
      <3>2. PICK idx : idx = SSTableOf(out).index
        OBVIOUS
      <3>3. Indexes(idx, out, 0)
        BY <2>1, <3>1, <3>2, IndexIs DEF SSTableOf
      <3>4. idx \in Seq(IndexEntry) /\ \A m \in 1 .. Len(idx) : FALSE
        BY <3>3 DEF Indexes
      <3>5. Len(idx) = 0
        BY <3>4, LenProperties
      <3> QED
        BY <3>2, <3>4, <3>5, EmptySeq
    <2>4. ASSUME NEW i \in Files, input[i][k] # Absent
          PROVE  \E j \in 1 .. Len(out) : out[j] = [key |-> k, val |-> NewestEntry(k)]
      <3>1. Enumerates(Data(i), input[i]) /\ Len(Data(i)) \in Nat /\ i \in Nat /\ Len(input) \in Nat
        BY FileFacts
      <3>2. PICK n \in 1 .. Len(Data(i)) : Data(i)[n].key = k
        BY <2>4, <3>1 DEF Enumerates
      <3>3. ~ Waiting(i)
        BY <2>2 DEF Delivering, Waiting, InHeap
      <3>4. cursor[i] = Len(Data(i))
        <4>1. i <= opened
          BY <2>2, <3>1 DEF Delivering, Files
        <4> QED
          BY <2>2, <3>3, <4>1 DEF Delivering
      <3>5. Passed(i, n)
        BY <3>1, <3>3, <3>4 DEF Passed
      <3>6. Settled(k)
        BY <2>2, <3>2, <3>5 DEF Accounted
      <3> QED
        BY <3>6 DEF Settled
    <2>5. CASE \E i \in Files : input[i][k] # Absent
      <3>1. PICK j \in 1 .. Len(out) : out[j] = [key |-> k, val |-> NewestEntry(k)]
        BY <2>4, <2>5
      <3>2. out[j].key = k /\ out[j].val = NewestEntry(k)
        BY <3>1
      <3> QED
        BY <2>1, <2>3, <3>2, LookUpFinds
    <2>6. CASE ~ \E i \in Files : input[i][k] # Absent
      <3>1. NewestEntry(k) = Absent
        BY <2>6 DEF NewestEntry
      <3>2. \A j \in 1 .. Len(out) : out[j].key # k
        BY <2>6 DEF Output
      <3> QED
        BY <2>1, <2>3, <3>1, <3>2, LookUpMissing
    <2> QED
      BY <2>5, <2>6
  <1> QED
    BY <1>1, MergeInvariant, NothingLost, PTL
=============================================================================
