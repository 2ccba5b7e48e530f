----------------------------- MODULE WALProofs -----------------------------
(***************************************************************************)
(* Proofs about the write-ahead log: for any writers, any buffer size and  *)
(* any number of calls and of crashes, with and without power loss and     *)
(* disk faults.                                                            *)
(***************************************************************************)
EXTENDS WAL, TLAPS, SequenceTheorems, WellFoundedInduction

\* The log as a recovery would find it if nothing were lost.
Log == file \o buf

Cell == Record \cup {Torn}

-----------------------------------------------------------------------------
(* The inductive invariant.                                                *)

\* A process that is down holds nothing; a call under way has its record.
Processes ==
  /\ ~ up => /\ buf = << >> /\ partial = FALSE /\ broken = FALSE
             /\ \A w \in Writers : pc[w] = "idle"
  /\ \A w \in Writers : pc[w] \in {"insert", "ack"} => rec[w] \in Record

\* No two records of the log have the same number, and the next one is new.
Numbered ==
  /\ durable \subseteq 1 .. puts
  /\ \A i \in 1 .. Len(Log) : Log[i] # Torn => Log[i].id <= puts
  /\ \A i, j \in 1 .. Len(Log) :
       Log[i] # Torn /\ Log[j] # Torn /\ Log[i].id = Log[j].id => i = j

\* What an fsync has covered is not behind the point that survives a crash.
Placed ==
  \A i \in 1 .. Len(Log) : Log[i] # Torn /\ Log[i].id \in durable => i <= synced

\* What Close has to see on disk is in the log, then covered by the last fsync,
\* then durable.
Closing ==
  /\ broken => failed
  /\ final => close # "open"
  /\ spc = "done" => final
  /\ up /\ close = "called" /\ ~ failed => closing \subseteq IdsOf(Log)
  /\ up /\ spc = "sync" /\ final /\ ~ failed => closing \subseteq IdsOf(Covered)
  /\ spc = "done" /\ ~ failed => closing \subseteq durable
  /\ CloseIsDurable

WalIInv == WalTypeOK /\ Processes /\ Numbered /\ Placed /\ Closing

\* Call w has its record of key k in the log and not in the table.
InsertsKey(w, k) == pc[w] = "insert" /\ rec[w].key = k

\* What replaying the log would give for a key: the value of the one call that
\* is about to insert it, or else what lookups answer.
KeyRebuilt(k) ==
  /\ \A v, w \in Writers : InsertsKey(v, k) /\ InsertsKey(w, k) => v = w
  /\ \A w \in Writers : InsertsKey(w, k) => Replay(Log)[k] = rec[w].val
  /\ (\A w \in Writers : ~ InsertsKey(w, k)) => Replay(Log)[k] = mem[k]

Rebuilt ==
  up /\ ~ broken /\ Tears(file) = {} => \A k \in Keys \ raced : KeyRebuilt(k)

-----------------------------------------------------------------------------
(* Sequences, and what Recover makes of them.                              *)

Associates(x, y, z) == (x \o y) \o z = x \o (y \o z)

\* Concatenation of sequences is associative.
LEMMA Associative ==
  \A S : \A x, y, z \in Seq(S) : Associates(x, y, z)
PROOF
  BY ConcatAssociative, Zenon DEF Associates

\* A set of numbers has a least one, and a bounded one a greatest.
LEMMA LeastOf ==
  ASSUME NEW T, T \subseteq Nat, T # {}
  PROVE  \E x \in T : \A y \in T : x <= y
PROOF
  <1> DEFINE R == OpToRel(<, Nat)
  <1>1. IsWellFoundedOn(R, Nat)
    BY NatLessThanWellFounded
  <1>2. \A x, y \in Nat : x < y => <<x, y>> \in R
    <2>1. R = {ss \in Nat \X Nat : ss[1] < ss[2]}
      BY Zenon DEF OpToRel
    <2> HIDE DEF R
    <2> QED
      BY <2>1
  <1> HIDE DEF R
  <1>3. \E x \in T : \A y \in T : ~ (<<y, x>> \in R)
    BY <1>1, WFMin
  <1>4. PICK x \in T : \A y \in T : ~ (<<y, x>> \in R)
    BY <1>3
  <1>5. ASSUME NEW y \in T PROVE x <= y
    <2>1. x \in Nat /\ y \in Nat
      OBVIOUS
    <2>2. ~ (y < x)
      BY <1>2, <1>4, <2>1, Zenon
    <2> QED
      BY <2>1, <2>2
  <1> QED
    BY <1>5

LEMMA GreatestOf ==
  ASSUME NEW n \in Nat, NEW T, T \subseteq 1 .. n, T # {}
  PROVE  \E x \in T : \A y \in T : y <= x
PROOF
  <1> DEFINE U == {n - x : x \in T}
  <1>1. U \subseteq Nat /\ U # {}
    <2>1. \A x \in T : x \in 1 .. n /\ n - x \in Nat
      OBVIOUS
    <2>2. PICK t : t \in T
      OBVIOUS
    <2>3. n - t \in U
      BY <2>2
    <2> QED
      BY <2>1, <2>3
  <1> HIDE DEF U
  <1>2. PICK u \in U : \A v \in U : u <= v
    BY <1>1, LeastOf
  <1> USE DEF U
  <1>3. PICK x \in T : u = n - x
    OBVIOUS
  <1>4. ASSUME NEW y \in T PROVE y <= x
    <2>1. n - y \in U /\ x \in Int /\ y \in Int
      OBVIOUS
    <2> HIDE DEF U
    <2> QED
      BY <1>2, <1>3, <2>1
  <1> QED
    BY <1>4

\* A record of a set stands somewhere in the sequence.
LEMMA IdsMember ==
  ASSUME NEW s, NEW x
  PROVE  x \in IdsOf(s) <=> \E i \in 1 .. Len(s) : s[i] # Torn /\ s[i].id = x
PROOF
  BY DEF IdsOf, Tears

\* Recover reads up to the first torn record.
LEMMA ReplayablePart ==
  ASSUME NEW s \in Seq(Cell)
  PROVE  /\ Replayable(s) \in Seq(Record)
         /\ Len(Replayable(s)) <= Len(s)
         /\ \A i \in 1 .. Len(Replayable(s)) :
              Replayable(s)[i] = s[i] /\ s[i] # Torn
         /\ Len(Replayable(s)) < Len(s) => s[Len(Replayable(s)) + 1] = Torn
PROOF
  <1>1. CASE Tears(s) = {}
    <2>1. Replayable(s) = s
      BY <1>1 DEF Replayable
    <2>2. \A i \in 1 .. Len(s) : s[i] # Torn /\ s[i] \in Record
      BY <1>1 DEF Tears, Cell
    <2>3. s \in Seq(Record)
      BY <2>2
    <2> QED
      BY <2>1, <2>2, <2>3
  <1>2. CASE Tears(s) # {}
    <2> DEFINE f == CHOOSE i \in Tears(s) : \A j \in Tears(s) : i <= j
    <2>1. Tears(s) \subseteq Nat
      BY DEF Tears
    <2>2. \E i \in Tears(s) : \A j \in Tears(s) : i <= j
      BY <1>2, <2>1, LeastOf
    <2>3. f \in Tears(s) /\ \A j \in Tears(s) : f <= j
      BY <2>2
    <2>4. Replayable(s) = SubSeq(s, 1, f - 1)
      BY <1>2 DEF Replayable
    <2> HIDE DEF f
    <2>5. f \in 1 .. Len(s) /\ s[f] = Torn
      BY <2>3 DEF Tears
    <2>6. \A i \in 1 .. f - 1 : s[i] \in Record /\ s[i] # Torn
      <3>1. ASSUME NEW i \in 1 .. f - 1 PROVE s[i] \in Record /\ s[i] # Torn
        <4>1. i \in 1 .. Len(s) /\ ~ (f <= i)
          BY <2>5
        <4>2. i \notin Tears(s)
          BY <2>3, <4>1
        <4> QED
          BY <4>1, <4>2 DEF Tears, Cell
      <3> QED
        BY <3>1
    <2>7. /\ SubSeq(s, 1, f - 1) \in Seq(Record)
          /\ Len(SubSeq(s, 1, f - 1)) = f - 1
          /\ \A i \in 1 .. f - 1 : SubSeq(s, 1, f - 1)[i] = s[i]
      BY <2>5, <2>6, SubSeqProperties
    <2> QED
      BY <2>4, <2>5, <2>6, <2>7
  <1> QED
    BY <1>1, <1>2

\* The numbers that a recovery replays: those before any torn record.
LEMMA ReplayedIds ==
  ASSUME NEW s \in Seq(Cell), NEW x
  PROVE  x \in IdsOf(Replayable(s)) <=>
           \E i \in 1 .. Len(s) : s[i].id = x /\ \A j \in 1 .. i : s[j] # Torn
PROOF
  <1> DEFINE p == Len(Replayable(s))
  <1>1. /\ Replayable(s) \in Seq(Record) /\ p \in Nat /\ Len(s) \in Nat /\ p <= Len(s)
        /\ \A i \in 1 .. p : Replayable(s)[i] = s[i] /\ s[i] # Torn
        /\ p < Len(s) => s[p + 1] = Torn
    BY ReplayablePart
  <1>2. \A i \in 1 .. p : Replayable(s)[i] # Torn
    BY <1>1
  <1>3. x \in IdsOf(Replayable(s)) <=> \E i \in 1 .. p : s[i].id = x
    <2>1. x \in IdsOf(Replayable(s)) <=>
            \E i \in 1 .. p : Replayable(s)[i] # Torn /\ Replayable(s)[i].id = x
      BY IdsMember
    <2> QED
      BY <1>1, <2>1
  <1> HIDE DEF p
  <1>4. ASSUME NEW i \in 1 .. Len(s)
        PROVE  (\A j \in 1 .. i : s[j] # Torn) <=> i \in 1 .. p
    <2>1. CASE i <= p
      BY <1>1, <2>1
    <2>2. CASE i > p
      BY <1>1, <2>2
    <2> QED
      BY <1>1, <2>1, <2>2
  <1> QED
    BY <1>1, <1>3, <1>4

\* Replaying gives a table; one more record changes its key alone.
LEMMA ReplayTable ==
  ASSUME NEW s \in Seq(Record)
  PROVE  Replay(s) \in Table
PROOF
  <1>1. ASSUME NEW k \in Keys PROVE Replay(s)[k] \in Entry
    <2> DEFINE at == {i \in 1 .. Len(s) : s[i].key = k}
    <2> DEFINE l == CHOOSE i \in at : \A j \in at : j <= i
    <2>1. Replay(s)[k] = IF at = {} THEN Absent ELSE s[l].val
      BY DEF Replay
    <2>2. CASE at = {}
      BY <2>1, <2>2 DEF Entry
    <2>3. CASE at # {}
      <3>1. Len(s) \in Nat /\ at \subseteq 1 .. Len(s)
        OBVIOUS
      <3> HIDE DEF at
      <3>2. \E i \in at : \A j \in at : j <= i
        BY <2>3, <3>1, GreatestOf
      <3>3. l \in at
        BY <3>2
      <3> HIDE DEF l
      <3>4. s[l] \in Record
        BY <3>1, <3>3
      <3> QED
        BY <2>1, <2>3, <3>4 DEF Record, Mutation, Entry
    <2> QED
      BY <2>2, <2>3
  <1> QED
    BY <1>1 DEF Replay, Table

LEMMA ReplayOneMore ==
  ASSUME NEW s \in Seq(Record), NEW r \in Record
  PROVE  Replay(s \o <<r>>) = [Replay(s) EXCEPT ![r.key] = r.val]
PROOF
  <1> DEFINE t == s \o <<r>>
  <1>1. /\ t \in Seq(Record) /\ Len(t) = Len(s) + 1 /\ Len(s) \in Nat
        /\ \A i \in 1 .. Len(s) : t[i] = s[i]
        /\ t[Len(s) + 1] = r
    OBVIOUS
  <1> HIDE DEF t
  <1>2. ASSUME NEW k \in Keys
        PROVE  Replay(t)[k] = IF k = r.key THEN r.val ELSE Replay(s)[k]
    <2> DEFINE at(u) == {i \in 1 .. Len(u) : u[i].key = k}
    <2> DEFINE last(u) == CHOOSE i \in at(u) : \A j \in at(u) : j <= i
    <2>1. /\ Replay(t)[k] = IF at(t) = {} THEN Absent ELSE t[last(t)].val
          /\ Replay(s)[k] = IF at(s) = {} THEN Absent ELSE s[last(s)].val
      BY DEF Replay
    <2>2. CASE k = r.key
      <3>1. Len(s) + 1 \in at(t) /\ \A j \in at(t) : j <= Len(s) + 1
        BY <1>1, <2>2
      <3>2. last(t) \in at(t) /\ \A j \in at(t) : j <= last(t)
        BY <3>1
      <3>3. last(t) \in Int /\ last(t) <= Len(s) + 1 /\ Len(s) + 1 <= last(t)
        BY <1>1, <3>1, <3>2
      <3>4. last(t) = Len(s) + 1
        BY <1>1, <3>3
      <3> QED
        BY <1>1, <2>1, <2>2, <3>1, <3>4
    <2>3. CASE k # r.key
      <3>1. at(t) = at(s)
        BY <1>1, <2>3
      <3>2. last(t) = last(s)
        BY <3>1
      <3>3. CASE at(s) = {}
        BY <2>1, <2>3, <3>1, <3>3
      <3>4. CASE at(s) # {}
        <4>1. at(s) \subseteq 1 .. Len(s)
          OBVIOUS
        <4> HIDE DEF at
        <4>2. \E i \in at(s) : \A j \in at(s) : j <= i
          BY <1>1, <3>4, <4>1, GreatestOf
        <4>3. last(s) \in at(s)
          BY <4>2
        <4> QED
          BY <1>1, <2>1, <2>3, <3>1, <3>2, <3>4, <4>1, <4>3
      <3> QED
        BY <3>3, <3>4
    <2> QED
      BY <2>2, <2>3
  <1>3. Replay(t) \in Table /\ Replay(s) \in Table
    BY <1>1, ReplayTable
  <1> QED
    BY <1>2, <1>3 DEF t, Table

-----------------------------------------------------------------------------
(* The shape of the log before and after a step.                           *)

\* Sequence t continues sequence s.
Continues(t, s) == Len(s) <= Len(t) /\ \A i \in 1 .. Len(s) : t[i] = s[i]

LEMMA ConcatContinues ==
  ASSUME NEW S, NEW s \in Seq(S), NEW t \in Seq(S)
  PROVE  /\ s \o t \in Seq(S) /\ Len(s \o t) = Len(s) + Len(t)
         /\ Len(s) \in Nat /\ Len(t) \in Nat
         /\ Continues(s \o t, s)
         /\ \A i \in 1 .. Len(s) : (s \o t)[i] = s[i]
PROOF
  <1>1. /\ s \o t \in Seq(S) /\ Len(s \o t) = Len(s) + Len(t)
        /\ Len(s) \in Nat /\ Len(t) \in Nat
        /\ \A i \in 1 .. Len(s) + Len(t) : (s \o t)[i] =
                     IF i <= Len(s) THEN s[i] ELSE t[i - Len(s)]
    BY ConcatProperties
  <1>2. \A i \in 1 .. Len(s) : (s \o t)[i] = s[i]
    BY <1>1
  <1> QED
    BY <1>1, <1>2 DEF Continues

LEMMA PrefixShape ==
  ASSUME NEW S, NEW s \in Seq(S), NEW n \in 0 .. Len(s)
  PROVE  /\ SubSeq(s, 1, n) \in Seq(S) /\ Len(SubSeq(s, 1, n)) = n
         /\ \A i \in 1 .. n : SubSeq(s, 1, n)[i] = s[i]
         /\ Continues(s, SubSeq(s, 1, n))
PROOF
  <1>1. /\ SubSeq(s, 1, n) \in Seq(S) /\ Len(SubSeq(s, 1, n)) = n
        /\ \A i \in 1 .. n : SubSeq(s, 1, n)[i] = s[i]
    <2>1. \A i \in 1 .. n : s[i] \in S
      OBVIOUS
    <2> QED
      BY <2>1, SubSeqProperties
  <1> QED
    BY <1>1 DEF Continues

LEMMA ContinuedIds ==
  ASSUME NEW S, NEW s \in Seq(S), NEW t \in Seq(S), Continues(t, s)
  PROVE  IdsOf(s) \subseteq IdsOf(t)
PROOF
  <1>1. ASSUME NEW x \in IdsOf(s) PROVE x \in IdsOf(t)
    <2>1. PICK i \in 1 .. Len(s) : s[i] # Torn /\ s[i].id = x
      BY IdsMember
    <2>2. i \in 1 .. Len(t) /\ t[i] = s[i]
      BY DEF Continues
    <2> QED
      BY <2>1, <2>2, IdsMember
  <1> QED
    BY <1>1

LEMMA LogTyped ==
  ASSUME WalTypeOK
  PROVE  /\ file \in Seq(Cell) /\ buf \in Seq(Cell) /\ Log \in Seq(Cell)
         /\ Len(file) \in Nat /\ Len(buf) \in Nat /\ synced \in Nat
         /\ Len(Log) = Len(file) + Len(buf)
         /\ \A i \in 1 .. Len(Log) :
              Log[i] = IF i <= Len(file) THEN file[i] ELSE buf[i - Len(file)]
         /\ Complete \in 0 .. Len(file) /\ synced <= Complete
         /\ ~ partial => Complete = Len(file)
         /\ partial => Complete = Len(file) - 1
         /\ Covered \in Seq(Cell) /\ Len(Covered) = Complete
         /\ \A i \in 1 .. Complete : Covered[i] = file[i]
PROOF
  <1>1. file \in Seq(Cell) /\ buf \in Seq(Cell) /\ Len(file) \in Nat /\ Len(buf) \in Nat
    BY SeqMonotonic DEF WalTypeOK, Cell
  <1>2. /\ Log \in Seq(Cell) /\ Len(Log) = Len(file) + Len(buf)
        /\ \A i \in 1 .. Len(Log) :
              Log[i] = IF i <= Len(file) THEN file[i] ELSE buf[i - Len(file)]
    BY <1>1, ConcatProperties DEF Log
  <1>3. /\ Complete \in 0 .. Len(file) /\ synced <= Complete /\ synced \in Nat
        /\ ~ partial => Complete = Len(file)
        /\ partial => Complete = Len(file) - 1
    BY <1>1 DEF WalTypeOK, Complete
  <1>4. /\ Covered \in Seq(Cell) /\ Len(Covered) = Complete
        /\ \A i \in 1 .. Complete : Covered[i] = file[i]
    BY <1>1, <1>3, PrefixShape DEF Covered
  <1> QED
    BY <1>1, <1>2, <1>3, <1>4

\* An fsync covers what an earlier one would have covered.
LEMMA CoveredGrows ==
  ASSUME WalTypeOK, file' \in Seq(Cell), Continues(file', file),
         Complete' \in Nat, Complete <= Complete'
  PROVE  IdsOf(Covered) \subseteq IdsOf(Covered')
PROOF
  <1>1. Complete' \in 0 .. Len(file')
    BY DEF Complete
  <1>2. /\ Covered' \in Seq(Cell) /\ Len(Covered') = Complete'
        /\ \A i \in 1 .. Complete' : Covered'[i] = file'[i]
    BY <1>1, PrefixShape DEF Covered
  <1>3. /\ Covered \in Seq(Cell) /\ Len(Covered) = Complete
        /\ \A i \in 1 .. Complete : Covered[i] = file[i]
        /\ Complete \in 0 .. Len(file) /\ Len(file) \in Nat
    BY LogTyped
  <1>4. \A i \in 1 .. Complete : i \in 1 .. Complete' /\ i \in 1 .. Len(file)
    BY <1>3
  <1>5. \A i \in 1 .. Complete : Covered'[i] = Covered[i]
    BY <1>2, <1>3, <1>4 DEF Continues
  <1>6. Continues(Covered', Covered)
    BY <1>2, <1>3, <1>5 DEF Continues
  <1> QED
    BY <1>2, <1>3, <1>6, ContinuedIds

\* WAL.Append puts the record at the end of the log, wherever the buffer ends.
LEMMA BufferedShape ==
  ASSUME WalTypeOK, NEW r \in Record, Buffered(r)
  PROVE  /\ buf' \in Seq(Record) /\ Len(buf') <= BufCap
         /\ file' \in Seq(Cell) /\ partial' \in BOOLEAN
         /\ Log' = Log \o <<r>>
         /\ Continues(file', file) /\ Complete' \in Nat /\ Complete <= Complete'
         /\ Tears(file') = {} => Tears(file) = {}
PROOF
  <1>1. /\ file \in Seq(Cell) /\ buf \in Seq(Cell) /\ buf \in Seq(Record)
        /\ Len(file) \in Nat /\ Len(buf) \in Nat /\ BufCap \in Nat \ {0}
        /\ Complete \in 0 .. Len(file) /\ Len(buf) <= BufCap /\ partial \in BOOLEAN
    BY LogTyped, WalAssumption DEF WalTypeOK
  <1>2. <<r>> \in Seq(Record) /\ <<r>> \in Seq(Cell) /\ Len(<<r>>) = 1
    BY DEF Cell
  <1>3. CASE Len(buf) < BufCap /\ buf' = buf \o <<r>> /\ UNCHANGED <<file, partial>>
    <2>1. Log' = Log \o <<r>>
      <3>1. file \o (buf \o <<r>>) = (file \o buf) \o <<r>>
        <4>1. Associates(file, buf, <<r>>)
          BY <1>1, <1>2, Associative, Zenon
        <4> QED
          BY <4>1, Zenon DEF Associates
      <3> QED
        BY <1>3, <3>1, Zenon DEF Log
    <2>2. buf' \in Seq(Record) /\ Len(buf') = Len(buf) + 1
      BY <1>1, <1>2, <1>3, ConcatProperties
    <2> QED
      BY <1>1, <1>3, <2>1, <2>2 DEF Continues, Complete
  <1>4. CASE Len(buf) = BufCap /\ file' = (file \o buf) \o <<r>> /\ buf' = << >>
             /\ partial' = TRUE
    <2>1. file' \in Seq(Cell) /\ Len(file') = Len(file) + Len(buf) + 1
          /\ \A i \in 1 .. Len(file) : file'[i] = file[i]
      <3>1. /\ file \o buf \in Seq(Cell) /\ Len(file \o buf) = Len(file) + Len(buf)
            /\ \A i \in 1 .. Len(file) : (file \o buf)[i] = file[i]
        BY <1>1, ConcatContinues
      <3>2. /\ (file \o buf) \o <<r>> \in Seq(Cell)
            /\ Len((file \o buf) \o <<r>>) = Len(file \o buf) + 1
            /\ \A i \in 1 .. Len(file \o buf) :
                 ((file \o buf) \o <<r>>)[i] = (file \o buf)[i]
        BY <1>2, <3>1, ConcatContinues
      <3> QED
        BY <1>1, <1>4, <3>1, <3>2
    <2>2. Log' = Log \o <<r>>
      BY <1>4, <2>1, ConcatEmptySeq DEF Log
    <2>3. Tears(file') = {} => Tears(file) = {}
      BY <1>1, <2>1 DEF Tears
    <2>4. Complete' = Len(file) + Len(buf)
      BY <1>1, <1>4, <2>1 DEF Complete
    <2>5. buf' \in Seq(Record) /\ Len(buf') = 0
      BY <1>4
    <2>6. partial' \in BOOLEAN /\ Len(buf') <= BufCap /\ Complete' \in Nat
          /\ Complete <= Complete'
      BY <1>1, <1>4, <2>4, <2>5
    <2>7. Continues(file', file)
      BY <1>1, <2>1 DEF Continues
    <2> QED
      BY <2>1, <2>2, <2>3, <2>5, <2>6, <2>7, Zenon
  <1>5. CASE Len(buf) = BufCap /\ file' = file \o buf /\ buf' = <<r>> /\ partial' = FALSE
    <2>1. file' \in Seq(Cell) /\ Len(file') = Len(file) + Len(buf)
          /\ \A i \in 1 .. Len(file) : file'[i] = file[i]
      BY <1>1, <1>5, ConcatContinues
    <2>2. Log' = Log \o <<r>>
      BY <1>5 DEF Log
    <2>3. Tears(file') = {} => Tears(file) = {}
      BY <1>1, <2>1 DEF Tears
    <2>4. Complete' = Len(file) + Len(buf)
      BY <1>1, <1>5, <2>1 DEF Complete
    <2>5. partial' \in BOOLEAN /\ Len(buf') <= BufCap /\ buf' \in Seq(Record)
          /\ Complete' \in Nat /\ Complete <= Complete'
      <3>1. partial' \in BOOLEAN
        BY <1>5
      <3>2. Len(buf') <= BufCap /\ buf' \in Seq(Record)
        BY <1>1, <1>2, <1>5
      <3>3. Complete' \in Nat /\ Complete <= Complete'
        BY <1>1, <2>4
      <3> QED
        BY <3>1, <3>2, <3>3
    <2>6. Continues(file', file)
      BY <1>1, <2>1 DEF Continues
    <2> QED
      BY <2>1, <2>2, <2>3, <2>5, <2>6, Zenon
  <1> QED
    BY <1>3, <1>4, <1>5 DEF Buffered

\* A write that fails loses nothing but perhaps the record it was called for.
LEMMA FailedWriteShape ==
  ASSUME WalTypeOK, NEW r, NEW s, FailedWrite(s),
         s = buf \/ (r \in Record /\ s = buf \o <<r>>)
  PROVE  /\ buf' \in Seq(Record) /\ Len(buf') <= BufCap
         /\ file' \in Seq(Cell) /\ partial' \in BOOLEAN
         /\ Log' = Log \/ (Log' = Log \o <<r>> /\ s # buf)
         /\ Continues(file', file) /\ Complete' \in Nat /\ synced <= Complete'
         /\ broken' = TRUE /\ failed' = TRUE
PROOF
  <1>1. /\ file \in Seq(Cell) /\ buf \in Seq(Cell) /\ buf \in Seq(Record)
        /\ Len(file) \in Nat /\ Len(buf) \in Nat /\ BufCap \in Nat \ {0}
        /\ Complete \in 0 .. Len(file) /\ Len(buf) <= BufCap /\ partial \in BOOLEAN
        /\ synced \in Nat /\ synced <= Complete
        /\ partial => Complete = Len(file) - 1
    BY LogTyped, WalAssumption DEF WalTypeOK
  <1>2. r \in Record => <<r>> \in Seq(Record) /\ <<r>> \in Seq(Cell) /\ Len(<<r>>) = 1
    BY DEF Cell
  <1>3. PICK n \in 0 .. Len(s), cut \in BOOLEAN :
          /\ n = 0 /\ cut => partial
          /\ file' = file \o SubSeq(s, 1, n)
          /\ partial' = cut
          /\ buf' = SubSeq(buf, n + 1, Len(buf))
          /\ broken' = TRUE /\ failed' = TRUE
    BY DEF FailedWrite
  <1>4. /\ s \in Seq(Cell) /\ s \in Seq(Record) /\ Len(s) <= Len(buf) + 1
        /\ Len(s) \in Nat /\ Len(s) >= Len(buf)
        /\ \A i \in 1 .. Len(buf) : s[i] = buf[i]
    <2>1. CASE s = buf
      BY <1>1, <2>1
    <2>2. CASE r \in Record /\ s = buf \o <<r>>
      BY <1>1, <1>2, <2>2, ConcatContinues
    <2> QED
      BY <2>1, <2>2
  <1>5. SubSeq(s, 1, n) \in Seq(Cell) /\ Len(SubSeq(s, 1, n)) = n
        /\ \A i \in 1 .. n : SubSeq(s, 1, n)[i] = s[i]
    <2>1. \A i \in 1 .. n : s[i] \in Cell
      BY <1>4
    <2> QED
      BY <1>4, <2>1, SubSeqProperties
  <1>6. /\ file' \in Seq(Cell) /\ Len(file') = Len(file) + n
        /\ \A i \in 1 .. Len(file) : file'[i] = file[i]
    BY <1>1, <1>3, <1>5, ConcatProperties
  <1>7. Complete' \in Nat /\ synced <= Complete'
    BY <1>1, <1>3, <1>6 DEF Complete
  <1>8. buf' \in Seq(Record) /\ Len(buf') <= Len(buf)
    <2>1. \A i \in n + 1 .. Len(buf) : buf[i] \in Record
      BY <1>1
    <2>2. /\ buf' \in Seq(Record)
          /\ Len(buf') = IF n + 1 <= Len(buf) THEN Len(buf) - (n + 1) + 1 ELSE 0
      BY <1>1, <1>3, <2>1, SubSeqProperties
    <2> QED
      BY <1>1, <2>2
  <1>9. Log' = Log \/ (Log' = Log \o <<r>> /\ s # buf)
    <2>1. CASE n <= Len(buf)
      <3>1. SubSeq(buf, 1, n) \in Seq(Cell) /\ Len(SubSeq(buf, 1, n)) = n
            /\ \A i \in 1 .. n : SubSeq(buf, 1, n)[i] = buf[i]
        <4>1. \A i \in 1 .. n : buf[i] \in Cell
          BY <1>1, <2>1
        <4> QED
          BY <1>1, <2>1, <4>1, SubSeqProperties
      <3>2. SubSeq(s, 1, n) = SubSeq(buf, 1, n)
        <4>1. \A i \in 1 .. n : SubSeq(s, 1, n)[i] = SubSeq(buf, 1, n)[i]
          BY <1>4, <1>5, <2>1, <3>1
        <4> QED
          BY <1>5, <3>1, <4>1, SeqEqual
      <3>3. SubSeq(buf, 1, n) \o SubSeq(buf, n + 1, Len(buf)) = SubSeq(buf, 1, Len(buf))
        <4>1. 1 \in 1 .. Len(buf) + 1 /\ n \in 1 - 1 .. Len(buf)
              /\ Len(buf) \in n .. Len(buf)
          BY <1>1, <1>4, <2>1
        <4> QED
          BY <1>1, <4>1, ConcatAdjacentSubSeq
      <3>4. SubSeq(buf, 1, Len(buf)) = buf
        BY <1>1, SubSeqFull
      <3>5. buf' \in Seq(Cell)
        BY <1>8, SeqMonotonic DEF Cell
      <3>6. Log' = file \o (SubSeq(buf, 1, n) \o SubSeq(buf, n + 1, Len(buf)))
        <4>1. Log' = (file \o SubSeq(buf, 1, n)) \o buf'
          BY <1>3, <3>2 DEF Log
        <4>2. (file \o SubSeq(buf, 1, n)) \o buf' = file \o (SubSeq(buf, 1, n) \o buf')
          <5>1. Associates(file, SubSeq(buf, 1, n), buf')
            BY <1>1, <3>1, <3>5, Associative, Zenon
          <5> QED
            BY <5>1, Zenon DEF Associates
        <4> QED
          BY <1>3, <4>1, <4>2
      <3> QED
        BY <3>3, <3>4, <3>6 DEF Log
    <2>2. CASE n > Len(buf)
      <3>1. r \in Record /\ s = buf \o <<r>> /\ n = Len(s) /\ s # buf
        BY <1>1, <1>4, <2>2
      <3>2. SubSeq(s, 1, n) = s
        BY <1>4, <3>1, SubSeqFull
      <3>3. buf' = << >>
        BY <1>1, <1>3, <2>2, SubSeqEmpty
      <3>4. file' \o << >> = file'
        BY <1>6, ConcatEmptySeq
      <3>5. Log' = file \o (buf \o <<r>>)
        BY <1>3, <3>1, <3>2, <3>3, <3>4 DEF Log
      <3>6. file \o (buf \o <<r>>) = (file \o buf) \o <<r>>
        <4>1. Associates(file, buf, <<r>>)
          BY <1>1, <1>2, <3>1, Associative, Zenon
        <4> QED
          BY <4>1, Zenon DEF Associates
      <3> QED
        BY <3>1, <3>5, <3>6 DEF Log
    <2>3. n <= Len(buf) \/ n > Len(buf)
      <3>1. n \in Int /\ Len(buf) \in Int
        BY <1>1, <1>4
      <3> QED
        BY <3>1
    <2> QED
      BY <2>1, <2>2, <2>3, Zenon
  <1>10. Continues(file', file)
    BY <1>1, <1>4, <1>6 DEF Continues
  <1> QED
    <2>1. Len(buf') <= BufCap
      BY <1>1, <1>8
    <2> QED
      BY <1>3, <1>6, <1>7, <1>8, <1>9, <1>10, <2>1, Zenon

-----------------------------------------------------------------------------
(* Each step keeps the invariant.                                          *)

\* A new record has a new number.
LEMMA LogGrows ==
  ASSUME WalTypeOK, Numbered, Placed, NEW r,
         Log' = Log \/ (r \in Record /\ r.id = puts + 1 /\ Log' = Log \o <<r>>),
         puts' = puts + 1 \/ (puts' = puts /\ Log' = Log),
         durable' = durable, synced' = synced
  PROVE  Numbered' /\ Placed'
PROOF
  <1>1. /\ Log \in Seq(Cell) /\ Len(Log) \in Nat /\ puts \in Nat
        /\ \A i \in 1 .. Len(Log) : Log[i] # Torn => Log[i] \in Record
        /\ durable \subseteq 1 .. puts /\ synced \in Nat
    BY LogTyped, WalAssumption DEF WalTypeOK, Cell, Numbered
  <1>2. \A x \in Record : x.id \in Nat
    BY DEF Record, RecordId
  <1>3. durable' \subseteq 1 .. puts'
    BY <1>1
  <1>4. CASE Log' = Log
    BY <1>1, <1>2, <1>3, <1>4 DEF Numbered, Placed
  <1>5. CASE r \in Record /\ r.id = puts + 1 /\ Log' = Log \o <<r>>
    <2>1. Log' \in Seq(Cell) /\ Len(Log') = Len(Log) + 1
          /\ (\A i \in 1 .. Len(Log) : Log'[i] = Log[i]) /\ Log'[Len(Log) + 1] = r
      BY <1>1, <1>5 DEF Cell
    <2>2. puts' = puts + 1
      BY <1>1, <1>5, <2>1
    <2>3. r.id \notin durable
      BY <1>1, <1>5
    <2>4. \A i \in 1 .. Len(Log') : i \in 1 .. Len(Log) \/ i = Len(Log) + 1
      BY <1>1, <2>1
    <2>5. \A i \in 1 .. Len(Log) : Log[i] # Torn => Log[i].id # r.id /\ Log[i].id \in Nat
      BY <1>1, <1>2, <1>5 DEF Numbered
    <2>6. \A i \in 1 .. Len(Log') : Log'[i] # Torn => Log'[i].id <= puts'
      BY <1>1, <1>2, <1>5, <2>1, <2>2, <2>4, <2>5 DEF Numbered
    <2>7. \A i, j \in 1 .. Len(Log') :
            Log'[i] # Torn /\ Log'[j] # Torn /\ Log'[i].id = Log'[j].id => i = j
      BY <2>1, <2>4, <2>5 DEF Numbered
    <2>8. Placed'
      BY <2>1, <2>3, <2>4 DEF Placed
    <2> QED
      BY <1>3, <2>6, <2>7, <2>8 DEF Numbered
  <1> QED
    BY <1>4, <1>5

\* The record a call makes.
LEMMA NewRecordTyped ==
  ASSUME WalTypeOK, puts < MaxPuts, NEW k \in Keys, NEW m \in Mutation
  PROVE  NewRecord(k, m) \in Record /\ NewRecord(k, m).id = puts + 1
         /\ puts \in Nat /\ puts + 1 \in 0 .. MaxPuts
PROOF
  BY WalAssumption DEF WalTypeOK, NewRecord, Record, RecordId

LEMMA InitWal == WalInit => WalIInv /\ Rebuilt
PROOF
  <1> SUFFICES ASSUME WalInit PROVE WalIInv /\ Rebuilt
    OBVIOUS
  <1>1. buf = << >> /\ file = << >> /\ Log = << >> /\ Len(Log) = 0
    BY DEF WalInit, Log
  <1>2. WalTypeOK
    <2>1. /\ partial \in BOOLEAN /\ broken \in BOOLEAN /\ final \in BOOLEAN
          /\ up \in BOOLEAN /\ failed \in BOOLEAN
      BY DEF WalInit
    <2>2. /\ buf \in Seq(Record) /\ Len(buf) <= BufCap
          /\ file \in Seq(Record \cup {Torn})
          /\ synced \in 0 .. Complete
      BY <1>1, WalAssumption DEF WalInit, Complete
    <2>3. /\ mem \in Table /\ puts \in 0 .. MaxPuts /\ crashes \in 0 .. MaxCrashes
          /\ pc \in [Writers -> {"idle", "insert", "ack"}]
          /\ rec \in [Writers -> Record \cup {NoRecord}]
      BY WalAssumption DEF WalInit, NoTable, Table, Entry
    <2> QED
      BY <2>1, <2>2, <2>3 DEF WalInit, WalTypeOK
  <1>3. Processes /\ Numbered /\ Placed
    BY <1>1 DEF WalInit, Processes, Numbered, Placed
  <1>4. Closing
    BY DEF WalInit, Closing, CloseIsDurable
  <1>5. Rebuilt
    <2>1. Replay(Log) = NoTable
      BY <1>1 DEF Replay, NoTable
    <2> QED
      BY <2>1 DEF WalInit, Rebuilt, KeyRebuilt, InsertsKey
  <1> QED
    BY <1>2, <1>3, <1>4, <1>5 DEF WalIInv

LEMMA AppendKeeps ==
  ASSUME WalIInv, NEW w \in Writers, AppendRecord(w)
  PROVE  WalIInv'
PROOF
  <1> USE DEF WalIInv
  <1>1. PICK k \in Keys, m \in Mutation :
          /\ Buffered(NewRecord(k, m)) /\ rec' = [rec EXCEPT ![w] = NewRecord(k, m)]
          /\ raced' = IF Inserting(k) THEN raced \cup {k} ELSE raced \ {k}
    BY DEF AppendRecord
  <1> DEFINE r == NewRecord(k, m)
  <1>2. /\ up /\ pc[w] = "idle" /\ puts < MaxPuts /\ puts' = puts + 1 /\ ~ broken
        /\ pc' = [pc EXCEPT ![w] = "insert"]
        /\ UNCHANGED <<synced, broken, spc, final, close, up, mem, crashes, durable,
                       closing, failed, acked>>
    BY DEF AppendRecord
  <1>3. r \in Record /\ r.id = puts + 1 /\ puts + 1 \in 0 .. MaxPuts
    BY <1>2, NewRecordTyped
  <1> HIDE DEF r
  <1>4. /\ buf' \in Seq(Record) /\ Len(buf') <= BufCap
        /\ file' \in Seq(Cell) /\ partial' \in BOOLEAN
        /\ Log' = Log \o <<r>>
        /\ Continues(file', file) /\ Complete' \in Nat /\ Complete <= Complete'
    BY <1>1, <1>3, BufferedShape DEF r
  <1>5. synced' \in 0 .. Complete'
    BY <1>2, <1>4, LogTyped
  <1>6. /\ pc' \in [Writers -> {"idle", "insert", "ack"}]
        /\ rec' \in [Writers -> Record \cup {NoRecord}]
    BY <1>1, <1>2, <1>3 DEF WalTypeOK, r
  <1>7. WalTypeOK'
    <2>1. raced' \subseteq Keys
      BY <1>1 DEF WalTypeOK
    <2> QED
      BY <1>2, <1>3, <1>4, <1>5, <1>6, <2>1 DEF WalTypeOK, Cell
  <1>8. Processes'
    BY <1>1, <1>2, <1>3, <1>6 DEF Processes, WalTypeOK, r
  <1>9. Numbered' /\ Placed'
    BY <1>2, <1>3, <1>4, LogGrows
  <1>10. Closing'
    <2>1. IdsOf(Log) \subseteq IdsOf(Log')
      <3>1. <<r>> \in Seq(Cell)
        BY <1>3 DEF Cell
      <3>2. Log' \in Seq(Cell) /\ Continues(Log', Log)
        BY <1>4, <3>1, LogTyped, ConcatContinues
      <3> QED
        BY <3>2, LogTyped, ContinuedIds
    <2>2. IdsOf(Covered) \subseteq IdsOf(Covered')
      BY <1>4, CoveredGrows
    <2> QED
      BY <1>2, <2>1, <2>2 DEF Closing, CloseIsDurable
  <1> QED
    BY <1>7, <1>8, <1>9, <1>10

LEMMA AppendFailsKeeps ==
  ASSUME WalIInv, NEW w \in Writers, AppendFails(w)
  PROVE  WalIInv'
PROOF
  <1> USE DEF WalIInv
  <1>1. PICK k \in Keys, m \in Mutation : FailedWrite(buf \o <<NewRecord(k, m)>>)
    BY DEF AppendFails
  <1> DEFINE r == NewRecord(k, m)
  <1>2. /\ up /\ puts < MaxPuts /\ puts' = puts + 1
        /\ UNCHANGED <<synced, spc, final, close, up, mem, pc, rec, crashes, durable,
                       closing, raced, acked>>
    BY DEF AppendFails, callHistory
  <1>3. r \in Record /\ r.id = puts + 1 /\ puts + 1 \in 0 .. MaxPuts
    BY <1>2, NewRecordTyped
  <1> HIDE DEF r
  <1>4. /\ buf' \in Seq(Record) /\ Len(buf') <= BufCap
        /\ file' \in Seq(Cell) /\ partial' \in BOOLEAN
        /\ Log' = Log \/ Log' = Log \o <<r>>
        /\ Complete' \in Nat /\ synced <= Complete'
        /\ broken' = TRUE /\ failed' = TRUE
    BY <1>1, <1>3, FailedWriteShape DEF r
  <1>5. synced' \in 0 .. Complete' /\ broken' \in BOOLEAN /\ failed' \in BOOLEAN
    BY <1>2, <1>4, LogTyped
  <1>6. WalTypeOK'
    BY <1>2, <1>3, <1>4, <1>5 DEF WalTypeOK, Cell
  <1>7. Processes'
    BY <1>2 DEF Processes
  <1>8. Numbered' /\ Placed'
    BY <1>2, <1>3, <1>4, LogGrows
  <1>9. Closing'
    BY <1>2, <1>4 DEF Closing, CloseIsDurable
  <1> QED
    BY <1>6, <1>7, <1>8, <1>9

LEMMA FlushFailsKeeps ==
  ASSUME WalIInv, FlushFails
  PROVE  WalIInv'
PROOF
  <1> USE DEF WalIInv
  <1>1. /\ up /\ FailedWrite(buf) /\ final' \in {FALSE, close = "called"}
        /\ spc' = IF final' THEN "done" ELSE "tick"
        /\ UNCHANGED <<synced, close, up, mem, pc, rec, puts, crashes, durable, closing,
                       raced, acked>>
    BY DEF FlushFails, writeVars, callHistory
  <1>2. /\ buf' \in Seq(Record) /\ Len(buf') <= BufCap
        /\ file' \in Seq(Cell) /\ partial' \in BOOLEAN
        /\ Log' = Log /\ Complete' \in Nat /\ synced <= Complete'
        /\ broken' = TRUE /\ failed' = TRUE
    BY <1>1, FailedWriteShape
  <1>3. /\ synced' \in 0 .. Complete' /\ broken' \in BOOLEAN /\ failed' \in BOOLEAN
        /\ final' \in BOOLEAN
    <2>1. final' \in BOOLEAN
      BY <1>1
    <2> QED
      BY <1>1, <1>2, <2>1, LogTyped
  <1>4. WalTypeOK'
    BY <1>1, <1>2, <1>3 DEF WalTypeOK, Cell
  <1>5. Processes'
    BY <1>1 DEF Processes
  <1>6. Numbered' /\ Placed'
    BY <1>1, <1>2, LogGrows
  <1>7. final' => close' # "open"
    BY <1>1
  <1>8. Closing'
    BY <1>1, <1>2, <1>7 DEF Closing, CloseIsDurable
  <1> QED
    BY <1>4, <1>5, <1>6, <1>8

\* Inserting and returning leave the log alone.
LEMMA CallKeeps ==
  ASSUME WalIInv, NEW w \in Writers, InsertMem(w) \/ Ack(w)
  PROVE  WalIInv'
PROOF
  <1> USE DEF WalIInv
  <1>1. /\ up /\ UNCHANGED <<logVars, spc, final, close, up, puts, crashes, durable,
                             closing, failed, raced>>
        /\ \/ /\ pc[w] = "insert" /\ rec' = rec /\ pc' = [pc EXCEPT ![w] = "ack"]
              /\ mem' = [mem EXCEPT ![rec[w].key] = rec[w].val] /\ acked' = acked
           \/ /\ pc[w] = "ack" /\ pc' = [pc EXCEPT ![w] = "idle"] /\ mem' = mem
              /\ rec' = [rec EXCEPT ![w] = NoRecord]
              /\ acked' = acked \cup {rec[w].id}
    BY DEF InsertMem, Ack, ReturnFromPut, ghostVars, callHistory
  <1>2. mem' \in Table
    <2>1. CASE pc[w] = "insert" /\ mem' = [mem EXCEPT ![rec[w].key] = rec[w].val]
      <3>1. rec[w].key \in Keys /\ rec[w].val \in Entry
        BY <2>1 DEF Processes, Record, Mutation, Entry
      <3> QED
        BY <2>1, <3>1 DEF WalTypeOK, Table
    <2>2. CASE mem' = mem
      BY <2>2 DEF WalTypeOK
    <2> QED
      BY <1>1, <2>1, <2>2
  <1>3. /\ pc' \in [Writers -> {"idle", "insert", "ack"}]
        /\ rec' \in [Writers -> Record \cup {NoRecord}]
        /\ acked' \subseteq RecordId
    BY <1>1 DEF WalTypeOK, Processes, Record
  <1>4. WalTypeOK' /\ Processes'
    BY <1>1, <1>2, <1>3 DEF WalTypeOK, Processes, logVars, Complete
  <1> QED
    BY <1>1, <1>4 DEF logVars, Numbered, Placed, Closing, CloseIsDurable,
       Log, Covered, Complete

-----------------------------------------------------------------------------
(* syncLoop and Close.                                                     *)

LEMMA FlushKeeps ==
  ASSUME WalIInv, FlushBuffer
  PROVE  WalIInv' /\ Log' = Log
PROOF
  <1> USE DEF WalIInv
  <1>1. /\ up /\ spc = "tick" /\ final' \in {FALSE, close = "called"}
        /\ UNCHANGED <<synced, broken, close, up, mem, pc, rec, puts, crashes, durable,
                       closing, failed, raced, acked>>
    BY DEF FlushBuffer, writeVars, ghostVars, callHistory
  <1>2. final' \in BOOLEAN
    BY <1>1
  <1>3. final' => close = "called"
    BY <1>1
  <1>4. CASE broken
    <2>1. /\ buf' = buf /\ file' = file /\ partial' = partial
          /\ spc' = IF final' THEN "done" ELSE "tick"
      BY <1>4 DEF FlushBuffer
    <2>2. WalTypeOK' /\ Processes' /\ Log' = Log
      BY <1>1, <1>2, <2>1 DEF WalTypeOK, Processes, Complete, Log
    <2>3. Numbered' /\ Placed'
      BY <1>1, <2>2 DEF Numbered, Placed
    <2>4. Closing'
      BY <1>1, <1>3, <1>4, <2>1 DEF Closing, CloseIsDurable
    <2> QED
      BY <2>2, <2>3, <2>4
  <1>5. CASE ~ broken
    <2>1. file' = Log /\ buf' = << >> /\ partial' = FALSE /\ spc' = "sync"
      BY <1>5 DEF FlushBuffer, Log
    <2>2. /\ Log \in Seq(Cell) /\ Len(Log) \in Nat /\ synced \in Nat
          /\ synced <= Len(Log) /\ BufCap \in Nat
      BY LogTyped, WalAssumption
    <2>3. Log' = Log
      BY <2>1, <2>2, ConcatEmptySeq DEF Log
    <2>4. partial' \in BOOLEAN /\ Complete' = Len(Log)
      <3>1. partial' \in BOOLEAN
        BY <2>1
      <3>2. Complete' = Len(Log)
        BY <2>1, <2>2 DEF Complete
      <3> QED
        BY <3>1, <3>2
    <2>5. buf' \in Seq(Record) /\ Len(buf') <= BufCap /\ synced' \in 0 .. Complete'
          /\ file' \in Seq(Record \cup {Torn})
      BY <1>1, <2>1, <2>2, <2>4 DEF Cell
    <2>6. WalTypeOK' /\ Processes'
      BY <1>1, <1>2, <2>1, <2>4, <2>5 DEF WalTypeOK, Processes
    <2>7. Numbered' /\ Placed'
      BY <1>1, <2>3 DEF Numbered, Placed
    <2>8. Covered' = Log
      BY <2>1, <2>2, <2>4, SubSeqFull DEF Covered
    <2>9. Closing'
      BY <1>1, <1>3, <2>1, <2>3, <2>8 DEF Closing, CloseIsDurable
    <2> QED
      BY <2>3, <2>6, <2>7, <2>9
  <1> QED
    BY <1>4, <1>5

\* The numbers that an fsync covers are those of the log up to Complete.
LEMMA CoveredIds ==
  ASSUME WalIInv, NEW x \in IdsOf(Covered)
  PROVE  /\ x \in 1 .. puts
         /\ \A i \in 1 .. Len(Log) : Log[i] # Torn /\ Log[i].id = x => i <= Complete
PROOF
  <1>1. PICK j \in 1 .. Len(Covered) : Covered[j] # Torn /\ Covered[j].id = x
    BY IdsMember
  <1>2. /\ j \in 1 .. Len(Log) /\ Log[j] = Covered[j] /\ j <= Complete
        /\ Log[j] \in Record
    BY <1>1, LogTyped DEF WalIInv, Cell
  <1>3. x \in 1 .. MaxPuts /\ x <= puts /\ puts \in Int /\ MaxPuts \in Nat
    BY <1>1, <1>2, WalAssumption DEF WalIInv, WalTypeOK, Numbered, Record, RecordId
  <1>4. x \in 1 .. puts
    BY <1>3
  <1> QED
    BY <1>1, <1>2, <1>4 DEF WalIInv, Numbered

LEMMA FsyncKeeps ==
  ASSUME WalIInv, FsyncFile
  PROVE  WalIInv' /\ Log' = Log
PROOF
  <1> USE DEF WalIInv
  <1>1. /\ up /\ spc = "sync" /\ spc' = IF final THEN "done" ELSE "tick"
        /\ UNCHANGED <<buf, file, partial, broken, final, close, up, mem, pc, rec, puts,
                       crashes, closing, raced, acked>>
    BY DEF FsyncFile, writeVars, callHistory
  <1>2. Log' = Log /\ Complete' = Complete /\ Covered' = Covered /\ Processes'
        /\ Complete \in Nat /\ synced \in Nat /\ synced <= Complete /\ puts \in Nat
        /\ MaxPuts \in Nat /\ puts <= MaxPuts
    BY <1>1, LogTyped, WalAssumption
    DEF Log, Complete, Covered, Processes, WalTypeOK
  <1>3. CASE synced' = Len(Covered) /\ durable' = durable \cup IdsOf(Covered)
             /\ failed' = failed
    <2>1. synced' = Complete
      BY <1>3, LogTyped
    <2>2. durable' \subseteq 1 .. puts
      BY <1>3, CoveredIds DEF Numbered
    <2>3. durable' \subseteq RecordId
      BY <1>2, <2>2 DEF RecordId
    <2>4. WalTypeOK'
      BY <1>1, <1>2, <1>3, <2>1, <2>3 DEF WalTypeOK
    <2>5. Numbered'
      BY <1>1, <1>2, <2>2 DEF Numbered
    <2>6. Placed'
      <3>1. ASSUME NEW i \in 1 .. Len(Log), Log[i] # Torn, Log[i].id \in durable'
            PROVE  i <= Complete
        <4>1. CASE Log[i].id \in durable
          <5>1. i <= synced /\ i \in Int
            BY <3>1, <4>1 DEF Placed
          <5> QED
            BY <1>2, <5>1
        <4>2. CASE Log[i].id \in IdsOf(Covered)
          BY <3>1, <4>2, CoveredIds
        <4> QED
          BY <1>3, <3>1, <4>1, <4>2
      <3> QED
        BY <1>2, <2>1, <3>1 DEF Placed
    <2>7. Closing'
      BY <1>1, <1>2, <1>3 DEF Closing, CloseIsDurable
    <2> QED
      BY <1>2, <2>4, <2>5, <2>6, <2>7
  <1>4. CASE failed' = TRUE /\ UNCHANGED <<synced, durable>>
    <2>1. failed' \in BOOLEAN
      BY <1>4
    <2>2. WalTypeOK'
      BY <1>1, <1>2, <1>4, <2>1 DEF WalTypeOK
    <2>3. Numbered' /\ Placed'
      BY <1>1, <1>2, <1>4 DEF Numbered, Placed
    <2>4. Closing'
      BY <1>1, <1>4 DEF Closing, CloseIsDurable
    <2> QED
      BY <1>2, <2>2, <2>3, <2>4
  <1> QED
    BY <1>3, <1>4 DEF FsyncFile

LEMMA CloseKeeps ==
  ASSUME WalIInv, CloseCalled \/ CloseReturns
  PROVE  WalIInv' /\ Log' = Log
PROOF
  <1> USE DEF WalIInv
  <1>1. /\ up /\ UNCHANGED <<logVars, spc, final, up, mem, writeVars, crashes, durable,
                             failed, raced, acked>>
    BY DEF CloseCalled, CloseReturns, ghostVars, callHistory
  <1>2. /\ Log' = Log /\ Processes' /\ Numbered' /\ Placed' /\ Covered' = Covered
        /\ Complete' = Complete
    BY <1>1 DEF logVars, writeVars, Log, Processes, Numbered, Placed, Covered, Complete
  <1>3. CASE CloseCalled
    <2>1. close = "open" /\ close' = "called" /\ closing' = Logged
      BY <1>3 DEF CloseCalled
    <2>2. Logged = IdsOf(Log)
      BY DEF Logged, Log
    <2>3. IdsOf(Log) \subseteq RecordId
      <3>1. \A i \in 1 .. Len(Log) : Log[i] # Torn => Log[i].id \in RecordId
        BY LogTyped DEF Cell, Record
      <3> QED
        BY <3>1, IdsMember
    <2>4. WalTypeOK'
      BY <1>1, <1>2, <2>1, <2>2, <2>3 DEF WalTypeOK, logVars, writeVars
    <2>5. Closing'
      BY <1>1, <1>2, <2>1, <2>2 DEF Closing, CloseIsDurable, logVars
    <2> QED
      BY <1>2, <2>4, <2>5
  <1>4. CASE CloseReturns
    <2>1. close' = "closed" /\ closing' = closing /\ spc = "done"
      BY <1>4 DEF CloseReturns, ghostVars
    <2>2. WalTypeOK'
      BY <1>1, <1>2, <2>1 DEF WalTypeOK, logVars, writeVars
    <2>3. Closing'
      BY <1>1, <1>2, <2>1 DEF Closing, CloseIsDurable, logVars
    <2> QED
      BY <1>2, <2>2, <2>3
  <1> QED
    BY <1>3, <1>4

-----------------------------------------------------------------------------
(* Crash and restart.                                                      *)

\* A crash cuts the file somewhere behind the synced records, and may leave a
\* torn one there.
LEMMA CrashShape ==
  ASSUME WalTypeOK, Kill \/ LosePower
  PROVE  \E n \in synced .. Complete :
           /\ file' \in Seq(Cell) /\ Len(file') \in {n, n + 1}
           /\ \A i \in 1 .. n : file'[i] = file[i]
           /\ Len(file') = n + 1 => file'[n + 1] = Torn
           /\ synced' \in {synced, Len(file')}
PROOF
  <1>1. /\ file \in Seq(Cell) /\ Len(file) \in Nat /\ synced \in Nat
        /\ Complete \in 0 .. Len(file) /\ synced <= Complete
        /\ <<Torn>> \in Seq(Cell)
    BY LogTyped DEF Cell
  <1>2. ASSUME NEW n \in synced .. Complete,
               \/ file' = SubSeq(file, 1, n)
               \/ file' = SubSeq(file, 1, n) \o <<Torn>>
        PROVE  /\ file' \in Seq(Cell) /\ Len(file') \in {n, n + 1}
               /\ \A i \in 1 .. n : file'[i] = file[i]
               /\ Len(file') = n + 1 => file'[n + 1] = Torn
    <2> DEFINE p == SubSeq(file, 1, n)
    <2>1. n \in 0 .. Len(file)
      BY <1>1
    <2>2. /\ p \in Seq(Cell) /\ Len(p) = n
          /\ \A i \in 1 .. n : p[i] = file[i]
      BY <1>1, <2>1, PrefixShape
    <2> HIDE DEF p
    <2>3. CASE file' = p
      BY <2>1, <2>2, <2>3
    <2>4. CASE file' = p \o <<Torn>>
      BY <1>1, <2>1, <2>2, <2>4
    <2> QED
      BY <1>2, <2>3, <2>4 DEF p
  <1>3. CASE Kill
    <2>1. /\ Complete \in synced .. Complete /\ synced' = synced
          /\ \/ file' = SubSeq(file, 1, Complete) \o << >>
             \/ file' = SubSeq(file, 1, Complete) \o <<Torn>>
      BY <1>1, <1>3 DEF Kill
    <2>2. SubSeq(file, 1, Complete) \o << >> = SubSeq(file, 1, Complete)
      BY <1>1, PrefixShape, ConcatEmptySeq
    <2> QED
      BY <1>2, <2>1, <2>2
  <1>4. CASE LosePower
    <2>1. PICK n \in synced .. Complete :
            \/ file' = SubSeq(file, 1, n)
            \/ file' = SubSeq(file, 1, n) \o <<Torn>>
      BY <1>4 DEF LosePower
    <2>2. synced' = Len(file')
      BY <1>4 DEF LosePower
    <2> QED
      BY <1>2, <2>1, <2>2
  <1> QED
    BY <1>3, <1>4

LEMMA CrashKeeps ==
  ASSUME WalIInv, Kill \/ LosePower
  PROVE  WalIInv'
PROOF
  <1> USE DEF WalIInv
  <1>1. /\ up' = FALSE /\ buf' = << >> /\ partial' = FALSE /\ broken' = FALSE
        /\ crashes < MaxCrashes /\ crashes' = crashes + 1
        /\ pc' = [w \in Writers |-> "idle"] /\ rec' = [w \in Writers |-> NoRecord]
        /\ UNCHANGED <<spc, final, close, mem, puts, durable, closing, failed, raced,
                       acked>>
    BY DEF Kill, LosePower, ProcessDies, ghostVars, callHistory
  <1>2. PICK n \in synced .. Complete :
          /\ file' \in Seq(Cell) /\ Len(file') \in {n, n + 1}
          /\ \A i \in 1 .. n : file'[i] = file[i]
          /\ Len(file') = n + 1 => file'[n + 1] = Torn
          /\ synced' \in {synced, Len(file')}
    BY CrashShape
  <1>3. /\ n \in Nat /\ n <= Len(file) /\ synced \in Nat /\ synced <= n
        /\ Len(file') \in Nat /\ n <= Len(file') /\ n <= Len(Log)
        /\ \A i \in 1 .. n : Log[i] = file[i]
    <2>1. /\ n \in Nat /\ n <= Len(file) /\ synced \in Nat /\ synced <= n
          /\ Len(file) \in Nat /\ Len(Log) \in Nat /\ Len(file) <= Len(Log)
      BY LogTyped
    <2>2. Len(file') \in Nat /\ n <= Len(file')
      BY <1>2, <2>1
    <2>3. \A i \in 1 .. n : Log[i] = file[i]
      <3>1. \A i \in 1 .. Len(Log) :
              Log[i] = IF i <= Len(file) THEN file[i] ELSE buf[i - Len(file)]
        BY LogTyped
      <3>2. \A i \in 1 .. n : i \in 1 .. Len(Log) /\ i <= Len(file)
        BY <2>1
      <3> QED
        BY <3>1, <3>2
    <2> QED
      BY <2>1, <2>2, <2>3
  <1>4. Log' = file' /\ Complete' = Len(file')
    BY <1>1, <1>2, <1>3, ConcatEmptySeq DEF Log, Complete
  <1>5. WalTypeOK'
    <2>1. /\ up' \in BOOLEAN /\ partial' \in BOOLEAN /\ broken' \in BOOLEAN
      BY <1>1
    <2>2. /\ buf' \in Seq(Record) /\ Len(buf') <= BufCap
          /\ file' \in Seq(Record \cup {Torn}) /\ synced' \in 0 .. Complete'
          /\ crashes' \in 0 .. MaxCrashes
      BY <1>1, <1>2, <1>3, <1>4, WalAssumption DEF Cell, WalTypeOK
    <2>3. /\ pc' \in [Writers -> {"idle", "insert", "ack"}]
          /\ rec' \in [Writers -> Record \cup {NoRecord}]
      BY <1>1
    <2> QED
      BY <1>1, <2>1, <2>2, <2>3 DEF WalTypeOK
  <1>6. Processes'
    BY <1>1 DEF Processes
  <1>7. \A i \in 1 .. Len(Log') :
          Log'[i] # Torn => i \in 1 .. n /\ i \in 1 .. Len(Log) /\ Log'[i] = Log[i]
    BY <1>2, <1>3, <1>4
  <1>8. Numbered'
    BY <1>1, <1>7 DEF Numbered
  <1>9. Placed'
    <2>1. ASSUME NEW i \in 1 .. Len(Log'), Log'[i] # Torn, Log'[i].id \in durable'
          PROVE  i <= synced'
      <3>1. i \in 1 .. n /\ i <= synced
        BY <1>1, <1>7, <2>1 DEF Placed
      <3> QED
        BY <1>2, <1>3, <3>1
    <2> QED
      BY <2>1 DEF Placed
  <1>10. Closing'
    BY <1>1 DEF Closing, CloseIsDurable
  <1> QED
    BY <1>5, <1>6, <1>8, <1>9, <1>10

LEMMA RestartKeeps ==
  ASSUME WalIInv, NewDB
  PROVE  WalIInv' /\ Rebuilt'
PROOF
  <1> USE DEF WalIInv
  <1>1. /\ ~ up /\ up' = TRUE /\ mem' = Replay(Replayable(file)) /\ spc' = "tick"
        /\ final' = FALSE /\ close' = "open" /\ closing' = {} /\ failed' = FALSE
        /\ raced' = {} /\ UNCHANGED <<logVars, writeVars, crashes, durable, acked>>
    BY DEF NewDB, Recover
  <1>2. Log' = Log /\ Log = file /\ buf = << >> /\ ~ broken
        /\ \A w \in Writers : pc'[w] = "idle"
    BY <1>1, LogTyped, ConcatEmptySeq DEF Log, logVars, writeVars, Processes
  <1>3. mem' \in Table
    BY <1>1, LogTyped, ReplayablePart, ReplayTable
  <1>4. up' \in BOOLEAN /\ final' \in BOOLEAN /\ failed' \in BOOLEAN
    BY <1>1
  <1>5. WalTypeOK'
    BY <1>1, <1>3, <1>4 DEF WalTypeOK, logVars, writeVars, Complete
  <1>6. Processes' /\ Numbered' /\ Placed' /\ Closing'
    BY <1>1, <1>2
    DEF Processes, Numbered, Placed, Closing, CloseIsDurable, logVars, writeVars
  <1>7. Rebuilt'
    <2>1. Tears(file') = {} => Replayable(file) = file
      BY <1>1 DEF logVars, Replayable
    <2> QED
      BY <1>1, <1>2, <2>1 DEF Rebuilt, KeyRebuilt, InsertsKey
  <1> QED
    BY <1>5, <1>6, <1>7

LEMMA WalInductive == WalSpec => []WalIInv
PROOF
  <1>1. ASSUME WalIInv, [WalNext]_walVars PROVE WalIInv'
    <2>1. CASE UNCHANGED walVars
      <3>1. WalTypeOK'
        BY <1>1, <2>1 DEF walVars, logVars, writeVars, ghostVars, callHistory, WalIInv, WalTypeOK, Complete
      <3>2. Processes'
        BY <1>1, <2>1 DEF walVars, logVars, writeVars, ghostVars, callHistory, WalIInv, Processes
      <3>3. Log' = Log /\ Covered' = Covered
        BY <2>1 DEF walVars, logVars, Log, Covered, Complete
      <3>4. Numbered' /\ Placed' /\ Closing'
        BY <1>1, <2>1, <3>3
        DEF walVars, logVars, writeVars, ghostVars, callHistory, WalIInv, Numbered, Placed, Closing,
            CloseIsDurable
      <3> QED
        BY <3>1, <3>2, <3>4 DEF WalIInv
    <2>2. CASE WalNext
      BY <1>1, <2>2, AppendKeeps, AppendFailsKeeps, CallKeeps, FlushKeeps, FsyncKeeps,
         FlushFailsKeeps, CloseKeeps, CrashKeeps, RestartKeeps DEF WalNext, SyncStep
    <2> QED
      BY <1>1, <2>1, <2>2
  <1> QED
    BY InitWal, <1>1, PTL DEF WalSpec

-----------------------------------------------------------------------------
(* Results.                                                                *)

\* The variables keep their types, the buffer never exceeds its size, and fsync
\* never counts a record whose end is still in the buffer (wal.go:110-118).
THEOREM WalTypeInvariant == WalSpec => []WalTypeOK
PROOF
  <1>1. WalIInv => WalTypeOK
    BY DEF WalIInv
  <1> QED
    BY WalInductive, <1>1, PTL

\* WAL.Close returns with every record that was in the log when it was called on
\* stable storage, unless the disk failed (wal.go:101-104, wal.go:128-135).
THEOREM CloseLeavesDurable == WalSpec => []CloseIsDurable
PROOF
  <1>1. WalIInv => CloseIsDurable
    BY DEF WalIInv, Closing
  <1> QED
    BY WalInductive, <1>1, PTL

\* What a file keeps of another up to where its durable records end, a recovery
\* replays from both.
LEMMA KeptIsReplayed ==
  ASSUME NEW s \in Seq(Cell), NEW t \in Seq(Cell), NEW n \in Nat, NEW D,
         n <= Len(s), n <= Len(t), \A i \in 1 .. n : t[i] = s[i],
         \A i \in 1 .. Len(s) : s[i] # Torn /\ s[i].id \in D => i <= n
  PROVE  D \cap IdsOf(Replayable(s)) \subseteq IdsOf(Replayable(t))
PROOF
  <1>1. ASSUME NEW x \in D, x \in IdsOf(Replayable(s))
        PROVE  x \in IdsOf(Replayable(t))
    <2>1. PICK i \in 1 .. Len(s) : s[i].id = x /\ \A j \in 1 .. i : s[j] # Torn
      BY <1>1, ReplayedIds
    <2>2. i <= n /\ i \in Nat
      BY <2>1
    <2>3. i \in 1 .. Len(t) /\ t[i].id = x
      BY <2>1, <2>2
    <2>4. \A j \in 1 .. i : t[j] # Torn
      BY <2>1, <2>2
    <2> QED
      BY <2>3, <2>4, ReplayedIds
  <1> QED
    BY <1>1

\* A record that fsync covered and that a recovery would replay is never lost,
\* torn or hidden behind a torn record: not by an append, a flush, a write that
\* fails, a crash at any moment or a restart (wal.go:92-125, wal.go:150-184).
THEOREM DurableRecordsStay == WalSpec => DurableStaysRecoverable
PROOF
  <1> DEFINE Kept == durable \cap IdsOf(Replayable(file)) \subseteq
                     IdsOf(Replayable(file'))
  <1>1. ASSUME WalIInv, [WalNext]_walVars PROVE [Kept]_walVars
    <2>1. /\ file \in Seq(Cell) /\ Len(file) \in Nat /\ synced \in Nat
          /\ \A i \in 1 .. Len(file) :
               file[i] # Torn /\ file[i].id \in durable => i <= synced
      <3>1. \A i \in 1 .. Len(file) : i \in 1 .. Len(Log) /\ Log[i] = file[i]
        BY <1>1, LogTyped DEF WalIInv
      <3> QED
        BY <1>1, <3>1, LogTyped DEF WalIInv, Placed
    <2>2. ASSUME file' \in Seq(Cell), Continues(file', file) PROVE Kept
      BY <2>1, <2>2, KeptIsReplayed DEF Continues
    <2>3. Continues(file, file)
      BY <2>1 DEF Continues
    <2>4. CASE file' = file
      BY <2>1, <2>2, <2>3, <2>4
    <2>5. ASSUME NEW w \in Writers, AppendRecord(w) PROVE Kept
      BY <1>1, <2>2, <2>5, BufferedShape, NewRecordTyped DEF WalIInv, AppendRecord
    <2>6. ASSUME NEW w \in Writers, AppendFails(w) PROVE Kept
      BY <1>1, <2>2, <2>6, FailedWriteShape, NewRecordTyped DEF WalIInv, AppendFails
    <2>7. ASSUME FlushFails PROVE Kept
      BY <1>1, <2>2, <2>7, FailedWriteShape DEF WalIInv, FlushFails
    <2>8. ASSUME FlushBuffer PROVE Kept
      <3>1. file' = file \/ file' = file \o buf
        BY <2>8 DEF FlushBuffer
      <3>2. CASE file' = file \o buf
        BY <1>1, <2>2, <3>2, LogTyped, ConcatContinues DEF WalIInv
      <3> QED
        BY <2>4, <3>1, <3>2
    <2>9. ASSUME Kill \/ LosePower PROVE Kept
      <3>1. PICK n \in synced .. Complete :
              /\ file' \in Seq(Cell) /\ Len(file') \in {n, n + 1}
              /\ \A i \in 1 .. n : file'[i] = file[i]
        BY <1>1, <2>9, CrashShape DEF WalIInv
      <3>2. /\ n \in Nat /\ n <= Len(file) /\ n <= Len(file')
            /\ \A i \in 1 .. Len(file) :
                 file[i] # Torn /\ file[i].id \in durable => i <= n
        BY <1>1, <2>1, <3>1, LogTyped DEF WalIInv
      <3> QED
        BY <2>1, <3>1, <3>2, KeptIsReplayed
    <2>10. ASSUME \/ \E w \in Writers : InsertMem(w) \/ Ack(w)
                  \/ FsyncFile \/ CloseCalled \/ CloseReturns \/ NewDB
           PROVE  file' = file
      BY <2>10 DEF InsertMem, Ack, FsyncFile, CloseCalled, CloseReturns, NewDB, logVars
    <2> QED
      BY <1>1, <2>4, <2>5, <2>6, <2>7, <2>8, <2>9, <2>10 DEF WalNext, SyncStep
  <1> QED
    BY WalInductive, <1>1, PTL DEF WalSpec, DurableStaysRecoverable

\* The log and the MemTable tell the same story of every key whose last record
\* did not overtake another.  (Two calls may insert the records of one key in the
\* other order: each takes the log's lock and the table's lock one after the
\* other, wal.go:60, db.go:306-314.)
LEMMA RebuiltKept ==
  ASSUME WalIInv, Rebuilt, [WalNext]_walVars
  PROVE  Rebuilt'
PROOF
  <1> USE DEF WalIInv
  <1>1. Tears(file) = {} => Log \in Seq(Record)
    <2>1. /\ Tears(file) = {} => \A i \in 1 .. Len(file) : file[i] \in Record
          /\ \A i \in 1 .. Len(buf) : buf[i] \in Record
      BY DEF Tears, WalTypeOK
    <2>2. Tears(file) = {} => file \in Seq(Record) /\ buf \in Seq(Record)
      <3>1. buf \in Seq(Record)
        BY DEF WalTypeOK
      <3>2. file \in Seq(Cell)
        BY LogTyped
      <3>3. file \in [1 .. Len(file) -> Cell] /\ Len(file) \in Nat
        BY <3>2, LenProperties
      <3>4. Tears(file) = {} => file \in [1 .. Len(file) -> Record]
        BY <2>1, <3>3
      <3>5. Tears(file) = {} => file \in Seq(Record)
        BY <3>3, <3>4, SeqDef
      <3> QED
        BY <3>1, <3>5
    <2> QED
      BY <2>2, ConcatProperties DEF Log
  <1>2. CASE UNCHANGED walVars
    BY <1>2 DEF walVars, logVars, writeVars, ghostVars, callHistory, Rebuilt,
       KeyRebuilt, InsertsKey, Log
  <1>3. ASSUME NEW w \in Writers, AppendRecord(w) PROVE Rebuilt'
    <2>1. PICK k \in Keys, m \in Mutation :
            /\ Buffered(NewRecord(k, m)) /\ rec' = [rec EXCEPT ![w] = NewRecord(k, m)]
            /\ raced' = IF Inserting(k) THEN raced \cup {k} ELSE raced \ {k}
      BY <1>3 DEF AppendRecord
    <2> DEFINE r == NewRecord(k, m)
    <2>2. r \in Record /\ r.key = k /\ r.val = m
      BY <1>3, NewRecordTyped DEF AppendRecord, NewRecord
    <2>3. Log' = Log \o <<r>> /\ (Tears(file') = {} => Tears(file) = {})
      BY <2>1, <2>2, BufferedShape
    <2> HIDE DEF r
    <2>4. /\ up /\ pc[w] = "idle" /\ pc' = [pc EXCEPT ![w] = "insert"]
          /\ rec' = [rec EXCEPT ![w] = r] /\ UNCHANGED <<broken, up, mem>>
      BY <1>3, <2>1 DEF AppendRecord, r
    <2>5. Tears(file') = {} => Replay(Log') = [Replay(Log) EXCEPT ![r.key] = r.val]
                               /\ Replay(Log) \in Table
      BY <1>1, <2>2, <2>3, ReplayOneMore, ReplayTable
    <2>6. /\ pc \in [Writers -> {"idle", "insert", "ack"}]
          /\ rec \in [Writers -> Record \cup {NoRecord}]
      BY DEF WalTypeOK
    <2>7. ASSUME NEW j, NEW v \in Writers
          PROVE  /\ v # w => (InsertsKey(v, j)' <=> InsertsKey(v, j)) /\ rec'[v] = rec[v]
                 /\ InsertsKey(w, j)' <=> j = k
                 /\ ~ InsertsKey(w, j) /\ rec'[w] = r
      BY <2>2, <2>4, <2>6 DEF InsertsKey
    <2>8. ASSUME up, ~ broken, Tears(file') = {}, NEW j \in Keys \ raced'
          PROVE  KeyRebuilt(j)'
      <3>1. CASE j = k
        <4>1. \A v \in Writers : ~ InsertsKey(v, k)
          BY <2>1, <2>8, <3>1 DEF Inserting, InsertsKey
        <4>2. \A v \in Writers : InsertsKey(v, j)' => v = w
          BY <2>7, <3>1, <4>1
        <4>3. Replay(Log')[j] = r.val
          BY <2>2, <2>5, <2>8, <3>1 DEF Table
        <4>4. InsertsKey(w, j)' /\ rec'[w] = r
          BY <2>7, <3>1
        <4> QED
          BY <4>2, <4>3, <4>4 DEF KeyRebuilt
      <3>2. CASE j # k
        <4>1. j \in Keys \ raced /\ KeyRebuilt(j)
          BY <2>1, <2>3, <2>8, <3>2 DEF Rebuilt
        <4>2. Replay(Log')[j] = Replay(Log)[j]
          BY <2>2, <2>5, <2>8, <3>2 DEF Table
        <4>3. \A v \in Writers : InsertsKey(v, j)' <=> InsertsKey(v, j)
          BY <2>7, <3>2
        <4>4. \A v \in Writers : InsertsKey(v, j) => rec'[v] = rec[v]
          BY <2>7
        <4> QED
          BY <2>4, <4>1, <4>2, <4>3, <4>4 DEF KeyRebuilt
      <3> QED
        BY <3>1, <3>2
    <2> QED
      BY <2>3, <2>4, <2>8 DEF Rebuilt
  <1>4. ASSUME NEW w \in Writers, InsertMem(w) PROVE Rebuilt'
    <2>1. /\ up /\ pc[w] = "insert" /\ pc' = [pc EXCEPT ![w] = "ack"]
          /\ UNCHANGED <<broken, file, up, rec, raced>>
          /\ mem' = [mem EXCEPT ![rec[w].key] = rec[w].val] /\ Log' = Log
      BY <1>4 DEF InsertMem, logVars, ghostVars, callHistory, Log
    <2>2. pc \in [Writers -> {"idle", "insert", "ack"}] /\ mem \in Table
      BY DEF WalTypeOK
    <2>3. ASSUME NEW j, NEW v \in Writers
          PROVE  /\ v # w => (InsertsKey(v, j)' <=> InsertsKey(v, j))
                 /\ ~ InsertsKey(w, j)'
                 /\ InsertsKey(w, j) <=> j = rec[w].key
      BY <2>1, <2>2 DEF InsertsKey
    <2>4. ASSUME NEW j \in Keys \ raced, KeyRebuilt(j) PROVE KeyRebuilt(j)'
      <3>1. CASE j = rec[w].key
        <4>1. \A v \in Writers : ~ InsertsKey(v, j)'
          BY <2>3, <2>4, <3>1 DEF KeyRebuilt
        <4>2. Replay(Log)[j] = rec[w].val
          BY <2>3, <2>4, <3>1 DEF KeyRebuilt
        <4>3. mem'[j] = rec[w].val
          BY <2>1, <2>2, <3>1 DEF Table
        <4> QED
          BY <2>1, <4>1, <4>2, <4>3 DEF KeyRebuilt
      <3>2. CASE j # rec[w].key
        <4>1. \A v \in Writers : InsertsKey(v, j)' <=> InsertsKey(v, j)
          BY <2>3, <3>2
        <4>2. mem'[j] = mem[j]
          BY <2>1, <2>2, <3>2 DEF Table
        <4> QED
          BY <2>1, <2>4, <4>1, <4>2 DEF KeyRebuilt
      <3> QED
        BY <3>1, <3>2
    <2> QED
      BY <2>1, <2>4 DEF Rebuilt
  <1>5. ASSUME NEW w \in Writers, Ack(w) PROVE Rebuilt'
    <2>1. /\ pc[w] = "ack" /\ pc' = [pc EXCEPT ![w] = "idle"]
          /\ rec' = [rec EXCEPT ![w] = NoRecord]
          /\ UNCHANGED <<broken, file, up, mem, raced>> /\ Log' = Log
      BY <1>5 DEF Ack, ReturnFromPut, logVars, Log
    <2>2. /\ pc \in [Writers -> {"idle", "insert", "ack"}]
          /\ rec \in [Writers -> Record \cup {NoRecord}]
      BY DEF WalTypeOK
    <2>3. ASSUME NEW j, NEW v \in Writers
          PROVE  /\ InsertsKey(v, j)' <=> InsertsKey(v, j)
                 /\ InsertsKey(v, j) => rec'[v] = rec[v]
      BY <2>1, <2>2 DEF InsertsKey
    <2> QED
      BY <2>1, <2>3 DEF Rebuilt, KeyRebuilt
  <1>6. ASSUME FlushFails \/ \E w \in Writers : AppendFails(w) PROVE Rebuilt'
    BY <1>6 DEF FlushFails, AppendFails, FailedWrite, Rebuilt
  <1>7. ASSUME FlushBuffer PROVE Rebuilt'
    <2>1. Log' = Log /\ UNCHANGED <<broken, up, mem, pc, rec, raced>>
      BY <1>7, FlushKeeps DEF FlushBuffer, writeVars, ghostVars, callHistory
    <2>2. Tears(file') = {} => Tears(file) = {}
      <3>1. file' = file \/ file' = file \o buf
        BY <1>7 DEF FlushBuffer
      <3>2. CASE file' = file \o buf
        <4>1. Continues(file', file) /\ Len(file) \in Nat /\ Len(file') \in Nat
          BY <3>2, LogTyped, ConcatContinues
        <4> QED
          BY <4>1 DEF Continues, Tears
      <3> QED
        BY <3>1, <3>2
    <2> QED
      BY <2>1, <2>2 DEF Rebuilt, KeyRebuilt, InsertsKey
  <1>8. ASSUME FsyncFile \/ CloseCalled \/ CloseReturns PROVE Rebuilt'
    <2>1. Log' = Log /\ UNCHANGED <<file, broken, up, mem, pc, rec, raced>>
      BY <1>8 DEF FsyncFile, CloseCalled, CloseReturns, logVars, writeVars, ghostVars,
         callHistory, Log
    <2> QED
      BY <2>1 DEF Rebuilt, KeyRebuilt, InsertsKey
  <1>9. ASSUME Kill \/ LosePower PROVE Rebuilt'
    BY <1>9 DEF Kill, LosePower, ProcessDies, Rebuilt
  <1>10. ASSUME NewDB PROVE Rebuilt'
    BY <1>10, RestartKeeps
  <1> QED
    BY <1>2, <1>3, <1>4, <1>5, <1>6, <1>7, <1>8, <1>9, <1>10 DEF WalNext, SyncStep

\* For any number of writers and after any number of crashes, replaying the log
\* gives a key the value that lookups answer, unless its last record overtook
\* another call on the key, or the log is torn or no longer written
\* (wal.go:60, wal.go:139-197, db.go:307-314).
THEOREM ReplayRebuilds == WalSpec => []ReplayRebuildsMemTable
PROOF
  <1>1. WalIInv /\ Rebuilt /\ [WalNext]_walVars => Rebuilt'
    BY RebuiltKept
  <1>2. Rebuilt => ReplayRebuildsMemTable
    BY DEF Rebuilt, KeyRebuilt, InsertsKey, ReplayRebuildsMemTable, Inserting, Log
  <1>3. WalInit => Rebuilt
    BY InitWal
  <1> QED
    BY WalInductive, <1>1, <1>2, <1>3, PTL DEF WalSpec
=============================================================================
