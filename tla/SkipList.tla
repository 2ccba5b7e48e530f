------------------------------ MODULE SkipList ------------------------------
(***************************************************************************)
(* The MemTable (memtable.go): a skip list whose writers are serialized by *)
(* mu and whose readers take no lock.  Put wires a new node and then links *)
(* it level by level; Get and Scan follow the pointers meanwhile, one      *)
(* atomic load at a time.  What a Put reads while it holds mu only its     *)
(* holder can change, so its search for the predecessors is no step of its *)
(* own.                                                                    *)
(*                                                                         *)
(* A key is a number, standing for its place in the order of byte strings, *)
(* and names its node: a list never has two nodes of one key.  The head is *)
(* smaller and nil greater than every key, as the comparisons treat them.  *)
(* Level 1 is nexts[0].                                                    *)
(***************************************************************************)
EXTENDS Entries, Sequences

CONSTANTS
  Writers,   \* goroutines calling Put
  Readers,   \* goroutines calling Get and Scan
  MaxKey,    \* the greatest key
  MaxLevel,  \* maxLevel
  Starts,    \* sets of keys that earlier Puts may have left in the table
  Ranges,    \* first and last keys of the Scans: HeadNode for an empty start
             \* key, Nil for an empty end key
  MaxPuts    \* bound: calls of Put

ASSUME SkipListAssumption ==
  /\ MaxKey \in Nat /\ Keys \subseteq 1 .. MaxKey
  /\ MaxLevel \in Nat \ {0}
  /\ MaxPuts \in Nat
  /\ Starts \subseteq SUBSET Keys
  /\ Ranges \subseteq ({0} \cup Keys) \X (Keys \cup {MaxKey + 1})
  /\ None \notin Writers

HeadNode == 0
Nil == MaxKey + 1
Nodes == {HeadNode} \cup Keys
Levels == 1 .. MaxLevel

VARIABLES
  next,    \* next[n][i]: nexts[i-1] of node n
  val,     \* val[k]: the value of node k, Absent before the node is made
  size,    \* size: nodes counted
  frozen,
  mu,      \* owner of the lock
  wpc, wkey, wval,       \* each Put: control and arguments
  wheight, wlevel,       \* the height of its node, how far it is linked
  puts,
  rpc, rlo, rhi,         \* each read: control, its first and last key
  rnode, rlevel, rout,   \* where it stands, what it has found
  window   \* history: window[r][k], entries k had since the call began

listVars  == <<next, val, size, frozen, mu>>
writeVars == <<wpc, wkey, wval, wheight, wlevel, puts>>
readVars  == <<rpc, rlo, rhi, rnode, rlevel, rout>>
skVars == <<listVars, writeVars, readVars, window>>

\* The list of the nodes S, node k on the levels 1 .. h[k].
ListOf(S, h) ==
  [n \in Nodes |-> [i \in Levels |->
     LET after == {k \in S : k > n /\ i <= h[k]}
     IN  IF n \notin S \cup {HeadNode} \/ after = {} \/ (n \in S /\ i > h[n])
         THEN Nil
         ELSE CHOOSE k \in after : \A m \in after : k <= m]]

\* NewMemTable, with what the Puts before this behaviour have left in it.
SkInit ==
  /\ \E S \in Starts : \E h \in [S -> Levels], v \in [S -> Values] :
       /\ next = ListOf(S, h)
       /\ val = [k \in Keys |-> IF k \in S THEN v[k] ELSE Absent]
       /\ size = Cardinality(S)
  /\ frozen = FALSE /\ mu = None
  /\ wpc = [w \in Writers |-> "idle"]
  /\ wkey = [w \in Writers |-> None]
  /\ wval = [w \in Writers |-> None]
  /\ wheight = [w \in Writers |-> 0]
  /\ wlevel = [w \in Writers |-> 0]
  /\ puts = 0
  /\ rpc = [r \in Readers |-> "idle"]
  /\ rlo = [r \in Readers |-> HeadNode]
  /\ rhi = [r \in Readers |-> Nil]
  /\ rnode = [r \in Readers |-> HeadNode]
  /\ rlevel = [r \in Readers |-> 0]
  /\ rout = [r \in Readers |-> << >>]
  /\ window = [r \in Readers |-> [k \in Keys |-> {}]]

-----------------------------------------------------------------------------
(* The list.                                                               *)

\* The nodes that the list of level i leads to.
Linked(i) ==
  LET from[n \in Nodes] ==
        IF next[n][i] = Nil THEN {} ELSE {next[n][i]} \cup from[next[n][i]]
  IN  from[HeadNode]

\* What the table holds: the values of the nodes linked at the base level.
Contents == [k \in Keys |-> IF k \in Linked(1) THEN val[k] ELSE Absent]

\* The last node below k on level i, searched from node n.
LastBelow(k, i, n) ==
  LET right[m \in Nodes] == IF next[m][i] < k THEN right[next[m][i]] ELSE m
  IN  right[n]

\* preds: the search of Put from the top level down.
Preds(k) ==
  LET pred[i \in Levels] ==
        LastBelow(k, i, IF i = MaxLevel THEN HeadNode ELSE pred[i + 1])
  IN  pred

Wired(k, h) == [i \in Levels |-> IF i <= h THEN next[Preds(k)[i]][i] ELSE Nil]

-----------------------------------------------------------------------------
(* Put.                                                                    *)

PutCall(w) ==
  /\ wpc[w] = "idle" /\ puts < MaxPuts
  /\ puts' = puts + 1
  /\ \E k \in Keys, m \in Mutation :
       /\ wkey' = [wkey EXCEPT ![w] = k]
       /\ wval' = [wval EXCEPT ![w] = m]
  /\ wpc' = [wpc EXCEPT ![w] = "check"]
  /\ UNCHANGED <<listVars, wheight, wlevel, readVars, window>>

PutCheck(w) ==
  /\ wpc[w] = "check"
  /\ wpc' = [wpc EXCEPT ![w] = IF frozen THEN "refused" ELSE "lock"]
  /\ UNCHANGED <<listVars, wkey, wval, wheight, wlevel, puts, readVars, window>>

FrozenIgnored == FALSE
FrozenUnderLock == frozen

InRange(r, k) == rpc[r] # "idle" /\ rlo[r] <= k /\ k <= rhi[r]

\* The reads under way may answer from the list before or after this step.
Seen == [r \in Readers |-> [k \in Keys |->
           window[r][k] \cup (IF InRange(r, k) THEN {Contents'[k]} ELSE {})]]

\* The lock is taken and frozen is read again.
PutRefused(w) ==
  /\ wpc[w] = "lock" /\ mu = None
  /\ FrozenUnderLock
  /\ wpc' = [wpc EXCEPT ![w] = "refused"]
  /\ UNCHANGED <<listVars, wkey, wval, wheight, wlevel, puts, readVars, window>>

\* The key has a node: its value pointer is swapped, and the lock released.
PutUpdate(w) ==
  /\ wpc[w] = "lock" /\ mu = None
  /\ ~ FrozenUnderLock
  /\ LET k == wkey[w]
     IN  /\ next[Preds(k)[1]][1] = k
         /\ val' = [val EXCEPT ![k] = wval[w]]
  /\ wpc' = [wpc EXCEPT ![w] = "stored"]
  /\ UNCHANGED <<next, size, frozen, mu, wkey, wval, wheight, wlevel, puts,
                 readVars>>
  /\ window' = Seen

\* The key has none: a node of random height is made and its pointers are wired.
PutNewNode(w) ==
  /\ wpc[w] = "lock" /\ mu = None
  /\ ~ FrozenUnderLock
  /\ mu' = w
  /\ LET k == wkey[w]
     IN  /\ next[Preds(k)[1]][1] # k
         /\ val' = [val EXCEPT ![k] = wval[w]]
         /\ size' = size + 1
         /\ \E h \in Levels :
              /\ next' = [next EXCEPT ![k] = Wired(k, h)]
              /\ wheight' = [wheight EXCEPT ![w] = h]
              /\ wlevel' = [wlevel EXCEPT ![w] = 1]
  /\ wpc' = [wpc EXCEPT ![w] = "link"]
  /\ UNCHANGED <<frozen, wkey, wval, puts, readVars, window>>

TopFirst(h, j) == h + 1 - j
\* The level linked in the j-th place.
BottomFirst(h, j) == j

\* One level is linked; behind the last one the lock is released.
PutLink(w) ==
  /\ wpc[w] = "link"
  /\ LET k == wkey[w]
         i == BottomFirst(wheight[w], wlevel[w])
     IN  /\ next' = [next EXCEPT ![Preds(k)[i]][i] = k]
         /\ IF wlevel[w] < wheight[w]
            THEN /\ wlevel' = [wlevel EXCEPT ![w] = @ + 1]
                 /\ UNCHANGED <<wpc, mu>>
            ELSE /\ wpc' = [wpc EXCEPT ![w] = "stored"]
                 /\ mu' = None
                 /\ UNCHANGED wlevel
  /\ UNCHANGED <<val, size, frozen, wkey, wval, wheight, puts, readVars>>
  /\ window' = Seen

PutReturn(w) ==
  /\ wpc[w] \in {"stored", "refused"}
  /\ wpc' = [wpc EXCEPT ![w] = "idle"]
  /\ wkey' = [wkey EXCEPT ![w] = None]
  /\ wval' = [wval EXCEPT ![w] = None]
  /\ wheight' = [wheight EXCEPT ![w] = 0]
  /\ wlevel' = [wlevel EXCEPT ![w] = 0]
  /\ UNCHANGED <<listVars, puts, readVars, window>>

\* Freeze, called by a rotation: the lock is held for the one store.
Freeze ==
  /\ ~ frozen
  /\ mu = None
  /\ frozen' = TRUE
  /\ UNCHANGED <<next, val, size, mu, writeVars, readVars, window>>

-----------------------------------------------------------------------------
(* Get and Scan.                                                           *)

ReadBegins(r, where, lo, hi) ==
  /\ rpc[r] = "idle"
  /\ rpc' = [rpc EXCEPT ![r] = where]
  /\ rlo' = [rlo EXCEPT ![r] = lo]
  /\ rhi' = [rhi EXCEPT ![r] = hi]
  /\ rnode' = [rnode EXCEPT ![r] = HeadNode]
  /\ rlevel' = [rlevel EXCEPT ![r] = MaxLevel]
  /\ window' = [window EXCEPT ![r] = [k \in Keys |->
                  IF lo <= k /\ k <= hi THEN {Contents[k]} ELSE {}]]
  /\ UNCHANGED <<listVars, writeVars, rout>>

GetBegin(r) == \E k \in Keys : ReadBegins(r, "get", k, k)

\* An empty start key skips the positioning; an empty end key bounds nothing.
ScanBegin(r) ==
  \E range \in Ranges :
    ReadBegins(r, IF range[1] = HeadNode THEN "walk" ELSE "seek", range[1], range[2])

AtOrBelow(n, k) == n <= k
Below(n, k) == n < k

StayAt(r, n) == rnode[r]
MoveTo(r, n) == n

\* One load of the descent that Get and Scan share.  Get stops at its key.
Descend(r) ==
  /\ rpc[r] \in {"get", "seek"}
  /\ LET n == next[rnode[r]][rlevel[r]]
     IN  CASE Below(n, rlo[r]) ->
                /\ rnode' = [rnode EXCEPT ![r] = MoveTo(r, n)]
                /\ UNCHANGED <<rpc, rlevel>>
           [] n = rlo[r] /\ rpc[r] = "get" ->
                /\ rpc' = [rpc EXCEPT ![r] = "value"]
                /\ UNCHANGED <<rnode, rlevel>>
           [] OTHER ->
                /\ rlevel' = [rlevel EXCEPT ![r] = @ - 1]
                /\ rpc' = [rpc EXCEPT ![r] =
                             IF rlevel[r] > 1 THEN @
                             ELSE IF @ = "get" THEN "base" ELSE "walk"]
                /\ UNCHANGED rnode
  /\ UNCHANGED <<listVars, writeVars, rlo, rhi, rout, window>>

\* The last check of Get, on the base level.
CheckBase(r) ==
  /\ rpc[r] = "base"
  /\ rpc' = [rpc EXCEPT ![r] =
               IF next[rnode[r]][1] = rlo[r] THEN "value" ELSE "done"]
  /\ UNCHANGED <<listVars, writeVars, rlo, rhi, rnode, rlevel, rout, window>>

GetValue(r) ==
  /\ rpc[r] = "value"
  /\ rout' = [rout EXCEPT ![r] = <<[key |-> rlo[r], val |-> val[rlo[r]]]>>]
  /\ rpc' = [rpc EXCEPT ![r] = "done"]
  /\ UNCHANGED <<listVars, writeVars, rlo, rhi, rnode, rlevel, window>>

\* Scan loads the next node of the base level ...
ScanNext(r) ==
  /\ rpc[r] = "walk"
  /\ LET n == next[rnode[r]][1]
     IN  IF n = Nil \/ n > rhi[r]
         THEN /\ rpc' = [rpc EXCEPT ![r] = "done"]
              /\ UNCHANGED rnode
         ELSE /\ rnode' = [rnode EXCEPT ![r] = n]
              /\ rpc' = [rpc EXCEPT ![r] = IF n >= rlo[r] THEN "take" ELSE "walk"]
  /\ UNCHANGED <<listVars, writeVars, rlo, rhi, rlevel, rout, window>>

\* ... and then its value.
ScanTake(r) ==
  /\ rpc[r] = "take"
  /\ rout' = [rout EXCEPT ![r] =
                Append(@, [key |-> rnode[r], val |-> val[rnode[r]]])]
  /\ rpc' = [rpc EXCEPT ![r] = "walk"]
  /\ UNCHANGED <<listVars, writeVars, rlo, rhi, rnode, rlevel, window>>

ReadReturns(r) ==
  /\ rpc[r] = "done"
  /\ rpc' = [rpc EXCEPT ![r] = "idle"]
  /\ rlo' = [rlo EXCEPT ![r] = HeadNode]
  /\ rhi' = [rhi EXCEPT ![r] = Nil]
  /\ rnode' = [rnode EXCEPT ![r] = HeadNode]
  /\ rlevel' = [rlevel EXCEPT ![r] = 0]
  /\ rout' = [rout EXCEPT ![r] = << >>]
  /\ window' = [window EXCEPT ![r] = [k \in Keys |-> {}]]
  /\ UNCHANGED <<listVars, writeVars>>

-----------------------------------------------------------------------------
PutStep(w) ==
  \/ PutCheck(w) \/ PutRefused(w) \/ PutUpdate(w)
  \/ PutNewNode(w) \/ PutLink(w) \/ PutReturn(w)

ReadStep(r) ==
  \/ Descend(r) \/ CheckBase(r) \/ GetValue(r)
  \/ ScanNext(r) \/ ScanTake(r) \/ ReadReturns(r)

SkNext ==
  \/ \E w \in Writers : PutCall(w) \/ PutStep(w)
  \/ Freeze
  \/ \E r \in Readers : GetBegin(r) \/ ScanBegin(r) \/ ReadStep(r)

SkSpec == SkInit /\ [][SkNext]_skVars

\* Fairness: readers are scheduled; writers may stop anywhere, holding the lock.
SkFairSpec == SkSpec /\ \A r \in Readers : WF_skVars(ReadStep(r))

-----------------------------------------------------------------------------
(* Properties.                                                             *)

\* Every variable holds a value of its type, and no node is linked before size
\* counts it.
SkTypeOK ==
  /\ next \in [Nodes -> [Levels -> Keys \cup {Nil}]]
  /\ val \in Table
  /\ size \in Nat /\ Cardinality(Linked(1)) <= size
  /\ frozen \in BOOLEAN /\ mu \in Writers \cup {None}
  /\ wpc \in [Writers -> {"idle", "check", "lock", "link", "stored", "refused"}]
  /\ wkey \in [Writers -> Keys \cup {None}]
  /\ wval \in [Writers -> Mutation \cup {None}]
  /\ wheight \in [Writers -> 0 .. MaxLevel]
  /\ wlevel \in [Writers -> 0 .. MaxLevel]
  /\ puts \in 0 .. MaxPuts
  /\ rpc \in [Readers -> {"idle", "get", "base", "value", "seek", "walk", "take",
                          "done"}]
  /\ rlo \in [Readers -> Nodes] /\ rhi \in [Readers -> Keys \cup {Nil}]
  /\ rnode \in [Readers -> Nodes] /\ rlevel \in [Readers -> 0 .. MaxLevel]

\* Whatever the writer has linked so far, every level is sorted and holds no
\* node that the level below does not: a reader who drops a level can go on
\* from where it stands (memtable.go:139-144).
LevelsNested ==
  /\ \A n \in Nodes, i \in Levels : next[n][i] > n
  /\ \A i \in 2 .. MaxLevel : Linked(i) \subseteq Linked(i - 1)

\* The two together.
SkInv == SkTypeOK /\ LevelsNested

Answered(r) == {rout[r][i].key : i \in 1 .. Len(rout[r])}

\* A Get or Scan that met a half-linked node still answers every key of its
\* range with an entry the key had during the call, and lists the keys in
\* ascending order, each once (memtable.go:151-191, memtable.go:213-267).
ReadsInWindow ==
  \A r \in Readers : rpc[r] = "done" =>
    /\ \A i \in 1 .. Len(rout[r]) :
         rout[r][i].val \in window[r][rout[r][i].key]
    /\ \A i \in 2 .. Len(rout[r]) : rout[r][i - 1].key < rout[r][i].key
    /\ \A k \in Keys : InRange(r, k) /\ k \notin Answered(r) =>
         Absent \in window[r][k]

\* A read returns although no writer ever takes another step, in whatever
\* state the list was left: readers wait for nobody (memtable.go:148-190).
ReadsAreWaitFree == \A r \in Readers : rpc[r] # "idle" ~> rpc[r] = "idle"

\* The refinement mapping: a Put takes effect when the base level is linked.
Status(w) ==
  CASE wpc[w] = "link" -> IF wkey[w] \in Linked(1) THEN "applied" ELSE "called"
    [] wpc[w] \in {"check", "lock"} -> "called"
    [] wpc[w] = "stored" -> "applied"
    [] OTHER -> wpc[w]

Promise == INSTANCE FreezableTable WITH
  table <- Contents,
  status <- [w \in Writers |-> Status(w)],
  op <- [w \in Writers |-> [key |-> wkey[w], val |-> wval[w]]]

\* The skip list implements the table Rotation takes a MemTable for: a Put
\* changes one key, once, and never after Freeze has returned, also when the
\* writer checked frozen before (memtable.go:65-78, memtable.go:201-205).
ImplementsFreezableTable == Promise!Spec
=============================================================================
