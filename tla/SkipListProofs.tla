--------------------------- MODULE SkipListProofs ---------------------------
(***************************************************************************)
(* Proofs about the skip list: for any writers and readers, any keys, any  *)
(* number of levels and any table that earlier Puts have left.             *)
(***************************************************************************)
EXTENDS SkipList, TLAPS, SequenceTheorems, FiniteSetTheorems, WellFoundedInduction

-----------------------------------------------------------------------------
(* The inductive invariant.                                                *)

\* Every pointer leads to a greater node, and each level holds only nodes that
\* every level below holds.
Listed ==
  /\ next \in [Nodes -> [Levels -> Keys \cup {Nil}]]
  /\ \A n \in Nodes, i \in Levels : next[n][i] > n
  /\ \A i, j \in Levels : i <= j => Linked(j) \subseteq Linked(i)

\* The pointer of node k on level i skips no node of that level.
Fits(k, i) ==
  /\ next[k][i] \in Linked(i) \cup {Nil}
  /\ \A s \in Linked(i) : s <= k \/ next[k][i] <= s

\* A Put that is linking holds mu.  Its node is on the levels below wlevel and
\* on no other, and on those still to come its pointers fit.
Linking(w) ==
  /\ mu = w /\ ~ frozen
  /\ wheight[w] \in Levels /\ wlevel[w] \in 1 .. wheight[w]
  /\ val[wkey[w]] = wval[w]
  /\ \A i \in Levels : wkey[w] \in Linked(i) <=> i < wlevel[w]
  /\ \A i \in wlevel[w] .. wheight[w] : Fits(wkey[w], i)
  /\ wkey[w] \notin Linked(1) => Cardinality(Linked(1)) < size

Writing ==
  /\ \A w \in Writers :
       /\ wpc[w] # "idle" => wkey[w] \in Keys /\ wval[w] \in Mutation
       /\ wpc[w] = "link" => Linking(w)
  /\ mu # None => wpc[mu] = "link"

ListInv == SkTypeOK /\ Listed /\ Writing

\* A search is on some level until it leaves the base level.
Descending == \A r \in Readers : rpc[r] \in {"get", "seek"} => rlevel[r] \in Levels

Standing(i) == Linked(i) \cup {HeadNode}

\* The keys of its range below bound that r has not listed were absent at some
\* moment of the call.
CoveredBelow(r, bound) ==
  \A k \in Keys : InRange(r, k) /\ k < bound /\ k \notin Answered(r) =>
    Absent \in window[r][k]

\* A Get looks for one key, and nothing is listed before a value is met.
Getting(r) ==
  /\ rpc[r] \in {"get", "base", "value"} => rlo[r] \in Keys /\ rhi[r] = rlo[r]
  /\ rpc[r] \in {"get", "base", "value", "seek", "idle"} => rout[r] = << >>

\* A search stands on its level, below the first key of its range.
Searching(r) ==
  rpc[r] \in {"get", "seek"} =>
    /\ rlo[r] \in Keys
    /\ rnode[r] \in Standing(rlevel[r]) /\ rnode[r] < rlo[r]

\* A Get that has passed the base level has seen its key missing.
Missing(r) ==
  rpc[r] = "base" =>
    /\ rnode[r] \in Standing(1) /\ rnode[r] < rlo[r]
    /\ Absent \in window[r][rlo[r]]

Found(r) == rpc[r] = "value" => rlo[r] \in Linked(1)

\* A walk stands on the base level and has dealt with the keys it has passed.
Walking(r) ==
  rpc[r] = "walk" =>
    /\ rnode[r] \in Standing(1)
    /\ \A i \in 1 .. Len(rout[r]) : rout[r][i].key <= rnode[r]
    /\ CoveredBelow(r, rnode[r] + 1)

Taking(r) ==
  rpc[r] = "take" =>
    /\ rnode[r] \in Linked(1) /\ rlo[r] <= rnode[r] /\ rnode[r] <= rhi[r]
    /\ \A i \in 1 .. Len(rout[r]) : rout[r][i].key < rnode[r]
    /\ CoveredBelow(r, rnode[r])

Finished(r) == rpc[r] = "done" => CoveredBelow(r, Nil)

Position(r) ==
  /\ Getting(r) /\ Searching(r) /\ Missing(r) /\ Found(r)
  /\ Walking(r) /\ Taking(r) /\ Finished(r)

\* What r has listed so far, in order and from the window.
Listing(r) ==
  /\ \A i \in 1 .. Len(rout[r]) : rout[r][i].val \in window[r][rout[r][i].key]
  /\ \A i \in 2 .. Len(rout[r]) : rout[r][i - 1].key < rout[r][i].key

ReadInv ==
  /\ window \in [Readers -> [Keys -> SUBSET Entry]]
  /\ rout \in [Readers -> Seq([key : Keys, val : Entry])]
  /\ \A r \in Readers, k \in Keys : InRange(r, k) => Contents[k] \in window[r][k]
  /\ \A r \in Readers : Position(r) /\ Listing(r)

-----------------------------------------------------------------------------
(* Induction over numbers.                                                 *)

\* A set of numbers has a least one.
LEMMA LeastNode ==
  ASSUME NEW T, T \subseteq Nat, T # {}
  PROVE  \E x \in T : \A y \in T : x <= y
PROOF
  <1> DEFINE R == OpToRel(<, Nat)
  <1>1. PICK x \in T : \A y \in T : ~ (<<y, x>> \in R)
    BY NatLessThanWellFounded, WFMin
  <1>2. \A a, b \in Nat : a < b => <<a, b>> \in R
    <2>1. R = {ss \in Nat \X Nat : ss[1] < ss[2]}
      BY Zenon DEF OpToRel
    <2> HIDE DEF R
    <2> QED
      BY <2>1
  <1> HIDE DEF R
  <1>3. ASSUME NEW y \in T PROVE x <= y
    <2>1. x \in Nat /\ y \in Nat
      OBVIOUS
    <2>2. ~ (y < x)
      BY <1>1, <1>2, <2>1, Zenon
    <2> QED
      BY <2>1, <2>2
  <1> QED
    BY <1>3

\* A set that holds top, and with a number the one below it, holds all to 0.
LEMMA Downward ==
  ASSUME NEW top \in Nat, NEW T, top \in T,
         \A m \in 0 .. top - 1 : m + 1 \in T => m \in T
  PROVE  \A m \in 0 .. top : m \in T
PROOF
  <1> DEFINE D == {d \in 0 .. top : top - d \notin T}
  <1>1. SUFFICES ASSUME NEW m \in 0 .. top, m \notin T
                 PROVE  FALSE
    OBVIOUS
  <1>2. top - m \in D
    <2>1. top - m \in 0 .. top /\ top - (top - m) = m
      OBVIOUS
    <2> QED
      BY <1>1, <2>1
  <1>3. PICK d \in D : \A e \in D : d <= e
    <2>1. D \subseteq Nat
      OBVIOUS
    <2> HIDE DEF D
    <2> QED
      BY <1>2, <2>1, LeastNode
  <1>4. d \in 1 .. top
    OBVIOUS
  <1>5. d - 1 \notin D
    <2> HIDE DEF D
    <2> QED
      BY <1>3, <1>4
  <1>6. top - d \in 0 .. top - 1 /\ (top - d) + 1 = top - (d - 1)
    BY <1>4
  <1>7. top - (d - 1) \in T
    BY <1>4, <1>5
  <1> QED
    BY <1>6, <1>7

-----------------------------------------------------------------------------
(* The list of one level.                                                  *)

\* The head is smaller and nil greater than every key.
LEMMA Bounds ==
  /\ MaxKey \in Nat /\ HeadNode = 0 /\ Nil = MaxKey + 1 /\ Nil \in Nat
  /\ \A k \in Keys : k \in Nat /\ HeadNode < k /\ k < Nil
  /\ \A n \in Nodes : n \in Nat /\ HeadNode <= n /\ n < Nil
  /\ \A n \in Keys \cup {Nil} : n \in Nat
  /\ MaxLevel \in Nat /\ 1 \in Levels /\ MaxLevel \in Levels
PROOF
  BY SkipListAssumption DEF HeadNode, Nil, Nodes, Levels

Pointing ==
  /\ next \in [Nodes -> [Levels -> Keys \cup {Nil}]]
  /\ \A n \in Nodes, i \in Levels : next[n][i] > n

\* The pointers of level i lead from the head through all of S, in order.
Chain(i, S) ==
  /\ S \subseteq Keys
  /\ \A n \in S \cup {HeadNode} :
       /\ next[n][i] \in S \cup {Nil}
       /\ \A s \in S : s <= n \/ next[n][i] <= s

\* The equation of Linked, of node n on level i.
Follows(f, n, i) ==
  f[n] = IF next[n][i] = Nil THEN {} ELSE {next[n][i]} \cup f[next[n][i]]

LEMMA FollowsSolved ==
  ASSUME Pointing, NEW i \in Levels
  PROVE  \E f \in [Nodes -> SUBSET Keys] : \A n \in Nodes : Follows(f, n, i)
PROOF
  <1> USE Bounds
  <1> DEFINE From(m) == \E f \in [Nodes -> SUBSET Keys] :
                          \A n \in Nodes : n >= m => Follows(f, n, i)
             T == {m \in 0 .. Nil : From(m)}
  <1>1. Nil \in T
    <2>1. [n \in Nodes |-> {}] \in [Nodes -> SUBSET Keys]
      OBVIOUS
    <2>2. \A n \in Nodes : ~ (n >= Nil)
      OBVIOUS
    <2>3. From(Nil)
      BY <2>1, <2>2, Zenon
    <2> QED
      BY <2>3
  <1>2. ASSUME NEW m \in 0 .. Nil - 1, m + 1 \in T
        PROVE  m \in T
    <2>1. PICK f \in [Nodes -> SUBSET Keys] :
            \A n \in Nodes : n >= m + 1 => Follows(f, n, i)
      BY <1>2
    <2>2. CASE m \notin Nodes
      <3>1. \A n \in Nodes : n >= m => n >= m + 1
        BY <2>2
      <3> QED
        BY <2>1, <3>1
    <2>3. CASE m \in Nodes
      <3> DEFINE p == next[m][i]
                 g == [f EXCEPT ![m] = IF p = Nil THEN {} ELSE {p} \cup f[p]]
      <3>1. p \in Keys \cup {Nil} /\ p > m
        BY <2>3 DEF Pointing
      <3>2. (p # Nil) => p \in Keys /\ p \in Nodes /\ f[p] \in SUBSET Keys
        BY <3>1 DEF Nodes
      <3>3. g \in [Nodes -> SUBSET Keys]
        BY <3>2
      <3>4. ASSUME NEW n \in Nodes, n >= m PROVE Follows(g, n, i)
        <4>1. CASE n = m
          BY <2>3, <3>1, <3>2, <4>1 DEF Follows
        <4>2. CASE n # m
          <5>1. Follows(f, n, i)
            BY <2>1, <3>4, <4>2
          <5>2. next[n][i] # m /\ g[n] = f[n]
            BY <3>4, <4>2 DEF Pointing
          <5>3. (next[n][i] # Nil) => next[n][i] \in Nodes
            BY DEF Pointing, Nodes
          <5> QED
            BY <5>1, <5>2, <5>3 DEF Follows
        <4> QED
          BY <4>1, <4>2
      <3> HIDE DEF g
      <3> QED
        BY <3>3, <3>4
    <2> QED
      BY <2>2, <2>3
  <1>3. 0 \in T
    <2> HIDE DEF T
    <2> QED
      BY <1>1, <1>2, Downward
  <1> QED
    BY <1>3

\* Linked is a solution of its equation.
LEMMA LinkedFollows ==
  ASSUME Pointing, NEW i \in Levels
  PROVE  \E f : Linked(i) = f[HeadNode] /\ \A n \in Nodes : Follows(f, n, i)
PROOF
  <1> DEFINE Sol(f) == f = [n \in Nodes |->
                IF next[n][i] = Nil THEN {} ELSE {next[n][i]} \cup f[next[n][i]]]
             f == CHOOSE g : Sol(g)
  <1>1. \E g : Sol(g)
    <2>1. PICK g \in [Nodes -> SUBSET Keys] : \A n \in Nodes : Follows(g, n, i)
      BY FollowsSolved
    <2>2. g = [n \in Nodes |-> g[n]]
      OBVIOUS
    <2>3. Sol(g)
      BY <2>1, <2>2 DEF Follows
    <2> QED
      BY <2>3
  <1>2. Sol(f)
    BY <1>1, Zenon
  <1>3. Linked(i) = f[HeadNode]
    BY DEF Linked
  <1>4. ASSUME NEW n \in Nodes PROVE Follows(f, n, i)
    <2> HIDE DEF f
    <2> QED
      BY <1>2 DEF Follows
  <1> QED
    BY <1>3, <1>4, Zenon

\* What the pointers from node n on lead to.
Onward(f, n, i) ==
  /\ f[n] \subseteq Keys
  /\ next[n][i] \in f[n] \cup {Nil}
  /\ \A s \in f[n] : next[n][i] <= s /\ next[s][i] \in f[n] \cup {Nil}
  /\ \A s, t \in f[n] : t <= s \/ next[s][i] <= t

LEMMA OnwardOf ==
  ASSUME Pointing, NEW i \in Levels, NEW f, \A n \in Nodes : Follows(f, n, i)
  PROVE  \A n \in Nodes : Onward(f, n, i)
PROOF
  <1> USE Bounds
  <1> DEFINE P(m) == \A n \in Nodes : n >= m => Onward(f, n, i)
             U == {m \in 0 .. Nil : P(m)}
  <1>1. Nil \in U
    <2>1. \A n \in Nodes : ~ (n >= Nil)
      OBVIOUS
    <2>2. P(Nil)
      BY <2>1, Zenon
    <2> QED
      BY <2>2
  <1>2. ASSUME NEW m \in 0 .. Nil - 1, m + 1 \in U
        PROVE  m \in U
    <2>1. \A n \in Nodes : n >= m + 1 => Onward(f, n, i)
      BY <1>2
    <2>2. ASSUME m \in Nodes PROVE Onward(f, m, i)
      <3> DEFINE p == next[m][i]
      <3>1. p \in Keys \cup {Nil} /\ p > m
        BY <2>2 DEF Pointing
      <3>2. Follows(f, m, i)
        BY <2>2
      <3>3. CASE p = Nil
        BY <3>2, <3>3 DEF Follows, Onward
      <3>4. CASE p # Nil
        <4>1. p \in Keys /\ p \in Nodes /\ p >= m + 1
          BY <3>1, <3>4 DEF Nodes
        <4>2. Onward(f, p, i)
          BY <2>1, <4>1
        <4>3. f[m] = {p} \cup f[p]
          BY <3>2, <3>4 DEF Follows
        <4>4. next[p][i] \in Keys \cup {Nil} /\ next[p][i] > p
          BY <4>1 DEF Pointing
        <4>5. \A s \in f[p] : s \in Keys /\ s > p /\ next[s][i] \in f[p] \cup {Nil}
          BY <4>1, <4>2, <4>4 DEF Onward
        <4>6. f[m] \subseteq Keys /\ p \in f[m]
          BY <4>1, <4>3, <4>5
        <4>7. \A s \in f[m] : p <= s /\ next[s][i] \in f[m] \cup {Nil}
          <5>1. next[p][i] \in f[m] \cup {Nil}
            BY <4>2, <4>3 DEF Onward
          <5> QED
            BY <4>1, <4>3, <4>5, <5>1
        <4>8. \A s, t \in f[m] : t <= s \/ next[s][i] <= t
          <5>1. \A t \in f[p] : next[p][i] <= t
            BY <4>2 DEF Onward
          <5>2. \A s, t \in f[p] : t <= s \/ next[s][i] <= t
            BY <4>2 DEF Onward
          <5> QED
            BY <4>1, <4>3, <4>5, <5>1, <5>2
        <4> QED
          BY <4>6, <4>7, <4>8 DEF Onward
      <3> QED
        BY <3>3, <3>4
    <2>3. \A n \in Nodes : n >= m => n = m \/ n >= m + 1
      OBVIOUS
    <2>4. P(m)
      BY <2>1, <2>2, <2>3
    <2> QED
      BY <2>4
  <1>3. 0 \in U
    <2> HIDE DEF U
    <2> QED
      BY <1>1, <1>2, Downward
  <1>4. P(0)
    BY <1>3
  <1> QED
    BY <1>4

LEMMA HeadIsNode == HeadNode \in Nodes /\ Keys \subseteq Nodes
PROOF
  BY DEF Nodes

\* The linked nodes form a chain, and no other set does.
LEMMA LinkedIsChain ==
  ASSUME Pointing, NEW i \in Levels
  PROVE  Chain(i, Linked(i))
PROOF
  <1> USE Bounds, HeadIsNode
  <1>1. PICK f : Linked(i) = f[HeadNode] /\ \A n \in Nodes : Follows(f, n, i)
    BY LinkedFollows
  <1>2. Onward(f, HeadNode, i)
    BY <1>1, OnwardOf
  <1>3. Linked(i) \subseteq Keys
    BY <1>1, <1>2 DEF Onward
  <1>4. ASSUME NEW n \in Linked(i) \cup {HeadNode}
        PROVE  /\ next[n][i] \in Linked(i) \cup {Nil}
               /\ \A s \in Linked(i) : s <= n \/ next[n][i] <= s
    <2>1. CASE n = HeadNode
      BY <1>1, <1>2, <2>1 DEF Onward
    <2>2. CASE n \in Linked(i)
      BY <1>1, <1>2, <2>2 DEF Onward
    <2> QED
      BY <2>1, <2>2
  <1> QED
    BY <1>3, <1>4 DEF Chain

LEMMA ChainIsLinked ==
  ASSUME Pointing, NEW i \in Levels, NEW S, Chain(i, S)
  PROVE  Linked(i) = S
PROOF
  <1> USE Bounds, HeadIsNode
  <1>1. PICK f : Linked(i) = f[HeadNode] /\ \A n \in Nodes : Follows(f, n, i)
    BY LinkedFollows
  <1> DEFINE P(m) == \A n \in S \cup {HeadNode} :
                       n >= m => f[n] = {s \in S : n < s}
             U == {m \in 0 .. Nil : P(m)}
  <1>2. S \cup {HeadNode} \subseteq Nodes /\ S \subseteq Keys
    BY DEF Chain
  <1>3. Nil \in U
    <2>1. \A n \in S \cup {HeadNode} : ~ (n >= Nil)
      BY <1>2
    <2>2. P(Nil)
      BY <2>1, Zenon
    <2> QED
      BY <2>2
  <1>4. ASSUME NEW m \in 0 .. Nil - 1, m + 1 \in U
        PROVE  m \in U
    <2>1. P(m + 1)
      BY <1>4
    <2>2. ASSUME m \in S \cup {HeadNode} PROVE f[m] = {s \in S : m < s}
      <3> DEFINE p == next[m][i]
      <3>1. p \in S \cup {Nil} /\ p > m /\ \A s \in S : s <= m \/ p <= s
        BY <1>2, <2>2 DEF Chain, Pointing
      <3>2. Follows(f, m, i)
        BY <1>1, <1>2, <2>2
      <3>3. CASE p = Nil
        <4>1. \A s \in S : ~ (m < s)
          BY <1>2, <3>1, <3>3
        <4> QED
          BY <3>2, <3>3, <4>1 DEF Follows
      <3>4. CASE p # Nil
        <4>1. p \in S /\ p \in Nat /\ p >= m + 1
          <5> HIDE DEF p
          <5>1. p \in S /\ p \in Keys
            BY <1>2, <3>1, <3>4
          <5>2. p \in Nat
            BY <5>1
          <5> QED
            BY <3>1, <5>1, <5>2
        <4>2. f[p] = {s \in S : p < s}
          BY <2>1, <4>1
        <4>3. f[m] = {p} \cup f[p]
          BY <3>2, <3>4 DEF Follows
        <4>4. \A s \in S : m < s <=> s = p \/ p < s
          BY <1>2, <3>1, <4>1
        <4> QED
          BY <4>1, <4>2, <4>3, <4>4
      <3> QED
        BY <3>3, <3>4
    <2>3. \A n \in S \cup {HeadNode} : n >= m => n = m \/ n >= m + 1
      BY <1>2
    <2>4. P(m)
      BY <2>1, <2>2, <2>3, Zenon
    <2> QED
      BY <2>4
  <1>5. 0 \in U
    <2> HIDE DEF U
    <2> QED
      BY <1>3, <1>4, Downward
  <1>6. f[HeadNode] = {s \in S : HeadNode < s}
    BY <1>5
  <1> QED
    BY <1>1, <1>2, <1>6

-----------------------------------------------------------------------------
(* The search for the predecessors.                                        *)

\* Node m is the last node of level i below k.
IsPred(k, i, m) == m \in Standing(i) /\ m < k /\ k <= next[m][i]

\* The equation of LastBelow, of node n.
Moves(f, n, k, i) ==
  f[n] = IF next[n][i] < k THEN f[next[n][i]] ELSE n

LEMMA StandingIn ==
  ASSUME Pointing, NEW i \in Levels, NEW n \in Standing(i)
  PROVE  /\ n \in Nodes /\ n \in Nat /\ next[n][i] \in Nat
         /\ next[n][i] \in Linked(i) \cup {Nil} /\ n < next[n][i]
         /\ \A s \in Linked(i) : s <= n \/ next[n][i] <= s
PROOF
  <1> USE Bounds, HeadIsNode
  <1>1. Chain(i, Linked(i))
    BY LinkedIsChain
  <1>2. n \in Nodes /\ n \in Nat
    BY <1>1 DEF Chain, Standing
  <1>3. /\ next[n][i] \in Linked(i) \cup {Nil}
        /\ \A s \in Linked(i) : s <= n \/ next[n][i] <= s
    BY <1>1 DEF Chain, Standing
  <1>4. next[n][i] \in Keys \cup {Nil} /\ n < next[n][i]
    BY <1>2 DEF Pointing
  <1> QED
    BY <1>2, <1>3, <1>4

LEMMA MovesSolved ==
  ASSUME Pointing, NEW i \in Levels, NEW k \in Keys
  PROVE  \E f \in [Nodes -> Nodes] : \A n \in Nodes : Moves(f, n, k, i)
PROOF
  <1> USE Bounds
  <1> DEFINE From(m) == \E f \in [Nodes -> Nodes] :
                          \A n \in Nodes : n >= m => Moves(f, n, k, i)
             T == {m \in 0 .. Nil : From(m)}
  <1>1. Nil \in T
    <2>1. [n \in Nodes |-> n] \in [Nodes -> Nodes]
      OBVIOUS
    <2>2. \A n \in Nodes : ~ (n >= Nil)
      OBVIOUS
    <2>3. From(Nil)
      BY <2>1, <2>2, Zenon
    <2> QED
      BY <2>3
  <1>2. ASSUME NEW m \in 0 .. Nil - 1, m + 1 \in T
        PROVE  m \in T
    <2>1. PICK f \in [Nodes -> Nodes] :
            \A n \in Nodes : n >= m + 1 => Moves(f, n, k, i)
      BY <1>2
    <2>2. CASE m \notin Nodes
      <3>1. \A n \in Nodes : n >= m => n >= m + 1
        BY <2>2
      <3> QED
        BY <2>1, <3>1
    <2>3. CASE m \in Nodes
      <3> DEFINE p == next[m][i]
                 g == [f EXCEPT ![m] = IF p < k THEN f[p] ELSE m]
      <3>1. p \in Keys \cup {Nil} /\ p > m
        BY <2>3 DEF Pointing
      <3>2. p < k => p \in Nodes /\ f[p] \in Nodes
        BY <3>1 DEF Nodes
      <3>3. g \in [Nodes -> Nodes]
        BY <2>3, <3>2
      <3>4. ASSUME NEW n \in Nodes, n >= m PROVE Moves(g, n, k, i)
        <4>1. CASE n = m
          BY <2>3, <3>1, <3>2, <4>1 DEF Moves
        <4>2. CASE n # m
          <5>1. Moves(f, n, k, i)
            BY <2>1, <3>4, <4>2
          <5>2. next[n][i] # m /\ g[n] = f[n]
            BY <3>4, <4>2 DEF Pointing
          <5>3. next[n][i] < k => next[n][i] \in Nodes
            BY DEF Pointing, Nodes
          <5> QED
            BY <5>1, <5>2, <5>3 DEF Moves
        <4> QED
          BY <4>1, <4>2
      <3> HIDE DEF g
      <3> QED
        BY <3>3, <3>4
    <2> QED
      BY <2>2, <2>3
  <1>3. 0 \in T
    <2> HIDE DEF T
    <2> QED
      BY <1>1, <1>2, Downward
  <1> QED
    BY <1>3

LEMMA LastBelowMoves ==
  ASSUME Pointing, NEW i \in Levels, NEW k \in Keys
  PROVE  \E f : /\ \A n \in Nodes : LastBelow(k, i, n) = f[n]
                /\ \A n \in Nodes : Moves(f, n, k, i)
PROOF
  <1> DEFINE Sol(f) == f = [m \in Nodes |->
                              IF next[m][i] < k THEN f[next[m][i]] ELSE m]
             f == CHOOSE g : Sol(g)
  <1>1. \E g : Sol(g)
    <2>1. PICK g \in [Nodes -> Nodes] : \A n \in Nodes : Moves(g, n, k, i)
      BY MovesSolved
    <2>2. g = [n \in Nodes |-> g[n]]
      OBVIOUS
    <2>3. Sol(g)
      BY <2>1, <2>2 DEF Moves
    <2> QED
      BY <2>3
  <1>2. Sol(f)
    BY <1>1, Zenon
  <1>3. \A n \in Nodes : LastBelow(k, i, n) = f[n]
    BY DEF LastBelow
  <1>4. ASSUME NEW n \in Nodes PROVE Moves(f, n, k, i)
    <2> HIDE DEF f
    <2> QED
      BY <1>2 DEF Moves
  <1> QED
    BY <1>3, <1>4, Zenon

\* From a node of the level below k the search finds the last one below k.
LEMMA LastBelowIsPred ==
  ASSUME Pointing, NEW i \in Levels, NEW k \in Keys,
         NEW n \in Standing(i), n < k
  PROVE  IsPred(k, i, LastBelow(k, i, n))
PROOF
  <1> USE Bounds
  <1>1. PICK f : /\ \A m \in Nodes : LastBelow(k, i, m) = f[m]
                 /\ \A m \in Nodes : Moves(f, m, k, i)
    BY LastBelowMoves
  <1> DEFINE P(m) == \A s \in Standing(i) : s < k /\ s >= m => IsPred(k, i, f[s])
             U == {m \in 0 .. Nil : P(m)}
  <1>2. \A s \in Standing(i) : s \in Nodes /\ s \in Nat
    BY StandingIn
  <1>3. Nil \in U
    <2>1. \A s \in Standing(i) : ~ (s >= Nil)
      BY <1>2
    <2>2. P(Nil)
      BY <2>1, Zenon
    <2> QED
      BY <2>2
  <1>4. ASSUME NEW m \in 0 .. Nil - 1, m + 1 \in U
        PROVE  m \in U
    <2>1. P(m + 1)
      BY <1>4
    <2>2. ASSUME m \in Standing(i), m < k PROVE IsPred(k, i, f[m])
      <3> DEFINE p == next[m][i]
      <3>1. p \in Nat /\ p \in Linked(i) \cup {Nil} /\ m < p
        BY <2>2, StandingIn
      <3>2. Moves(f, m, k, i)
        BY <1>1, <1>2, <2>2
      <3>3. CASE p < k
        <4>1. p \in Standing(i) /\ p >= m + 1
          BY <3>1, <3>3 DEF Standing
        <4>2. IsPred(k, i, f[p])
          BY <2>1, <3>3, <4>1
        <4> QED
          BY <3>2, <3>3, <4>2 DEF Moves
      <3>4. CASE ~ (p < k)
        <4>1. f[m] = m /\ k <= p
          BY <3>1, <3>2, <3>4 DEF Moves
        <4> QED
          BY <2>2, <4>1 DEF IsPred
      <3> QED
        BY <3>3, <3>4
    <2>3. \A s \in Standing(i) : s >= m => s = m \/ s >= m + 1
      BY <1>2
    <2>4. P(m)
      BY <2>1, <2>2, <2>3, Zenon
    <2> QED
      BY <2>4
  <1>5. 0 \in U
    <2> HIDE DEF U
    <2> QED
      BY <1>3, <1>4, Downward
  <1>6. n \in Nodes /\ n >= 0
    BY <1>2
  <1>7. IsPred(k, i, f[n])
    BY <1>5, <1>6
  <1> QED
    BY <1>1, <1>6, <1>7

\* The predecessors are the last nodes below k of their levels.
LEMMA PredsArePreds ==
  ASSUME Listed, NEW k \in Keys
  PROVE  \A i \in Levels : IsPred(k, i, Preds(k)[i])
PROOF
  <1> USE Bounds
  <1>1. Pointing
    BY DEF Listed, Pointing
  <1> DEFINE Sol(f) == f = [i \in Levels |->
               LastBelow(k, i, IF i = MaxLevel THEN HeadNode ELSE f[i + 1])]
             f == CHOOSE g : Sol(g)
  <1>2. \A i \in Levels : HeadNode \in Standing(i) /\ HeadNode < k
    BY DEF Standing
  <1>3. ASSUME NEW i \in Levels, i # MaxLevel, NEW m, IsPred(k, i + 1, m)
        PROVE  m \in Standing(i) /\ m < k
    <2>1. i + 1 \in Levels /\ i <= i + 1
      BY <1>3 DEF Levels
    <2>2. Linked(i + 1) \subseteq Linked(i)
      BY <2>1 DEF Listed
    <2> QED
      BY <1>3, <2>2 DEF IsPred, Standing
  <1> DEFINE Good(g, i) == IsPred(k, i, g[i]) /\
               g[i] = LastBelow(k, i, IF i = MaxLevel THEN HeadNode ELSE g[i + 1])
             From(m) == \E g \in [Levels -> Nodes] :
                          \A i \in Levels : i > m => Good(g, i)
             T == {m \in 0 .. MaxLevel : From(m)}
  <1>4. MaxLevel \in T
    <2>1. [i \in Levels |-> HeadNode] \in [Levels -> Nodes]
      BY HeadIsNode
    <2>2. \A i \in Levels : ~ (i > MaxLevel)
      BY DEF Levels
    <2>3. From(MaxLevel)
      BY <2>1, <2>2, Zenon
    <2> QED
      BY <2>3
  <1>5. ASSUME NEW m \in 0 .. MaxLevel - 1, m + 1 \in T
        PROVE  m \in T
    <2>1. PICK g \in [Levels -> Nodes] : \A i \in Levels : i > m + 1 => Good(g, i)
      BY <1>5
    <2> DEFINE j == m + 1
               start == IF j = MaxLevel THEN HeadNode ELSE g[j + 1]
               h == [g EXCEPT ![j] = LastBelow(k, j, start)]
    <2>2. j \in Levels /\ j \in Nat
      BY DEF Levels
    <2>3. start \in Standing(j) /\ start < k
      <3>1. CASE j = MaxLevel
        BY <1>2, <2>2, <3>1
      <3>2. CASE j # MaxLevel
        <4>1. j + 1 \in Levels /\ j + 1 > m + 1
          BY <2>2, <3>2 DEF Levels
        <4>2. IsPred(k, j + 1, g[j + 1])
          BY <2>1, <4>1
        <4> QED
          BY <1>3, <2>2, <3>2, <4>2
      <3> QED
        BY <3>1, <3>2
    <2>4. IsPred(k, j, LastBelow(k, j, start))
      BY <1>1, <2>2, <2>3, LastBelowIsPred
    <2>5. LastBelow(k, j, start) \in Nodes
      BY <1>1, <2>2, <2>4, StandingIn DEF IsPred
    <2>6. h \in [Levels -> Nodes] /\ h[j] = LastBelow(k, j, start)
      BY <2>2, <2>5
    <2>7. \A i \in Levels : i # j => h[i] = g[i]
      OBVIOUS
    <2> HIDE DEF h
    <2>8. ASSUME NEW i \in Levels, i > m PROVE Good(h, i)
      <3>1. i \in Nat /\ (i # MaxLevel => i + 1 \in Levels /\ i + 1 # j)
        BY <2>8 DEF Levels
      <3>2. (i # MaxLevel) => h[i + 1] = g[i + 1]
        BY <2>7, <3>1
      <3>3. CASE i = j
        BY <2>4, <2>6, <3>2, <3>3
      <3>4. CASE i # j
        <4>1. Good(g, i) /\ h[i] = g[i]
          BY <2>1, <2>7, <2>8, <3>1, <3>4
        <4> QED
          BY <3>2, <4>1
      <3> QED
        BY <3>3, <3>4
    <2>9. From(m)
      BY <2>6, <2>8
    <2> QED
      BY <2>9
  <1>6. 0 \in T
    <2> HIDE DEF T
    <2> QED
      BY <1>4, <1>5, Downward
  <1>7. Sol(f)
    <2>1. PICK g \in [Levels -> Nodes] : \A i \in Levels : i > 0 => Good(g, i)
      BY <1>6
    <2>2. \A i \in Levels : i > 0
      BY DEF Levels
    <2>3. g = [i \in Levels |-> g[i]]
      OBVIOUS
    <2>4. Sol(g)
      BY <2>1, <2>2, <2>3
    <2> QED
      BY <2>4, Zenon
  <1>8. Preds(k) = f
    BY DEF Preds
  <1> DEFINE P(m) == \A i \in Levels : i > m => IsPred(k, i, f[i])
             U == {m \in 0 .. MaxLevel : P(m)}
  <1> HIDE DEF f
  <1>9. MaxLevel \in U
    <2>1. \A i \in Levels : ~ (i > MaxLevel)
      BY DEF Levels
    <2>2. P(MaxLevel)
      BY <2>1, Zenon
    <2> QED
      BY <2>2
  <1>10. ASSUME NEW m \in 0 .. MaxLevel - 1, m + 1 \in U
         PROVE  m \in U
    <2> DEFINE j == m + 1
    <2>1. P(j)
      BY <1>10
    <2>2. j \in Levels /\ j \in Nat
      BY DEF Levels
    <2>3. f[j] = LastBelow(k, j, IF j = MaxLevel THEN HeadNode ELSE f[j + 1])
      BY <1>7, <2>2
    <2>4. IsPred(k, j, f[j])
      <3>1. CASE j = MaxLevel
        BY <1>1, <1>2, <2>2, <2>3, <3>1, LastBelowIsPred
      <3>2. CASE j # MaxLevel
        <4>1. j + 1 \in Levels /\ j + 1 > j
          BY <2>2, <3>2 DEF Levels
        <4>2. IsPred(k, j + 1, f[j + 1])
          BY <2>1, <4>1
        <4>3. f[j + 1] \in Standing(j) /\ f[j + 1] < k
          BY <1>3, <2>2, <3>2, <4>2
        <4> QED
          BY <1>1, <2>2, <2>3, <3>2, <4>3, LastBelowIsPred
      <3> QED
        BY <3>1, <3>2
    <2>5. \A i \in Levels : i > m => i = j \/ i > j
      BY DEF Levels
    <2>6. P(m)
      BY <2>1, <2>4, <2>5, Zenon
    <2> QED
      BY <2>6
  <1>11. 0 \in U
    <2> HIDE DEF U
    <2> QED
      BY <1>9, <1>10, Downward
  <1>12. \A i \in Levels : i > 0
    BY DEF Levels
  <1> QED
    BY <1>8, <1>11, <1>12

\* What a Put finds at the predecessors of its key.
LEMMA PredFacts ==
  ASSUME Listed, NEW k \in Keys, NEW i \in Levels
  PROVE  LET p == Preds(k)[i]
         IN  /\ p \in Standing(i) /\ p \in Nodes /\ p \in Nat /\ p < k
             /\ next[p][i] \in Linked(i) \cup {Nil} /\ next[p][i] \in Nat
             /\ k <= next[p][i]
             /\ \A s \in Linked(i) : s <= p \/ next[p][i] <= s
             /\ next[p][i] = k <=> k \in Linked(i)
PROOF
  <1> USE Bounds
  <1> DEFINE p == Preds(k)[i]
  <1>1. IsPred(k, i, p)
    BY PredsArePreds
  <1>2. Pointing
    BY DEF Listed, Pointing
  <1> HIDE DEF p
  <1>3. /\ p \in Standing(i) /\ p \in Nodes /\ p \in Nat /\ p < k
        /\ next[p][i] \in Linked(i) \cup {Nil} /\ next[p][i] \in Nat
        /\ k <= next[p][i]
        /\ \A s \in Linked(i) : s <= p \/ next[p][i] <= s
    BY <1>1, <1>2, StandingIn DEF IsPred
  <1>4. next[p][i] = k <=> k \in Linked(i)
    BY <1>3
  <1> QED
    BY <1>3, <1>4 DEF p

-----------------------------------------------------------------------------
(* What the steps do to the levels.                                        *)

LEMMA LinkedUnique ==
  Pointing => \A i \in Levels : /\ Chain(i, Linked(i))
                                /\ \A S : Chain(i, S) => Linked(i) = S
PROOF
  BY LinkedIsChain, ChainIsLinked

LEMMA LinkedUniqueNext ==
  Pointing' => \A i \in Levels : /\ Chain(i, Linked(i))'
                                 /\ \A S : Chain(i, S)' => Linked(i)' = S
PROOF
  <1>1. (Pointing => \A i \in Levels : /\ Chain(i, Linked(i))
                                       /\ \A S : Chain(i, S) => Linked(i) = S)'
    BY LinkedUnique, PTL
  <1> QED
    BY <1>1

\* A chain whose nodes keep their pointers stays one.
LEMMA ChainKept ==
  ASSUME Pointing, Pointing', NEW i \in Levels,
         \A n \in Standing(i) : next'[n][i] = next[n][i]
  PROVE  Linked(i)' = Linked(i)
PROOF
  <1>1. Chain(i, Linked(i))
    BY LinkedIsChain
  <1>2. PICK S : S = Linked(i)
    OBVIOUS
  <1>3. Chain(i, S)
    BY <1>1, <1>2
  <1>4. Chain(i, S)'
    BY <1>2, <1>3 DEF Chain, Standing
  <1> QED
    BY <1>2, <1>4, LinkedUniqueNext

\* A node that is made is on no level, and its pointers skip no node.
LEMMA NewNodeStep ==
  ASSUME ListInv, NEW w \in Writers, PutNewNode(w)
  PROVE  /\ wkey[w] \in Keys /\ wkey[w] \notin Linked(1)
         /\ Pointing' /\ wheight'[w] \in Levels
         /\ \A i \in Levels : Linked(i)' = Linked(i)
         /\ \A i \in 1 .. wheight'[w] : Fits(wkey[w], i)'
PROOF
  <1> USE Bounds
  <1>1. PICK k : k = wkey[w]
    OBVIOUS
  <1>2. k \in Keys /\ k \in Nodes
    BY <1>1, HeadIsNode DEF ListInv, Writing, PutNewNode
  <1>3. Listed /\ Pointing
    BY DEF ListInv, Listed, Pointing
  <1>4. k \notin Linked(1)
    BY <1>1, <1>2, <1>3, PredFacts DEF PutNewNode
  <1>5. \A i \in Levels : k \notin Linked(i)
    BY <1>3, <1>4 DEF Listed, Levels
  <1>6. PICK h \in Levels : /\ next' = [next EXCEPT ![k] = Wired(k, h)]
                            /\ wheight' = [wheight EXCEPT ![w] = h]
    BY <1>1 DEF PutNewNode
  <1>7. wheight'[w] = h
    BY <1>6 DEF ListInv, SkTypeOK
  <1>8. \A i \in Levels : next'[k][i] = IF i <= h THEN next[Preds(k)[i]][i] ELSE Nil
    BY <1>2, <1>3, <1>6 DEF Pointing, Wired
  <1>9. ASSUME NEW i \in Levels
        PROVE  /\ next'[k][i] \in Linked(i) \cup {Nil}
               /\ next'[k][i] > k
               /\ i <= h => \A s \in Linked(i) : s <= k \/ next'[k][i] <= s
    <2>1. CASE i <= h
      <3> DEFINE p == Preds(k)[i]
      <3>1. /\ p \in Nat /\ p < k
            /\ next[p][i] \in Linked(i) \cup {Nil} /\ next[p][i] \in Nat
            /\ k <= next[p][i]
            /\ \A s \in Linked(i) : s <= p \/ next[p][i] <= s
        BY <1>2, <1>3, PredFacts
      <3>2. next'[k][i] = next[p][i]
        BY <1>8, <2>1
      <3>3. next[p][i] # k
        BY <1>2, <1>5, <3>1
      <3>4. \A s \in Linked(i) : s \in Nat
        BY <1>3, LinkedIsChain DEF Chain
      <3> HIDE DEF p
      <3> QED
        BY <1>2, <3>1, <3>2, <3>3, <3>4
    <2>2. CASE ~ (i <= h)
      BY <1>2, <1>8, <2>2
    <2> QED
      BY <2>1, <2>2
  <1>10. \A i \in Levels : Linked(i) \subseteq Keys
    BY <1>3, LinkedIsChain DEF Chain
  <1>11. Wired(k, h) \in [Levels -> Keys \cup {Nil}]
    <2>1. \A i \in Levels : next'[k][i] \in Keys \cup {Nil}
      BY <1>9, <1>10
    <2>2. next'[k] = Wired(k, h)
      BY <1>2, <1>3, <1>6 DEF Pointing
    <2> QED
      BY <2>1, <2>2 DEF Wired
  <1>12. Pointing'
    <2>1. next' \in [Nodes -> [Levels -> Keys \cup {Nil}]]
      BY <1>3, <1>6, <1>11 DEF Pointing
    <2>2. ASSUME NEW n \in Nodes, NEW i \in Levels PROVE next'[n][i] > n
      <3>1. CASE n = k
        BY <1>9, <3>1
      <3>2. CASE n # k
        BY <1>3, <1>6, <3>2 DEF Pointing
      <3> QED
        BY <3>1, <3>2
    <2> QED
      BY <2>1, <2>2 DEF Pointing
  <1>13. ASSUME NEW i \in Levels PROVE Linked(i)' = Linked(i)
    <2>1. ASSUME NEW n \in Standing(i) PROVE next'[n][i] = next[n][i]
      <3>1. n # k /\ n \in Nodes
        BY <1>2, <1>3, <1>5, StandingIn DEF Standing
      <3> QED
        BY <1>3, <1>6, <3>1 DEF Pointing
    <2> QED
      BY <1>3, <1>12, <2>1, ChainKept
  <1>14. ASSUME NEW i \in 1 .. h PROVE Fits(k, i)'
    <2>1. i \in Levels /\ i <= h
      BY DEF Levels
    <2> QED
      BY <1>9, <1>13, <2>1 DEF Fits
  <1>15. wkey' = wkey
    BY DEF PutNewNode
  <1>16. \A i \in 1 .. wheight'[w] : Fits(wkey[w], i)'
    BY <1>1, <1>7, <1>14, <1>15
  <1> QED
    BY <1>1, <1>2, <1>4, <1>7, <1>12, <1>13, <1>16

\* One link puts the node on one more level and leaves the others as they are.
LEMMA LinkStep ==
  ASSUME ListInv, NEW w \in Writers, PutLink(w)
  PROVE  /\ wkey[w] \in Keys /\ wlevel[w] \in Levels
         /\ Pointing'
         /\ \A j : j = wlevel[w] => Linked(j)' = Linked(j) \cup {wkey[w]}
         /\ wkey[w] \notin Linked(wlevel[w])
         /\ \A i \in Levels : i # wlevel[w] => Linked(i)' = Linked(i)
         /\ \A i \in Levels : next'[wkey[w]][i] = next[wkey[w]][i]
PROOF
  <1> USE Bounds
  <1>1. PICK k, j : k = wkey[w] /\ j = wlevel[w]
    OBVIOUS
  <1>2. k \in Keys /\ k \in Nodes /\ Linking(w)
    BY <1>1, HeadIsNode DEF ListInv, Writing, PutLink
  <1>3. Listed /\ Pointing
    BY DEF ListInv, Listed, Pointing
  <1>4. j \in Levels /\ k \notin Linked(j) /\ Fits(k, j)
    <2>1. wheight[w] \in Levels /\ wlevel[w] \in 1 .. wheight[w]
      BY <1>2 DEF Linking
    <2>2. j \in Levels /\ j \in wlevel[w] .. wheight[w]
      BY <1>1, <2>1 DEF Levels
    <2> QED
      BY <1>1, <1>2, <2>2 DEF Linking
  <1>5. PICK p : p = Preds(k)[j]
    OBVIOUS
  <1>6. /\ p \in Standing(j) /\ p \in Nodes /\ p \in Nat /\ p < k
        /\ next[p][j] \in Linked(j) \cup {Nil} /\ next[p][j] \in Nat
        /\ k <= next[p][j]
        /\ \A s \in Linked(j) : s <= p \/ next[p][j] <= s
    BY <1>2, <1>3, <1>4, <1>5, PredFacts
  <1>7. next' = [next EXCEPT ![p][j] = k]
    BY <1>1, <1>5 DEF PutLink, BottomFirst
  <1>8. \A n \in Nodes, i \in Levels :
          next'[n][i] = IF n = p /\ i = j THEN k ELSE next[n][i]
    BY <1>3, <1>4, <1>6, <1>7 DEF Pointing
  <1>9. Pointing'
    <2>1. next' \in [Nodes -> [Levels -> Keys \cup {Nil}]]
      BY <1>2, <1>3, <1>4, <1>6, <1>7 DEF Pointing
    <2>2. \A n \in Nodes, i \in Levels : next'[n][i] > n
      BY <1>2, <1>3, <1>6, <1>8 DEF Pointing
    <2> QED
      BY <2>1, <2>2 DEF Pointing
  <1>10. ASSUME NEW i \in Levels, i # j PROVE Linked(i)' = Linked(i)
    <2>1. ASSUME NEW n \in Standing(i) PROVE next'[n][i] = next[n][i]
      BY <1>3, <1>8, <1>10, StandingIn
    <2> QED
      BY <1>3, <1>9, <2>1, ChainKept
  <1>11. PICK S : S = Linked(j)
    OBVIOUS
  <1>12. PICK T : T = S \cup {k}
    OBVIOUS
  <1>13. S \subseteq Keys /\ \A n \in S : n \in Nodes /\ n \in Nat
    BY <1>3, <1>4, <1>11, LinkedIsChain, HeadIsNode DEF Chain
  <1>14. Chain(j, T)'
    <2>1. T \subseteq Keys
      BY <1>2, <1>12, <1>13
    <2>2. ASSUME NEW n \in T \cup {HeadNode}
          PROVE  /\ next'[n][j] \in T \cup {Nil}
                 /\ \A s \in T : s <= n \/ next'[n][j] <= s
      <3>1. n \in Nodes /\ n \in Nat
        BY <1>2, <1>12, <1>13, HeadIsNode
      <3>2. CASE n = p
        <4>1. next'[n][j] = k
          BY <1>4, <1>8, <3>1, <3>2
        <4>2. ASSUME NEW s \in S PROVE s <= n \/ k <= s
          BY <1>2, <1>6, <1>11, <1>13, <3>2
        <4> QED
          BY <1>2, <1>12, <4>1, <4>2
      <3>3. CASE n = k
        <4>1. next'[n][j] = next[k][j]
          BY <1>4, <1>6, <1>8, <3>1, <3>3
        <4>2. next[k][j] \in S \cup {Nil} /\ \A s \in S : s <= k \/ next[k][j] <= s
          BY <1>4, <1>11 DEF Fits
        <4> QED
          BY <1>2, <1>12, <3>3, <4>1, <4>2
      <3>4. CASE n # p /\ n # k
        <4>1. n \in Standing(j)
          BY <1>11, <1>12, <3>4 DEF Standing
        <4>2. /\ next[n][j] \in S \cup {Nil} /\ next[n][j] \in Nat
              /\ \A s \in S : s <= n \/ next[n][j] <= s
          BY <1>3, <1>4, <1>11, <4>1, StandingIn
        <4>3. next'[n][j] = next[n][j]
          BY <1>4, <1>8, <3>1, <3>4
        <4>4. k <= n \/ next[n][j] <= k
          <5>1. CASE n < p
            <6>1. next[n][j] <= p
              <7>1. p \in S
                BY <1>6, <1>11, <3>1, <5>1 DEF Standing
              <7> QED
                BY <1>6, <3>1, <4>2, <5>1, <7>1
            <6> QED
              BY <1>2, <1>6, <4>2, <6>1
          <5>2. CASE ~ (n < p)
            <6>1. n > p
              BY <1>6, <3>1, <3>4, <5>2
            <6>2. n \in S
              BY <1>6, <1>12, <3>4, <6>1
            <6> QED
              BY <1>2, <1>6, <1>11, <3>1, <6>1, <6>2
          <5> QED
            BY <5>1, <5>2
        <4> QED
          BY <1>12, <4>2, <4>3, <4>4
      <3> QED
        BY <3>2, <3>3, <3>4
    <2> QED
      BY <2>1, <2>2 DEF Chain
  <1>15. Linked(j)' = T
    BY <1>4, <1>9, <1>14, LinkedUniqueNext
  <1>16. \A i \in Levels : next'[k][i] = next[k][i]
    BY <1>2, <1>6, <1>8
  <1>17. Linked(j)' = Linked(j) \cup {k}
    BY <1>11, <1>12, <1>15
  <1> QED
    BY <1>1, <1>2, <1>4, <1>9, <1>10, <1>16, <1>17

-----------------------------------------------------------------------------
(* The list: ListInv is inductive.                                         *)

\* A table left by earlier Puts is a chain on every level.
LEMMA ListOfChain ==
  ASSUME NEW S \in Starts, NEW h \in [S -> Levels], next = ListOf(S, h)
  PROVE  /\ Pointing
         /\ \A i \in Levels : Linked(i) = {k \in S : i <= h[k]}
PROOF
  <1> USE Bounds, HeadIsNode
  <1> DEFINE After(n, i) == {k \in S : k > n /\ i <= h[k]}
             Ends(n, i) == \/ n \notin S \cup {HeadNode}
                           \/ After(n, i) = {}
                           \/ n \in S /\ i > h[n]
             First(n, i) == CHOOSE k \in After(n, i) : \A m \in After(n, i) : k <= m
  <1>1. S \subseteq Keys
    BY SkipListAssumption
  <1>2. \A n \in Nodes, i \in Levels :
          next[n][i] = IF Ends(n, i) THEN Nil ELSE First(n, i)
    BY DEF ListOf
  <1>3. ASSUME NEW n \in Nodes, NEW i \in Levels, After(n, i) # {}
        PROVE  /\ First(n, i) \in After(n, i)
               /\ \A m \in After(n, i) : First(n, i) <= m
    <2>1. After(n, i) \subseteq Nat
      BY <1>1
    <2> HIDE DEF After
    <2>2. \E k \in After(n, i) : \A m \in After(n, i) : k <= m
      BY <1>3, <2>1, LeastNode
    <2> QED
      BY <2>2, Zenon
  <1>4. ASSUME NEW n \in Nodes, NEW i \in Levels
        PROVE  next[n][i] \in Keys \cup {Nil} /\ next[n][i] > n
    <2>1. CASE Ends(n, i)
      BY <1>2, <2>1
    <2>2. CASE ~ Ends(n, i)
      <3>1. next[n][i] \in After(n, i)
        <4> HIDE DEF First
        <4> QED
          BY <1>2, <1>3, <2>2
      <3> QED
        BY <1>1, <3>1
    <2> QED
      BY <2>1, <2>2
  <1>5. Pointing
    <2>1. \A n \in Nodes : next[n] = [i \in Levels |-> next[n][i]]
      BY DEF ListOf
    <2>2. next = [n \in Nodes |-> next[n]]
      BY DEF ListOf
    <2>3. next \in [Nodes -> [Levels -> Keys \cup {Nil}]]
      BY <1>4, <2>1, <2>2
    <2> QED
      BY <1>4, <2>3 DEF Pointing
  <1>6. ASSUME NEW i \in Levels PROVE Linked(i) = {k \in S : i <= h[k]}
    <2> DEFINE L == {k \in S : i <= h[k]}
    <2>1. L \subseteq Keys
      BY <1>1
    <2>2. ASSUME NEW n \in L \cup {HeadNode}
          PROVE  /\ next[n][i] \in L \cup {Nil}
                 /\ \A s \in L : s <= n \/ next[n][i] <= s
      <3>1. n \in Nodes /\ n \in Nat
        BY <2>1
      <3>2. n \in S \cup {HeadNode} /\ ~ (n \in S /\ i > h[n])
        <4>1. n \in S => n \in Keys /\ h[n] \in Nat /\ i \in Nat
          BY <1>1 DEF Levels
        <4> QED
          BY <1>1, <4>1
      <3>3. CASE After(n, i) = {}
        <4>1. next[n][i] = Nil
          BY <1>2, <3>1, <3>3
        <4>2. \A s \in L : s \in Nat /\ s <= n
          BY <2>1, <3>1, <3>3
        <4> QED
          BY <4>1, <4>2
      <3>4. CASE After(n, i) # {}
        <4>1. next[n][i] = First(n, i)
          <5> HIDE DEF First, After
          <5> QED
            BY <1>2, <3>1, <3>2, <3>4
        <4>2. next[n][i] \in After(n, i) /\ \A m \in After(n, i) : next[n][i] <= m
          <5> HIDE DEF First, After
          <5> QED
            BY <1>3, <3>1, <3>4, <4>1
        <4>3. \A s \in L : s <= n \/ s \in After(n, i)
          BY <2>1, <3>1
        <4> QED
          BY <4>2, <4>3
      <3> QED
        BY <3>3, <3>4
    <2>3. Chain(i, L)
      BY <2>1, <2>2 DEF Chain
    <2> HIDE DEF L
    <2>4. Linked(i) = L
      BY <1>5, <2>3, ChainIsLinked
    <2> QED
      BY <2>4 DEF L
  <1> QED
    BY <1>5, <1>6

LEMMA KeysFinite ==
  ASSUME NEW S, S \subseteq Keys
  PROVE  IsFiniteSet(S) /\ Cardinality(S) \in Nat
PROOF
  <1>1. MaxKey \in Nat /\ S \subseteq 1 .. MaxKey
    BY SkipListAssumption
  <1>2. IsFiniteSet(1 .. MaxKey)
    <2>1. 1 \in Int /\ MaxKey \in Int
      BY <1>1
    <2> QED
      BY <2>1, FS_Interval
  <1>3. IsFiniteSet(S)
    BY <1>1, <1>2, FS_Subset
  <1> QED
    BY <1>3, FS_CardinalityType

LEMMA ListInit == SkInit => ListInv
PROOF
  <1> SUFFICES ASSUME SkInit PROVE ListInv
    OBVIOUS
  <1> USE Bounds
  <1>0. PICK S \in Starts : \E h \in [S -> Levels], v \in [S -> Values] :
          /\ next = ListOf(S, h)
          /\ val = [k \in Keys |-> IF k \in S THEN v[k] ELSE Absent]
          /\ size = Cardinality(S)
    BY DEF SkInit
  <1>1. PICK h \in [S -> Levels], v \in [S -> Values] :
          /\ next = ListOf(S, h)
          /\ val = [k \in Keys |-> IF k \in S THEN v[k] ELSE Absent]
          /\ size = Cardinality(S)
    BY <1>0
  <1>2. S \subseteq Keys
    BY SkipListAssumption
  <1>3. Pointing /\ \A i \in Levels : Linked(i) = {k \in S : i <= h[k]}
    BY <1>1, ListOfChain
  <1>4. \A k \in S : h[k] \in Levels /\ h[k] \in Nat
    BY DEF Levels
  <1>5. Linked(1) = S
    BY <1>3, <1>4 DEF Levels
  <1>6. Listed
    <2>1. ASSUME NEW i \in Levels, NEW j \in Levels, i <= j
          PROVE  Linked(j) \subseteq Linked(i)
      <3>1. \A k \in S : j <= h[k] => i <= h[k]
        BY <1>4, <2>1 DEF Levels
      <3> QED
        BY <1>3, <3>1
    <2> QED
      BY <1>3, <2>1 DEF Listed, Pointing
  <1>7. val \in Table
    BY <1>1, <1>2 DEF Table, Entry
  <1>8. size \in Nat /\ Cardinality(Linked(1)) <= size
    BY <1>1, <1>2, <1>5, KeysFinite
  <1>9. SkTypeOK
    <2>1. /\ frozen \in BOOLEAN /\ mu \in Writers \cup {None}
          /\ wpc \in [Writers -> {"idle", "check", "lock", "link", "stored", "refused"}]
          /\ wkey \in [Writers -> Keys \cup {None}]
          /\ wval \in [Writers -> Mutation \cup {None}]
      BY DEF SkInit
    <2>2. 0 \in 0 .. MaxLevel /\ 0 \in 0 .. MaxPuts
      BY SkipListAssumption
    <2>3. /\ wheight \in [Writers -> 0 .. MaxLevel]
          /\ wlevel \in [Writers -> 0 .. MaxLevel]
          /\ rlevel \in [Readers -> 0 .. MaxLevel]
          /\ puts \in 0 .. MaxPuts
      BY <2>2 DEF SkInit
    <2>4. rpc \in [Readers -> {"idle", "get", "base", "value", "seek", "walk",
                              "take", "done"}]
      BY DEF SkInit
    <2>5. /\ rlo \in [Readers -> Nodes] /\ rhi \in [Readers -> Keys \cup {Nil}]
          /\ rnode \in [Readers -> Nodes]
      BY HeadIsNode DEF SkInit
    <2> QED
      BY <1>3, <1>7, <1>8, <2>1, <2>3, <2>4, <2>5 DEF SkTypeOK, Pointing
  <1>10. Writing
    BY DEF SkInit, Writing
  <1> QED
    BY <1>6, <1>9, <1>10 DEF ListInv

\* Pointers that stay lead where they led.
LEMMA SameLinked ==
  ASSUME Pointing, next' = next
  PROVE  Pointing' /\ \A i \in Levels : Linked(i)' = Linked(i)
PROOF
  <1>1. Pointing'
    BY DEF Pointing
  <1> QED
    BY <1>1, ChainKept

\* While the lock is free nobody is linking.
LEMMA FreeLock ==
  ASSUME ListInv, mu = None, NEW w \in Writers
  PROVE  wpc[w] # "link"
PROOF
  BY SkipListAssumption DEF ListInv, Writing, Linking

\* A step that leaves the pointers, and the Put that is linking, alone.
LEMMA QuietStep ==
  ASSUME ListInv, next' = next, size' = size, mu' = mu,
         (val' = val /\ frozen' = frozen) \/ mu = None,
         \A w \in Writers : wpc'[w] # "idle" => wkey'[w] \in Keys /\ wval'[w] \in Mutation,
         \A w \in Writers : wpc'[w] = "link" <=> wpc[w] = "link",
         \A w \in Writers : wpc[w] = "link" =>
           /\ wkey'[w] = wkey[w] /\ wval'[w] = wval[w]
           /\ wheight'[w] = wheight[w] /\ wlevel'[w] = wlevel[w]
  PROVE  /\ Listed' /\ Writing' /\ (Cardinality(Linked(1)) <= size)'
         /\ \A i \in Levels : Linked(i)' = Linked(i)
PROOF
  <1> USE Bounds
  <1>1. Listed /\ Pointing
    BY DEF ListInv, Listed, Pointing
  <1>2. Pointing' /\ \A i \in Levels : Linked(i)' = Linked(i)
    BY <1>1, SameLinked
  <1>3. Listed'
    BY <1>1, <1>2 DEF Listed, Pointing
  <1>4. (Cardinality(Linked(1)) <= size)'
    BY <1>2 DEF ListInv, SkTypeOK
  <1>5. ASSUME NEW w \in Writers, wpc'[w] = "link" PROVE Linking(w)'
    <2>1. wpc[w] = "link" /\ Linking(w)
      BY <1>5 DEF ListInv, Writing
    <2>2. mu # None /\ val' = val /\ frozen' = frozen
      BY <2>1, SkipListAssumption DEF Linking
    <2>3. /\ wkey'[w] = wkey[w] /\ wval'[w] = wval[w]
          /\ wheight'[w] = wheight[w] /\ wlevel'[w] = wlevel[w]
      BY <2>1
    <2>4. wheight[w] \in Levels /\ wlevel[w] \in 1 .. wheight[w]
      BY <2>1 DEF Linking
    <2>5. PICK k : k = wkey[w]
      OBVIOUS
    <2>6. ASSUME NEW i \in wlevel[w] .. wheight[w] PROVE Fits(k, i)'
      <3>1. i \in Levels
        BY <2>4 DEF Levels
      <3>2. Fits(k, i)
        BY <2>1, <2>5 DEF Linking
      <3> QED
        BY <1>2, <3>1, <3>2 DEF Fits
    <2>7. \A i \in wlevel'[w] .. wheight'[w] : Fits(wkey[w], i)'
      BY <2>3, <2>5, <2>6
    <2>8. \A i \in Levels : wkey'[w] \in Linked(i)' <=> i < wlevel'[w]
      BY <1>2, <2>1, <2>3 DEF Linking
    <2>9. wkey'[w] \notin Linked(1)' => Cardinality(Linked(1))' < size'
      BY <1>2, <2>1, <2>3 DEF Linking
    <2>10. /\ mu' = w /\ ~ frozen' /\ val'[wkey'[w]] = wval'[w]
           /\ wheight'[w] \in Levels /\ wlevel'[w] \in 1 .. wheight'[w]
      BY <2>1, <2>2, <2>3 DEF Linking
    <2> QED
      BY <2>7, <2>8, <2>9, <2>10 DEF Linking
  <1>6. mu' # None => wpc'[mu'] = "link"
    BY DEF ListInv, Writing, SkTypeOK
  <1>7. Writing'
    BY <1>5, <1>6 DEF Writing
  <1> QED
    BY <1>2, <1>3, <1>4, <1>7

\* What the table holds changes with its values and its base level only.
LEMMA ContentsKept ==
  ASSUME val' = val, Linked(1)' = Linked(1)
  PROVE  Contents' = Contents
PROOF
  BY DEF Contents

LEMMA PutCallKeeps ==
  ASSUME ListInv, NEW w \in Writers, PutCall(w)
  PROVE  ListInv' /\ Contents' = Contents
PROOF
  <1> USE DEF PutCall, listVars
  <1>1. PICK k \in Keys, m \in Mutation : /\ wkey' = [wkey EXCEPT ![w] = k]
                                          /\ wval' = [wval EXCEPT ![w] = m]
    OBVIOUS
  <1>2. /\ wpc' = [wpc EXCEPT ![w] = "check"] /\ wpc[w] = "idle"
        /\ wpc \in [Writers -> {"idle", "check", "lock", "link", "stored", "refused"}]
        /\ wkey \in [Writers -> Keys \cup {None}]
        /\ wval \in [Writers -> Mutation \cup {None}]
    BY DEF ListInv, SkTypeOK
  <1>3. ASSUME NEW x \in Writers
        PROVE  /\ wpc'[x] # "idle" => wkey'[x] \in Keys /\ wval'[x] \in Mutation
               /\ wpc'[x] = "link" <=> wpc[x] = "link"
               /\ wpc[x] = "link" =>
                    /\ wkey'[x] = wkey[x] /\ wval'[x] = wval[x]
                    /\ wheight'[x] = wheight[x] /\ wlevel'[x] = wlevel[x]
    BY <1>1, <1>2 DEF ListInv, Writing
  <1>4. /\ Listed' /\ Writing' /\ (Cardinality(Linked(1)) <= size)'
        /\ \A i \in Levels : Linked(i)' = Linked(i)
    BY <1>3, QuietStep
  <1>5. Contents' = Contents
    BY <1>4, Bounds, ContentsKept
  <1>6. SkTypeOK'
    <2>1. /\ wpc' \in [Writers -> {"idle", "check", "lock", "link", "stored", "refused"}]
          /\ wkey' \in [Writers -> Keys \cup {None}]
          /\ wval' \in [Writers -> Mutation \cup {None}]
      BY <1>1, <1>2
    <2>2. puts' \in 0 .. MaxPuts
      BY SkipListAssumption DEF ListInv, SkTypeOK
    <2> QED
      BY <1>4, <2>1, <2>2 DEF ListInv, SkTypeOK, readVars
  <1> QED
    BY <1>4, <1>5, <1>6 DEF ListInv

LEMMA PutQuietKeeps ==
  ASSUME ListInv, NEW w \in Writers,
         PutCheck(w) \/ PutRefused(w) \/ PutReturn(w)
  PROVE  ListInv' /\ Contents' = Contents
PROOF
  <1> USE DEF PutCheck, PutRefused, PutReturn, listVars
  <1>1. /\ wpc \in [Writers -> {"idle", "check", "lock", "link", "stored", "refused"}]
        /\ wkey \in [Writers -> Keys \cup {None}]
        /\ wval \in [Writers -> Mutation \cup {None}]
        /\ wheight \in [Writers -> 0 .. MaxLevel]
        /\ wlevel \in [Writers -> 0 .. MaxLevel]
    BY DEF ListInv, SkTypeOK
  <1>2. ASSUME NEW x \in Writers
        PROVE  /\ wpc'[x] # "idle" => wkey'[x] \in Keys /\ wval'[x] \in Mutation
               /\ wpc'[x] = "link" <=> wpc[x] = "link"
               /\ wpc[x] = "link" =>
                    /\ wkey'[x] = wkey[x] /\ wval'[x] = wval[x]
                    /\ wheight'[x] = wheight[x] /\ wlevel'[x] = wlevel[x]
    BY <1>1 DEF ListInv, Writing
  <1>3. /\ Listed' /\ Writing' /\ (Cardinality(Linked(1)) <= size)'
        /\ \A i \in Levels : Linked(i)' = Linked(i)
    BY <1>2, QuietStep
  <1>4. Contents' = Contents
    BY <1>3, Bounds, ContentsKept
  <1>5. SkTypeOK'
    <2>1. 0 \in 0 .. MaxLevel
      BY Bounds
    <2>2. /\ wpc' \in [Writers -> {"idle", "check", "lock", "link", "stored", "refused"}]
          /\ wkey' \in [Writers -> Keys \cup {None}]
          /\ wval' \in [Writers -> Mutation \cup {None}]
          /\ wheight' \in [Writers -> 0 .. MaxLevel]
          /\ wlevel' \in [Writers -> 0 .. MaxLevel]
      BY <1>1, <2>1
    <2> QED
      BY <1>3, <2>2 DEF ListInv, SkTypeOK, readVars
  <1> QED
    BY <1>3, <1>4, <1>5 DEF ListInv

LEMMA FreezeKeeps ==
  ASSUME ListInv, Freeze
  PROVE  ListInv' /\ Contents' = Contents
PROOF
  <1> USE DEF Freeze, writeVars, readVars
  <1>1. \A x \in Writers : wpc[x] # "idle" => wkey[x] \in Keys /\ wval[x] \in Mutation
    BY DEF ListInv, Writing
  <1>2. /\ Listed' /\ Writing' /\ (Cardinality(Linked(1)) <= size)'
        /\ \A i \in Levels : Linked(i)' = Linked(i)
    BY <1>1, QuietStep
  <1>3. Contents' = Contents
    BY <1>2, Bounds, ContentsKept
  <1>4. SkTypeOK'
    BY <1>2 DEF ListInv, SkTypeOK
  <1> QED
    BY <1>2, <1>3, <1>4 DEF ListInv

\* The read variables have their types.
ReadTypes ==
  /\ rpc \in [Readers -> {"idle", "get", "base", "value", "seek", "walk", "take",
                          "done"}]
  /\ rlo \in [Readers -> Nodes] /\ rhi \in [Readers -> Keys \cup {Nil}]
  /\ rnode \in [Readers -> Nodes] /\ rlevel \in [Readers -> 0 .. MaxLevel]

LEMMA ReadKeeps ==
  ASSUME ListInv, UNCHANGED <<listVars, writeVars>>, ReadTypes'
  PROVE  /\ ListInv' /\ Contents' = Contents
         /\ \A i \in Levels : Linked(i)' = Linked(i)
PROOF
  <1> USE DEF listVars, writeVars
  <1>1. \A x \in Writers : wpc[x] # "idle" => wkey[x] \in Keys /\ wval[x] \in Mutation
    BY DEF ListInv, Writing
  <1>2. /\ Listed' /\ Writing' /\ (Cardinality(Linked(1)) <= size)'
        /\ \A i \in Levels : Linked(i)' = Linked(i)
    BY <1>1, QuietStep
  <1>3. Contents' = Contents
    BY <1>2, Bounds, ContentsKept
  <1>4. SkTypeOK'
    BY <1>2 DEF ListInv, SkTypeOK, ReadTypes
  <1> QED
    BY <1>2, <1>3, <1>4 DEF ListInv

\* An update changes the one key it is called with.
LEMMA PutUpdateKeeps ==
  ASSUME ListInv, NEW w \in Writers, PutUpdate(w)
  PROVE  /\ ListInv' /\ wkey[w] \in Keys /\ wval[w] \in Mutation
         /\ \A i \in Levels : Linked(i)' = Linked(i)
         /\ Contents' = [Contents EXCEPT ![wkey[w]] = wval[w]]
PROOF
  <1> USE DEF PutUpdate
  <1>1. /\ wpc \in [Writers -> {"idle", "check", "lock", "link", "stored", "refused"}]
        /\ val \in Table
    BY DEF ListInv, SkTypeOK
  <1>2. PICK k : k = wkey[w]
    OBVIOUS
  <1>3. k \in Keys /\ wval[w] \in Mutation
    BY <1>2 DEF ListInv, Writing
  <1>4. Listed
    BY DEF ListInv
  <1>5. k \in Linked(1)
    BY <1>2, <1>3, <1>4, Bounds, PredFacts
  <1>6. ASSUME NEW x \in Writers
        PROVE  /\ wpc'[x] # "idle" => wkey'[x] \in Keys /\ wval'[x] \in Mutation
               /\ wpc'[x] = "link" <=> wpc[x] = "link"
               /\ wpc[x] = "link" =>
                    /\ wkey'[x] = wkey[x] /\ wval'[x] = wval[x]
                    /\ wheight'[x] = wheight[x] /\ wlevel'[x] = wlevel[x]
    BY <1>1 DEF ListInv, Writing
  <1>7. /\ Listed' /\ Writing' /\ (Cardinality(Linked(1)) <= size)'
        /\ \A i \in Levels : Linked(i)' = Linked(i)
    BY <1>6, QuietStep
  <1>8. val' = [val EXCEPT ![k] = wval[w]]
    BY <1>2
  <1>9. Contents' = [Contents EXCEPT ![k] = wval[w]]
    <2>1. Linked(1)' = Linked(1)
      BY <1>7, Bounds
    <2>2. DOMAIN val = Keys
      BY <1>1 DEF Table
    <2> QED
      BY <1>3, <1>5, <1>8, <2>1, <2>2 DEF Contents
  <1>10. SkTypeOK'
    <2>1. /\ wpc' \in [Writers -> {"idle", "check", "lock", "link", "stored", "refused"}]
          /\ val' \in Table
      BY <1>1, <1>3, <1>8 DEF Table, Entry, Mutation
    <2> QED
      BY <1>7, <2>1 DEF ListInv, SkTypeOK, readVars
  <1> QED
    BY <1>2, <1>3, <1>7, <1>9, <1>10 DEF ListInv

\* A node that is made is not in the table yet.
LEMMA PutNewNodeKeeps ==
  ASSUME ListInv, NEW w \in Writers, PutNewNode(w)
  PROVE  /\ ListInv' /\ Contents' = Contents
         /\ \A i \in Levels : Linked(i)' = Linked(i)
         /\ wkey[w] \notin Linked(1)
         /\ \A k \in Linked(1) : val'[k] = val[k]
PROOF
  <1> USE Bounds
  <1>1. /\ wpc \in [Writers -> {"idle", "check", "lock", "link", "stored", "refused"}]
        /\ val \in Table /\ size \in Nat /\ Cardinality(Linked(1)) <= size
        /\ wheight \in [Writers -> 0 .. MaxLevel]
        /\ wlevel \in [Writers -> 0 .. MaxLevel]
    BY DEF ListInv, SkTypeOK
  <1>2. PICK k : k = wkey[w]
    OBVIOUS
  <1>3. /\ k \in Keys /\ k \notin Linked(1)
        /\ Pointing' /\ wheight'[w] \in Levels
        /\ \A i \in Levels : Linked(i)' = Linked(i)
        /\ \A i \in 1 .. wheight'[w] : Fits(wkey[w], i)'
    BY <1>2, NewNodeStep
  <1>4. Listed'
    BY <1>3 DEF ListInv, Listed, Pointing
  <1>5. PICK h \in Levels : /\ wheight' = [wheight EXCEPT ![w] = h]
                            /\ wlevel' = [wlevel EXCEPT ![w] = 1]
    BY DEF PutNewNode
  <1>6. /\ val' = [val EXCEPT ![k] = wval[w]] /\ size' = size + 1
        /\ wpc' = [wpc EXCEPT ![w] = "link"] /\ wpc[w] = "lock"
        /\ mu = None /\ mu' = w /\ ~ frozen /\ frozen' = frozen
        /\ wkey' = wkey /\ wval' = wval /\ puts' = puts /\ UNCHANGED readVars
    BY <1>2 DEF PutNewNode, FrozenUnderLock
  <1>7. wval[w] \in Mutation
    BY <1>6 DEF ListInv, Writing
  <1>8. Linked(1)' = Linked(1)
    BY <1>3
  <1>9. Contents' = Contents /\ \A s \in Linked(1) : val'[s] = val[s]
    <2>1. DOMAIN val = Keys
      BY <1>1 DEF Table
    <2>2. \A s \in Linked(1) : s \in Keys
      BY LinkedIsChain DEF Chain, ListInv, Listed, Pointing
    <2>3. \A s \in Linked(1) : val'[s] = val[s]
      BY <1>3, <1>6, <2>1, <2>2
    <2> QED
      BY <1>8, <2>3 DEF Contents
  <1>10. SkTypeOK'
    <2>1. val' \in Table
      BY <1>1, <1>3, <1>6, <1>7 DEF Table, Entry, Mutation
    <2>2. size' \in Nat /\ Cardinality(Linked(1))' <= size'
      <3>1. Cardinality(Linked(1)) \in Nat
        BY KeysFinite, LinkedIsChain DEF Chain, ListInv, Listed, Pointing
      <3> QED
        BY <1>1, <1>6, <1>8, <3>1
    <2>3. /\ wpc' \in [Writers -> {"idle", "check", "lock", "link", "stored", "refused"}]
          /\ mu' \in Writers \cup {None}
      BY <1>1, <1>6
    <2>4. /\ wheight' \in [Writers -> 0 .. MaxLevel]
          /\ wlevel' \in [Writers -> 0 .. MaxLevel]
      <3>1. h \in 0 .. MaxLevel /\ 1 \in 0 .. MaxLevel
        BY DEF Levels
      <3> QED
        BY <1>1, <1>5, <3>1
    <2> QED
      BY <1>3, <1>6, <2>1, <2>2, <2>3, <2>4 DEF ListInv, SkTypeOK, readVars, Pointing
  <1>11. Linking(w)'
    <2>1. wheight'[w] \in Levels /\ wlevel'[w] = 1 /\ wlevel'[w] \in 1 .. wheight'[w]
      BY <1>1, <1>3, <1>5 DEF Levels
    <2>2. \A i \in Levels : wkey'[w] \in Linked(i)' <=> i < wlevel'[w]
      <3>1. \A i \in Levels : k \notin Linked(i)
        BY <1>3 DEF ListInv, Listed, Levels
      <3> QED
        BY <1>2, <1>3, <1>6, <2>1, <3>1 DEF Levels
    <2>3. Cardinality(Linked(1))' < size'
      <3>1. Cardinality(Linked(1)) \in Nat
        BY KeysFinite, LinkedIsChain DEF Chain, ListInv, Listed, Pointing
      <3> QED
        BY <1>1, <1>6, <1>8, <3>1
    <2>4. val'[wkey'[w]] = wval'[w]
      BY <1>1, <1>2, <1>3, <1>6 DEF Table
    <2>5. \A i \in wlevel'[w] .. wheight'[w] : Fits(wkey[w], i)'
      BY <1>3, <2>1
    <2> QED
      BY <1>6, <2>1, <2>2, <2>3, <2>4, <2>5 DEF Linking
  <1>12. Writing'
    <2>1. ASSUME NEW x \in Writers
          PROVE  /\ wpc'[x] # "idle" => wkey'[x] \in Keys /\ wval'[x] \in Mutation
                 /\ wpc'[x] = "link" => x = w
      <3>1. wpc[x] # "link"
        BY <1>6, FreeLock
      <3> QED
        BY <1>1, <1>6, <3>1 DEF ListInv, Writing
    <2>2. wpc'[mu'] = "link"
      BY <1>1, <1>6
    <2> QED
      BY <1>11, <2>1, <2>2 DEF Writing
  <1> QED
    BY <1>2, <1>3, <1>4, <1>9, <1>10, <1>12 DEF ListInv

\* The link at the base level puts the entry in the table; the others change
\* nothing of what the table holds.
LEMMA PutLinkKeeps ==
  ASSUME ListInv, NEW w \in Writers, PutLink(w)
  PROVE  /\ ListInv' /\ wkey[w] \in Keys /\ wval[w] \in Mutation /\ ~ frozen
         /\ \A i \in Levels : Linked(i) \subseteq Linked(i)'
         /\ wkey[w] \in Linked(1)'
         /\ wkey[w] \notin Linked(1) =>
              Contents' = [Contents EXCEPT ![wkey[w]] = wval[w]]
         /\ wkey[w] \in Linked(1) => Contents' = Contents
PROOF
  <1> USE Bounds
  <1>1. /\ wpc \in [Writers -> {"idle", "check", "lock", "link", "stored", "refused"}]
        /\ val \in Table /\ size \in Nat /\ Cardinality(Linked(1)) <= size
        /\ wlevel \in [Writers -> 0 .. MaxLevel]
    BY DEF ListInv, SkTypeOK
  <1>2. PICK k, j, h : k = wkey[w] /\ j = wlevel[w] /\ h = wheight[w]
    OBVIOUS
  <1>3. /\ k \in Keys /\ j \in Levels /\ Pointing'
        /\ Linked(j)' = Linked(j) \cup {k} /\ k \notin Linked(j)
        /\ \A i \in Levels : i # j => Linked(i)' = Linked(i)
        /\ \A i \in Levels : next'[k][i] = next[k][i]
    BY <1>2, LinkStep
  <1>4. /\ Linking(w) /\ wval[w] \in Mutation /\ wpc[w] = "link"
    BY DEF PutLink, ListInv, Writing
  <1>5. /\ mu = w /\ ~ frozen /\ h \in Levels /\ j \in 1 .. h
        /\ val[k] = wval[w] /\ \A i \in Levels : k \in Linked(i) <=> i < j
        /\ k \notin Linked(1) => Cardinality(Linked(1)) < size
    BY <1>2, <1>4 DEF Linking
  <1>6. /\ UNCHANGED <<val, size, frozen, wkey, wval, wheight, puts>>
        /\ UNCHANGED readVars
        /\ \/ /\ j < h /\ wlevel' = [wlevel EXCEPT ![w] = j + 1]
              /\ wpc' = wpc /\ mu' = mu
           \/ /\ ~ (j < h) /\ wpc' = [wpc EXCEPT ![w] = "stored"]
              /\ mu' = None /\ wlevel' = wlevel
    BY <1>2 DEF PutLink
  <1>7. Listed
    BY DEF ListInv
  <1>8. \A i \in Levels : Linked(i) \subseteq Linked(i)' /\ Linked(i)' \subseteq Linked(i) \cup {k}
    BY <1>3
  <1>9. \A i \in Levels : k \in Linked(i)' <=> i <= j
    BY <1>3, <1>5 DEF Levels
  <1>10. Listed'
    <2>1. ASSUME NEW a \in Levels, NEW b \in Levels, a <= b
          PROVE  Linked(b)' \subseteq Linked(a)'
      <3>1. Linked(b) \subseteq Linked(a)
        BY <1>7, <2>1 DEF Listed
      <3>2. k \in Linked(b)' => k \in Linked(a)'
        BY <1>3, <1>9, <2>1 DEF Levels
      <3> QED
        BY <1>8, <3>1, <3>2
    <2> QED
      BY <1>3, <2>1 DEF Listed, Pointing
  <1>11. Cardinality(Linked(1))' <= size'
    <2>1. IsFiniteSet(Linked(1)) /\ Cardinality(Linked(1)) \in Nat
      BY KeysFinite, LinkedIsChain DEF Chain, ListInv, Listed, Pointing
    <2>2. CASE j = 1
      <3>1. Linked(1)' = Linked(1) \cup {k} /\ k \notin Linked(1)
        BY <1>3, <2>2
      <3>2. Cardinality(Linked(1) \cup {k}) = Cardinality(Linked(1)) + 1
        BY <2>1, <3>1, FS_AddElement
      <3> QED
        BY <1>1, <1>5, <1>6, <2>1, <3>1, <3>2
    <2>3. CASE j # 1
      BY <1>1, <1>3, <1>6, <2>3
    <2> QED
      BY <2>2, <2>3
  <1>12. k \in Linked(1)'
    BY <1>9, <1>3 DEF Levels
  <1>13. k \notin Linked(1) => Contents' = [Contents EXCEPT ![k] = wval[w]]
    <2> SUFFICES ASSUME k \notin Linked(1)
                 PROVE  Contents' = [Contents EXCEPT ![k] = wval[w]]
      OBVIOUS
    <2>1. j = 1
      BY <1>5 DEF Levels
    <2>2. Linked(1)' = Linked(1) \cup {k}
      BY <1>3, <2>1
    <2> QED
      BY <1>3, <1>5, <1>6, <2>2 DEF Contents
  <1>14. k \in Linked(1) => Contents' = Contents
    <2>1. k \in Linked(1) => Linked(1)' = Linked(1)
      BY <1>8
    <2> QED
      BY <1>6, <2>1, ContentsKept
  <1>15. SkTypeOK'
    <2>1. /\ wpc' \in [Writers -> {"idle", "check", "lock", "link", "stored", "refused"}]
          /\ mu' \in Writers \cup {None}
      BY <1>1, <1>5, <1>6
    <2>2. wlevel' \in [Writers -> 0 .. MaxLevel]
      <3>1. j < h => j + 1 \in 0 .. MaxLevel
        BY <1>5 DEF Levels
      <3> QED
        BY <1>1, <1>6, <3>1
    <2> QED
      BY <1>3, <1>6, <1>11, <2>1, <2>2 DEF ListInv, SkTypeOK, readVars, Pointing
  <1>16. \A x \in Writers : wpc[x] = "link" => x = w
    BY <1>5 DEF ListInv, Writing, Linking
  <1>17. Writing'
    <2>1. CASE j < h
      <3>1. wlevel'[w] = j + 1 /\ wpc' = wpc /\ mu' = mu
        BY <1>1, <1>6, <2>1
      <3>2. ASSUME NEW i \in j + 1 .. h PROVE Fits(k, i)'
        <4>1. i \in Levels /\ i # j /\ i \in j .. h
          BY <1>3, <1>5 DEF Levels
        <4>2. Fits(k, i)
          BY <1>2, <1>4, <4>1 DEF Linking
        <4>3. Linked(i)' = Linked(i) /\ next'[k][i] = next[k][i]
          BY <1>3, <4>1
        <4> QED
          BY <4>2, <4>3 DEF Fits
      <3>3. \A i \in wlevel'[w] .. wheight'[w] : Fits(wkey[w], i)'
        BY <1>2, <1>6, <3>1, <3>2
      <3>4. \A i \in Levels : wkey'[w] \in Linked(i)' <=> i < wlevel'[w]
        BY <1>2, <1>5, <1>6, <1>9, <3>1 DEF Levels
      <3>5. /\ mu' = w /\ ~ frozen' /\ val'[wkey'[w]] = wval'[w]
            /\ wheight'[w] \in Levels /\ wlevel'[w] \in 1 .. wheight'[w]
        BY <1>2, <1>5, <1>6, <2>1, <3>1 DEF Levels
      <3>6. Linking(w)'
        BY <1>2, <1>6, <1>12, <3>3, <3>4, <3>5 DEF Linking
      <3> QED
        BY <1>6, <1>16, <3>1, <3>6 DEF ListInv, Writing
    <2>2. CASE ~ (j < h)
      <3>1. wpc' = [wpc EXCEPT ![w] = "stored"] /\ mu' = None
        BY <1>6, <2>2
      <3>2. \A x \in Writers : wpc'[x] # "link"
        BY <1>1, <1>16, <3>1
      <3>3. \A x \in Writers :
              wpc'[x] # "idle" => wkey'[x] \in Keys /\ wval'[x] \in Mutation
        BY <1>1, <1>4, <1>6, <3>1 DEF ListInv, Writing
      <3> QED
        BY <3>1, <3>2, <3>3 DEF Writing
    <2> QED
      BY <2>1, <2>2
  <1> QED
    BY <1>2, <1>3, <1>4, <1>5, <1>8, <1>10, <1>12, <1>13, <1>14, <1>15, <1>17
    DEF ListInv

\* Every read keeps its variables in their types.
LEMMA ReadTypesKept ==
  ASSUME ListInv, Descending, NEW r \in Readers,
         GetBegin(r) \/ ScanBegin(r) \/ ReadStep(r)
  PROVE  ReadTypes' /\ Descending' /\ UNCHANGED <<listVars, writeVars>>
PROOF
  <1> USE Bounds, HeadIsNode
  <1>1. ReadTypes
    BY DEF ListInv, SkTypeOK, ReadTypes
  <1>2. Pointing
    BY DEF ListInv, Listed, Pointing
  <1>3. ASSUME NEW where \in {"get", "walk", "seek"}, NEW lo \in Nodes,
               NEW hi \in Keys \cup {Nil}, ReadBegins(r, where, lo, hi)
        PROVE  ReadTypes' /\ Descending' /\ UNCHANGED <<listVars, writeVars>>
    <2>1. MaxLevel \in 0 .. MaxLevel
      OBVIOUS
    <2> QED
      BY <1>1, <1>3, <2>1 DEF ReadBegins, ReadTypes, Descending
  <1>4. CASE GetBegin(r)
    BY <1>3, <1>4 DEF GetBegin
  <1>5. CASE ScanBegin(r)
    <2>1. PICK range \in Ranges :
            ReadBegins(r, IF range[1] = HeadNode THEN "walk" ELSE "seek",
                       range[1], range[2])
      BY <1>5 DEF ScanBegin
    <2>2. range[1] \in Nodes /\ range[2] \in Keys \cup {Nil}
      BY SkipListAssumption DEF Nodes, HeadNode, Nil
    <2> QED
      BY <1>3, <2>1, <2>2
  <1>6. CASE Descend(r)
    <2> DEFINE n == next[rnode[r]][rlevel[r]]
    <2>1. /\ rpc[r] \in {"get", "seek"} /\ UNCHANGED <<listVars, writeVars, rlo, rhi>>
          /\ rlevel[r] \in Levels /\ rnode[r] \in Nodes /\ rlo[r] \in Nodes
      BY <1>1, <1>6 DEF Descend, Descending, ReadTypes
    <2>2. n \in Keys \cup {Nil}
      BY <1>2, <2>1 DEF Pointing
    <2> HIDE DEF n
    <2>3. \/ /\ n < rlo[r] /\ rnode' = [rnode EXCEPT ![r] = n]
             /\ rpc' = rpc /\ rlevel' = rlevel
          \/ /\ rpc' = [rpc EXCEPT ![r] = "value"]
             /\ rnode' = rnode /\ rlevel' = rlevel
          \/ /\ rlevel' = [rlevel EXCEPT ![r] = rlevel[r] - 1] /\ rnode' = rnode
             /\ \/ rlevel[r] > 1 /\ rpc' = rpc
                \/ rpc' = [rpc EXCEPT ![r] = "base"]
                \/ rpc' = [rpc EXCEPT ![r] = "walk"]
      <3>1. CASE Below(n, rlo[r])
        BY <1>6, <3>1 DEF Descend, n, Below, MoveTo
      <3>2. CASE ~ Below(n, rlo[r]) /\ n = rlo[r] /\ rpc[r] = "get"
        BY <1>6, <3>2 DEF Descend, n
      <3>3. CASE ~ Below(n, rlo[r]) /\ ~ (n = rlo[r] /\ rpc[r] = "get")
        <4>1. /\ rlevel' = [rlevel EXCEPT ![r] = @ - 1]
              /\ rpc' = [rpc EXCEPT ![r] = IF rlevel[r] > 1 THEN @
                                          ELSE IF @ = "get" THEN "base" ELSE "walk"]
              /\ rnode' = rnode
          BY <1>6, <3>3 DEF Descend, n
        <4> QED
          BY <1>1, <4>1 DEF ReadTypes
      <3> QED
        BY <3>1, <3>2, <3>3
    <2>4. n < rlo[r] => n \in Nodes
      <3>1. rlo[r] \in Nat /\ rlo[r] < Nil
        BY <2>1
      <3>2. n < rlo[r] => n # Nil
        BY <3>1
      <3> QED
        BY <2>2, <3>2
    <2>5. rlevel[r] - 1 \in 0 .. MaxLevel /\ (rlevel[r] > 1 => rlevel[r] - 1 \in Levels)
      BY <2>1 DEF Levels
    <2>6. ReadTypes'
      BY <1>1, <2>1, <2>3, <2>4, <2>5 DEF ReadTypes
    <2>7. Descending'
      BY <1>1, <2>3, <2>5 DEF ReadTypes, Descending
    <2> QED
      BY <2>1, <2>6, <2>7
  <1>7. CASE CheckBase(r) \/ GetValue(r)
    BY <1>1, <1>7 DEF CheckBase, GetValue, ReadTypes, Descending
  <1>8. CASE ScanNext(r)
    <2> DEFINE n == next[rnode[r]][1]
    <2>1. n \in Keys \cup {Nil}
      <3>1. rnode[r] \in Nodes
        BY <1>1 DEF ReadTypes
      <3> QED
        BY <1>2, <3>1 DEF Pointing
    <2>2. n # Nil => n \in Nodes
      BY <2>1
    <2> HIDE DEF n
    <2>3. /\ \/ rnode' = rnode
             \/ n # Nil /\ rnode' = [rnode EXCEPT ![r] = n]
          /\ rpc' \in {[rpc EXCEPT ![r] = "done"], [rpc EXCEPT ![r] = "take"],
                       [rpc EXCEPT ![r] = "walk"]}
          /\ UNCHANGED <<listVars, writeVars, rlo, rhi, rlevel>>
      BY <1>8 DEF ScanNext, n
    <2> QED
      BY <1>1, <2>2, <2>3 DEF ReadTypes, Descending
  <1>9. CASE ScanTake(r)
    BY <1>1, <1>9 DEF ScanTake, ReadTypes, Descending
  <1>10. CASE ReadReturns(r)
    <2>1. 0 \in 0 .. MaxLevel
      OBVIOUS
    <2> QED
      BY <1>1, <1>10, <2>1 DEF ReadReturns, ReadTypes, Descending
  <1> QED
    BY <1>4, <1>5, <1>6, <1>7, <1>8, <1>9, <1>10 DEF ReadStep

LEMMA ListNext ==
  ListInv /\ Descending /\ [SkNext]_skVars => ListInv' /\ Descending'
PROOF
  <1> SUFFICES ASSUME ListInv, Descending, [SkNext]_skVars
               PROVE  ListInv' /\ Descending'
    OBVIOUS
  <1>1. ASSUME NEW w \in Writers, PutCall(w) \/ PutStep(w)
        PROVE  ListInv' /\ Descending'
    <2>1. UNCHANGED readVars
      BY <1>1 DEF PutCall, PutStep, PutCheck, PutRefused, PutUpdate, PutNewNode,
                  PutLink, PutReturn
    <2>2. Descending'
      BY <2>1 DEF Descending, readVars
    <2>3. ListInv'
      BY <1>1, PutCallKeeps, PutQuietKeeps, PutUpdateKeeps, PutNewNodeKeeps,
         PutLinkKeeps DEF PutStep
    <2> QED
      BY <2>2, <2>3
  <1>2. CASE Freeze
    BY <1>2, FreezeKeeps DEF Freeze, readVars, Descending
  <1>3. ASSUME NEW r \in Readers, GetBegin(r) \/ ScanBegin(r) \/ ReadStep(r)
        PROVE  ListInv' /\ Descending'
    BY <1>3, ReadTypesKept, ReadKeeps
  <1>4. CASE UNCHANGED skVars
    <2>1. UNCHANGED <<listVars, writeVars>> /\ UNCHANGED readVars
      BY <1>4 DEF skVars
    <2>2. ReadTypes'
      BY <2>1 DEF ListInv, SkTypeOK, ReadTypes, readVars
    <2>3. Descending'
      BY <2>1 DEF Descending, readVars
    <2> QED
      BY <2>1, <2>2, <2>3, ReadKeeps
  <1> QED
    BY <1>1, <1>2, <1>3, <1>4 DEF SkNext

LEMMA ListInvariant == SkSpec => [](ListInv /\ Descending)
PROOF
  <1>1. SkInit => ListInv /\ Descending
    BY ListInit DEF SkInit, Descending
  <1>2. QED
    BY <1>1, ListNext, PTL DEF SkSpec

\* Whatever a Put has linked so far, every level of the skip list is sorted and
\* nested in the one below it, and size counts every node that is linked
\* (memtable.go:80-146).
THEOREM SkipListSafe == SkSpec => []SkInv
PROOF
  <1>1. ListInv => SkInv
    <2> SUFFICES ASSUME ListInv PROVE SkInv
      OBVIOUS
    <2>1. ASSUME NEW i \in 2 .. MaxLevel PROVE Linked(i) \subseteq Linked(i - 1)
      <3>1. i \in Levels /\ i - 1 \in Levels /\ i - 1 <= i
        BY Bounds DEF Levels
      <3> QED
        BY <3>1 DEF ListInv, Listed
    <2> QED
      BY <2>1 DEF ListInv, Listed, SkInv, LevelsNested
  <1> QED
    BY <1>1, ListInvariant, PTL

-----------------------------------------------------------------------------
(* The skip list implements FreezableTable.                                *)

Statuses == [w \in Writers |-> Status(w)]
Calls == [w \in Writers |-> [key |-> wkey[w], val |-> wval[w]]]

\* How far a Put has come does not change under the steps of others.
LEMMA StatusKept ==
  ASSUME NEW x \in Writers, wpc'[x] = wpc[x],
         wpc[x] = "link" => (wkey'[x] \in Linked(1)' <=> wkey[x] \in Linked(1))
  PROVE  Status(x)' = Status(x)
PROOF
  <1>1. CASE wpc[x] = "link"
    BY <1>1 DEF Status
  <1>2. CASE wpc[x] # "link"
    BY <1>2 DEF Status
  <1> QED
    BY <1>1, <1>2

LEMMA StatusesKept ==
  ASSUME wpc' = wpc, wkey' = wkey, Linked(1)' = Linked(1)
  PROVE  Statuses' = Statuses
PROOF
  <1>1. \A x \in Writers : Status(x)' = Status(x)
    BY StatusKept
  <1> QED
    BY <1>1 DEF Statuses

\* One Put moves on, and the others keep their places.
LEMMA StatusMoves ==
  ASSUME NEW w \in Writers, NEW s, Status(w)' = s,
         \A x \in Writers : x # w =>
           /\ wpc'[x] = wpc[x]
           /\ wpc[x] = "link" => (wkey'[x] \in Linked(1)' <=> wkey[x] \in Linked(1))
  PROVE  Statuses' = [Statuses EXCEPT ![w] = s]
PROOF
  <1>1. \A x \in Writers : x # w => Status(x)' = Status(x)
    BY StatusKept
  <1> QED
    BY <1>1 DEF Statuses

\* The mapped state, spelled out.
LEMMA Mapped ==
  \A w \in Writers :
     /\ Promise!Call(w) <=>
          /\ Statuses[w] = "idle"
          /\ Statuses' = [Statuses EXCEPT ![w] = "called"]
          /\ \E k \in Keys, m \in Mutation :
               Calls' = [Calls EXCEPT ![w] = [key |-> k, val |-> m]]
          /\ Contents' = Contents /\ frozen' = frozen
     /\ Promise!Apply(w) <=>
          /\ Statuses[w] = "called" /\ ~ frozen
          /\ Contents' = [Contents EXCEPT ![Calls[w].key] = Calls[w].val]
          /\ Statuses' = [Statuses EXCEPT ![w] = "applied"]
          /\ frozen' = frozen /\ Calls' = Calls
     /\ Promise!Refuse(w) <=>
          /\ Statuses[w] = "called" /\ frozen
          /\ Statuses' = [Statuses EXCEPT ![w] = "refused"]
          /\ Contents' = Contents /\ frozen' = frozen /\ Calls' = Calls
     /\ Promise!Return(w) <=>
          /\ Statuses[w] \in {"applied", "refused"}
          /\ Statuses' = [Statuses EXCEPT ![w] = "idle"]
          /\ Calls' = [Calls EXCEPT ![w] = [key |-> None, val |-> None]]
          /\ Contents' = Contents /\ frozen' = frozen
PROOF
  BY DEF Promise!Call, Promise!Apply, Promise!Refuse, Promise!Return,
         Promise!NoOp, Promise!Mutation, Mutation, Statuses, Calls

LEMMA MappedStutter ==
  ASSUME Contents' = Contents, frozen' = frozen, Statuses' = Statuses, Calls' = Calls
  PROVE  UNCHANGED Promise!vars
PROOF
  BY DEF Promise!vars, Statuses, Calls

LEMMA MappedApply ==
  ASSUME NEW w \in Writers, Status(w) = "called", ~ frozen,
         Contents' = [Contents EXCEPT ![wkey[w]] = wval[w]],
         Statuses' = [Statuses EXCEPT ![w] = "applied"],
         frozen' = frozen, Calls' = Calls
  PROVE  Promise!Apply(w)
PROOF
  <1>1. Calls[w].key = wkey[w] /\ Calls[w].val = wval[w]
    BY DEF Calls
  <1>2. Statuses[w] = "called"
    BY DEF Statuses
  <1> QED
    BY <1>1, <1>2, Mapped

LEMMA PutImplements ==
  ASSUME ListInv, NEW w \in Writers, PutCall(w) \/ PutStep(w)
  PROVE  \/ Promise!Call(w) \/ Promise!Apply(w) \/ Promise!Refuse(w)
         \/ Promise!Return(w) \/ UNCHANGED Promise!vars
PROOF
  <1> USE Bounds
  <1>1. /\ wpc \in [Writers -> {"idle", "check", "lock", "link", "stored", "refused"}]
        /\ wkey \in [Writers -> Keys \cup {None}]
        /\ wval \in [Writers -> Mutation \cup {None}]
    BY DEF ListInv, SkTypeOK
  <1>2. Pointing
    BY DEF ListInv, Listed, Pointing
  <1>3. Statuses[w] = Status(w) /\ Calls[w] = [key |-> wkey[w], val |-> wval[w]]
    BY DEF Statuses, Calls
  <1>4. next' = next => Linked(1)' = Linked(1)
    BY <1>2, SameLinked
  <1>5. wkey' = wkey /\ wval' = wval => Calls' = Calls
    BY DEF Calls
  <1>6. CASE PutCall(w)
    <2> USE <1>6 DEF PutCall, listVars
    <2>1. PICK k \in Keys, m \in Mutation : /\ wkey' = [wkey EXCEPT ![w] = k]
                                            /\ wval' = [wval EXCEPT ![w] = m]
      OBVIOUS
    <2>2. Contents' = Contents
      BY PutCallKeeps
    <2>3. Status(w) = "idle" /\ Status(w)' = "called"
      BY <1>1 DEF Status
    <2>4. \A x \in Writers : x # w => wpc'[x] = wpc[x] /\ wkey'[x] = wkey[x]
      BY <1>1, <2>1
    <2>5. Statuses' = [Statuses EXCEPT ![w] = "called"]
      BY <1>4, <2>3, <2>4, StatusMoves
    <2>6. Calls' = [Calls EXCEPT ![w] = [key |-> k, val |-> m]]
      BY <1>1, <2>1 DEF Calls
    <2> QED
      BY <1>3, <2>2, <2>3, <2>5, <2>6, Mapped
  <1>7. CASE (PutCheck(w) /\ frozen) \/ PutRefused(w)
    <2>1. /\ UNCHANGED <<listVars, wkey, wval>> /\ frozen
          /\ wpc[w] \in {"check", "lock"} /\ wpc' = [wpc EXCEPT ![w] = "refused"]
      BY <1>7 DEF PutCheck, PutRefused, FrozenUnderLock
    <2>2. Contents' = Contents
      BY <1>7, PutQuietKeeps
    <2>3. Status(w) = "called" /\ Status(w)' = "refused"
      BY <1>1, <2>1 DEF Status
    <2>4. \A x \in Writers : x # w => wpc'[x] = wpc[x] /\ wkey'[x] = wkey[x]
      BY <1>1, <2>1
    <2>5. Statuses' = [Statuses EXCEPT ![w] = "refused"]
      BY <1>4, <2>1, <2>3, <2>4, StatusMoves DEF listVars
    <2> QED
      BY <1>3, <1>5, <2>1, <2>2, <2>3, <2>5, Mapped DEF listVars
  <1>8. CASE PutCheck(w) /\ ~ frozen
    <2>1. /\ UNCHANGED <<listVars, wkey, wval>>
          /\ wpc[w] = "check" /\ wpc' = [wpc EXCEPT ![w] = "lock"]
      BY <1>8 DEF PutCheck
    <2>2. Contents' = Contents
      BY <1>8, PutQuietKeeps
    <2>3. Status(w) = "called" /\ Status(w)' = "called"
      BY <1>1, <2>1 DEF Status
    <2>4. \A x \in Writers : x # w => wpc'[x] = wpc[x] /\ wkey'[x] = wkey[x]
      BY <1>1, <2>1
    <2>5. Statuses' = [Statuses EXCEPT ![w] = "called"]
      BY <1>4, <2>1, <2>3, <2>4, StatusMoves DEF listVars
    <2>6. Statuses' = Statuses
      BY <1>3, <2>3, <2>5 DEF Statuses
    <2> QED
      BY <1>5, <2>1, <2>2, <2>6, MappedStutter DEF listVars
  <1>9. CASE PutUpdate(w)
    <2>1. /\ wpc[w] = "lock" /\ wpc' = [wpc EXCEPT ![w] = "stored"] /\ ~ frozen
          /\ next' = next /\ frozen' = frozen /\ wkey' = wkey /\ wval' = wval
      BY <1>9 DEF PutUpdate, FrozenUnderLock
    <2>2. Contents' = [Contents EXCEPT ![wkey[w]] = wval[w]]
      BY <1>9, PutUpdateKeeps
    <2>3. Status(w) = "called" /\ Status(w)' = "applied"
      BY <1>1, <2>1 DEF Status
    <2>4. \A x \in Writers : x # w => wpc'[x] = wpc[x] /\ wkey'[x] = wkey[x]
      BY <1>1, <2>1
    <2>5. Statuses' = [Statuses EXCEPT ![w] = "applied"]
      BY <1>4, <2>1, <2>3, <2>4, StatusMoves
    <2> QED
      BY <1>5, <2>1, <2>2, <2>3, <2>5, MappedApply
  <1>10. CASE PutNewNode(w)
    <2>1. /\ wpc[w] = "lock" /\ wpc' = [wpc EXCEPT ![w] = "link"]
          /\ frozen' = frozen /\ wkey' = wkey /\ wval' = wval
      BY <1>10 DEF PutNewNode
    <2>2. /\ Contents' = Contents /\ Linked(1)' = Linked(1)
          /\ wkey[w] \notin Linked(1)
      BY <1>10, PutNewNodeKeeps
    <2>3. Status(w) = "called" /\ Status(w)' = "called"
      BY <1>1, <2>1, <2>2 DEF Status
    <2>4. \A x \in Writers : x # w => wpc'[x] = wpc[x] /\ wkey'[x] = wkey[x]
      BY <1>1, <2>1
    <2>5. Statuses' = [Statuses EXCEPT ![w] = "called"]
      BY <2>2, <2>3, <2>4, StatusMoves
    <2>6. Statuses' = Statuses
      BY <1>3, <2>3, <2>5 DEF Statuses
    <2> QED
      BY <1>5, <2>1, <2>2, <2>6, MappedStutter
  <1>11. CASE PutLink(w)
    <2>1. /\ wpc[w] = "link" /\ frozen' = frozen /\ wkey' = wkey /\ wval' = wval
          /\ wpc' = wpc \/ wpc' = [wpc EXCEPT ![w] = "stored"]
      BY <1>11 DEF PutLink
    <2>2. /\ ~ frozen /\ wkey[w] \in Linked(1)'
          /\ wkey[w] \notin Linked(1) =>
               Contents' = [Contents EXCEPT ![wkey[w]] = wval[w]]
          /\ wkey[w] \in Linked(1) => Contents' = Contents
      BY <1>11, PutLinkKeeps
    <2>3. Status(w)' = "applied"
      BY <1>1, <2>1, <2>2 DEF Status
    <2>4. \A x \in Writers : x # w => wpc'[x] = wpc[x] /\ wpc[x] # "link"
      <3>1. \A x \in Writers : wpc[x] = "link" => mu = x
        BY DEF ListInv, Writing, Linking
      <3> QED
        BY <1>1, <2>1, <3>1
    <2>5. Statuses' = [Statuses EXCEPT ![w] = "applied"]
      BY <2>3, <2>4, StatusMoves
    <2>6. CASE wkey[w] \notin Linked(1)
      <3>1. Status(w) = "called"
        BY <2>1, <2>6 DEF Status
      <3> QED
        BY <1>5, <2>1, <2>2, <2>5, <2>6, <3>1, MappedApply
    <2>7. CASE wkey[w] \in Linked(1)
      <3>1. Status(w) = "applied"
        BY <2>1, <2>7 DEF Status
      <3>2. Statuses' = Statuses
        BY <1>3, <2>5, <3>1 DEF Statuses
      <3> QED
        BY <1>5, <2>1, <2>2, <2>7, <3>2, MappedStutter
    <2> QED
      BY <2>6, <2>7
  <1>12. CASE PutReturn(w)
    <2>1. /\ wpc[w] \in {"stored", "refused"} /\ wpc' = [wpc EXCEPT ![w] = "idle"]
          /\ wkey' = [wkey EXCEPT ![w] = None] /\ wval' = [wval EXCEPT ![w] = None]
          /\ next' = next /\ frozen' = frozen
      BY <1>12 DEF PutReturn, listVars
    <2>2. Contents' = Contents
      BY <1>12, PutQuietKeeps
    <2>3. Status(w) \in {"applied", "refused"} /\ Status(w)' = "idle"
      BY <1>1, <2>1 DEF Status
    <2>4. \A x \in Writers : x # w => wpc'[x] = wpc[x] /\ wkey'[x] = wkey[x]
      BY <1>1, <2>1
    <2>5. Statuses' = [Statuses EXCEPT ![w] = "idle"]
      BY <1>4, <2>1, <2>3, <2>4, StatusMoves
    <2>6. Calls' = [Calls EXCEPT ![w] = [key |-> None, val |-> None]]
      BY <1>1, <2>1 DEF Calls
    <2> QED
      BY <1>3, <2>1, <2>2, <2>3, <2>5, <2>6, Mapped
  <1> QED
    BY <1>6, <1>7, <1>8, <1>9, <1>10, <1>11, <1>12 DEF PutStep

LEMMA StepImplementsTable ==
  ASSUME ListInv, Descending, [SkNext]_skVars
  PROVE  [Promise!Next]_(Promise!vars)
PROOF
  <1> USE Bounds
  <1>1. ASSUME NEW w \in Writers, PutCall(w) \/ PutStep(w)
        PROVE  Promise!Next \/ UNCHANGED Promise!vars
    BY <1>1, PutImplements DEF Promise!Next
  <1>2. CASE Freeze
    <2>1. Contents' = Contents
      BY <1>2, FreezeKeeps
    <2>2. Linked(1)' = Linked(1)
      BY <1>2, SameLinked DEF Freeze, ListInv, Listed, Pointing
    <2>3. Statuses' = Statuses /\ Calls' = Calls
      BY <1>2, <2>2, StatusesKept DEF Freeze, writeVars, Calls
    <2>4. Promise!Freeze
      BY <1>2, <2>1, <2>3 DEF Promise!Freeze, Freeze, Statuses, Calls
    <2> QED
      BY <2>4 DEF Promise!Next
  <1>3. ASSUME NEW r \in Readers, GetBegin(r) \/ ScanBegin(r) \/ ReadStep(r)
        PROVE  UNCHANGED Promise!vars
    <2>1. ReadTypes' /\ UNCHANGED <<listVars, writeVars>>
      BY <1>3, ReadTypesKept
    <2>2. Contents' = Contents /\ Linked(1)' = Linked(1)
      BY <2>1, ReadKeeps
    <2>3. Statuses' = Statuses /\ Calls' = Calls
      BY <2>1, <2>2, StatusesKept DEF writeVars, Calls
    <2> QED
      BY <2>1, <2>2, <2>3, MappedStutter DEF listVars
  <1>4. CASE UNCHANGED skVars
    <2>1. UNCHANGED <<listVars, writeVars>> /\ UNCHANGED readVars
      BY <1>4 DEF skVars
    <2>2. ReadTypes'
      BY <2>1 DEF ListInv, SkTypeOK, ReadTypes, readVars
    <2>3. Contents' = Contents /\ Linked(1)' = Linked(1)
      BY <2>1, <2>2, ReadKeeps
    <2>4. Statuses' = Statuses /\ Calls' = Calls
      BY <2>1, <2>3, StatusesKept DEF writeVars, Calls
    <2> QED
      BY <2>1, <2>3, <2>4, MappedStutter DEF listVars
  <1> QED
    BY <1>1, <1>2, <1>3, <1>4 DEF SkNext

\* The skip list implements the table that Rotation takes a MemTable for: a Put
\* changes one key, once, between its call and its return, and never after
\* Freeze, though it may have found the table not frozen before it took the
\* lock (memtable.go:65-78, memtable.go:201-205).
THEOREM SkipListImplementsTable == SkSpec => ImplementsFreezableTable
PROOF
  <1>1. SkInit => Promise!Init
    <2> SUFFICES ASSUME SkInit PROVE Promise!Init
      OBVIOUS
    <2>1. val \in Table
      BY ListInit DEF ListInv, SkTypeOK
    <2>2. Contents \in Promise!Table
      BY <2>1 DEF Contents, Table, Entry, Promise!Table, Promise!Entry
    <2>3. \A w \in Writers : Status(w) = "idle" /\ wkey[w] = None /\ wval[w] = None
      BY DEF SkInit, Status
    <2> QED
      BY <2>2, <2>3 DEF SkInit, Promise!Init, Promise!NoOp
  <1> QED
    BY <1>1, StepImplementsTable, ListInvariant, PTL
    DEF SkSpec, ImplementsFreezableTable, Promise!Spec

-----------------------------------------------------------------------------
(* The reads: ReadInv is inductive beside ListInv.                         *)

LEMMA ListedRow ==
  ASSUME NEW s \in Seq([key : Keys, val : Entry]), NEW i \in 1 .. Len(s)
  PROVE  s[i].key \in Keys /\ s[i].val \in Entry
PROOF
  <1>1. s[i] \in [key : Keys, val : Entry]
    BY ElementOfSeq
  <1> QED
    BY <1>1

\* What a reader has found stays right while its window and the levels grow.
LEMMA ReaderKept ==
  ASSUME ReadInv, NEW x \in Readers,
         rpc'[x] = rpc[x], rlo'[x] = rlo[x], rhi'[x] = rhi[x],
         rnode'[x] = rnode[x], rlevel'[x] = rlevel[x], rout'[x] = rout[x],
         rpc[x] \in {"get", "seek"} => rlevel[x] \in Levels,
         \A k \in Keys : window[x][k] \subseteq window'[x][k],
         \A i \in Levels : Linked(i) \subseteq Linked(i)'
  PROVE  Position(x)' /\ Listing(x)'
PROOF
  <1> USE Bounds
  <1>1. Position(x) /\ Listing(x) /\ rout[x] \in Seq([key : Keys, val : Entry])
    BY DEF ReadInv
  <1>2. \A i \in 1 .. Len(rout[x]) : rout[x][i].key \in Keys
    BY <1>1, ListedRow
  <1>3. Listing(x)'
    BY <1>1, <1>2 DEF Listing
  <1>4. \A k : InRange(x, k)' <=> InRange(x, k)
    BY DEF InRange
  <1>5. Answered(x)' = Answered(x)
    BY DEF Answered
  <1>6. ASSUME NEW b, CoveredBelow(x, b) PROVE CoveredBelow(x, b)'
    BY <1>4, <1>5, <1>6 DEF CoveredBelow
  <1>7. \A i \in Levels : \A n \in Standing(i) : n \in Standing(i)'
    BY DEF Standing
  <1>8. Getting(x)'
    BY <1>1 DEF Position, Getting
  <1>9. Searching(x)'
    <2> SUFFICES ASSUME rpc[x] \in {"get", "seek"} PROVE Searching(x)'
      BY DEF Searching
    <2>1. PICK l : l = rlevel[x]
      OBVIOUS
    <2>2. l \in Levels /\ rnode[x] \in Standing(l) /\ rlo[x] \in Keys /\ rnode[x] < rlo[x]
      BY <1>1, <2>1 DEF Position, Searching
    <2>3. rnode[x] \in Standing(l)'
      BY <1>7, <2>2
    <2>4. rnode'[x] \in Standing(rlevel[x])'
      BY <2>1, <2>3 DEF Standing
    <2> QED
      BY <2>2, <2>4 DEF Searching
  <1>10. Missing(x)'
    <2> SUFFICES ASSUME rpc[x] = "base" PROVE Missing(x)'
      BY DEF Missing
    <2>1. /\ rlo[x] \in Keys /\ rnode[x] \in Standing(1) /\ rnode[x] < rlo[x]
          /\ Absent \in window[x][rlo[x]]
      BY <1>1 DEF Position, Getting, Missing
    <2>2. rnode[x] \in Standing(1)' /\ Absent \in window'[x][rlo[x]]
      BY <1>7, <2>1
    <2> QED
      BY <2>1, <2>2 DEF Missing
  <1>11. Found(x)'
    BY <1>1 DEF Position, Found
  <1>12. Walking(x)'
    <2> SUFFICES ASSUME rpc[x] = "walk" PROVE Walking(x)'
      BY DEF Walking
    <2>1. PICK b : b = rnode[x] + 1
      OBVIOUS
    <2>2. /\ rnode[x] \in Standing(1) /\ CoveredBelow(x, b)
          /\ \A i \in 1 .. Len(rout[x]) : rout[x][i].key <= rnode[x]
      BY <1>1, <2>1 DEF Position, Walking
    <2>3. CoveredBelow(x, rnode[x] + 1)'
      <3>1. CoveredBelow(x, b)'
        BY <1>6, <2>2
      <3> QED
        BY <2>1, <3>1 DEF CoveredBelow
    <2>4. rnode[x] \in Standing(1)'
      BY <1>7, <2>2
    <2> QED
      BY <2>2, <2>3, <2>4 DEF Walking
  <1>13. Taking(x)'
    <2> SUFFICES ASSUME rpc[x] = "take" PROVE Taking(x)'
      BY DEF Taking
    <2>1. PICK b : b = rnode[x]
      OBVIOUS
    <2>2. /\ rnode[x] \in Linked(1) /\ rlo[x] <= rnode[x] /\ rnode[x] <= rhi[x]
          /\ \A i \in 1 .. Len(rout[x]) : rout[x][i].key < rnode[x]
          /\ CoveredBelow(x, b)
      BY <1>1, <2>1 DEF Position, Taking
    <2>3. CoveredBelow(x, rnode[x])'
      <3>1. CoveredBelow(x, b)'
        BY <1>6, <2>2
      <3> QED
        BY <2>1, <3>1 DEF CoveredBelow
    <2> QED
      BY <2>2, <2>3 DEF Taking
  <1>14. Finished(x)'
    BY <1>1, <1>6 DEF Position, Finished
  <1> QED
    BY <1>3, <1>8, <1>9, <1>10, <1>11, <1>12, <1>13, <1>14 DEF Position

\* A step of a Put leaves the reads where they are and shows them its effect.
LEMMA WritesKeepReads ==
  ASSUME ListInv, ListInv', Descending, ReadInv, UNCHANGED readVars,
         \A i \in Levels : Linked(i) \subseteq Linked(i)',
         window' = Seen \/ (window' = window /\ Contents' = Contents)
  PROVE  ReadInv'
PROOF
  <1> USE Bounds
  <1>1. Contents' \in Table
    BY DEF ListInv, SkTypeOK, Contents, Table, Entry
  <1>2. ASSUME NEW x \in Readers, NEW k \in Keys
        PROVE  /\ window[x][k] \subseteq window'[x][k]
               /\ window'[x][k] \subseteq Entry
               /\ InRange(x, k) => Contents'[k] \in window'[x][k]
    <2>1. window[x][k] \subseteq Entry /\ Contents'[k] \in Entry
      BY <1>1 DEF ReadInv, Table
    <2>2. CASE window' = Seen
      <3>1. window'[x][k] = window[x][k] \cup (IF InRange(x, k) THEN {Contents'[k]} ELSE {})
        BY <2>2 DEF Seen
      <3> QED
        BY <2>1, <3>1
    <2>3. CASE window' = window /\ Contents' = Contents
      BY <2>1, <2>3 DEF ReadInv
    <2> QED
      BY <2>2, <2>3
  <1>3. window' \in [Readers -> [Keys -> SUBSET Entry]]
    <2>1. window' = [x \in Readers |-> window'[x]]
          /\ \A x \in Readers : window'[x] = [k \in Keys |-> window'[x][k]]
      BY DEF Seen, ReadInv
    <2> QED
      BY <1>2, <2>1
  <1>4. ASSUME NEW x \in Readers PROVE Position(x)' /\ Listing(x)'
    <2>1. \A k \in Keys : window[x][k] \subseteq window'[x][k]
      BY <1>2
    <2>2. rpc[x] \in {"get", "seek"} => rlevel[x] \in Levels
      BY DEF Descending
    <2> QED
      BY <2>1, <2>2, ReaderKept DEF readVars
  <1>5. \A x \in Readers, k \in Keys : InRange(x, k)' => Contents'[k] \in window'[x][k]
    BY <1>2 DEF InRange, readVars
  <1>6. rout' \in [Readers -> Seq([key : Keys, val : Entry])]
    BY DEF ReadInv, readVars
  <1> QED
    BY <1>3, <1>4, <1>5, <1>6 DEF ReadInv

\* A key that is not linked reads as absent, in the window of every read.
LEMMA UnlinkedAbsent ==
  ASSUME ReadInv, NEW r \in Readers, NEW k \in Keys, InRange(r, k), k \notin Linked(1)
  PROVE  Absent \in window[r][k]
PROOF
  BY DEF ReadInv, Contents

LEMMA LinkedValue ==
  ASSUME ReadInv, NEW r \in Readers, NEW k \in Keys, InRange(r, k), k \in Linked(1)
  PROVE  val[k] \in window[r][k]
PROOF
  BY DEF ReadInv, Contents

\* The steps that only move the read r: what r's new place requires suffices.
LEMMA ReadMoves ==
  ASSUME ListInv, Descending, ReadInv, NEW r \in Readers, ReadTypes',
         UNCHANGED <<listVars, writeVars>>, UNCHANGED <<rlo, rhi, window>>,
         rpc[r] # "idle",
         rpc' = [rpc EXCEPT ![r] = rpc'[r]], rnode' = [rnode EXCEPT ![r] = rnode'[r]],
         rlevel' = [rlevel EXCEPT ![r] = rlevel'[r]],
         rout' = [rout EXCEPT ![r] = rout'[r]],
         rout'[r] \in Seq([key : Keys, val : Entry]),
         Position(r)', Listing(r)'
  PROVE  ReadInv'
PROOF
  <1>1. Contents' = Contents /\ \A i \in Levels : Linked(i)' = Linked(i)
    BY ReadKeeps
  <1>2. /\ rpc \in [Readers -> {"idle", "get", "base", "value", "seek", "walk",
                                "take", "done"}]
        /\ rnode \in [Readers -> Nodes] /\ rlevel \in [Readers -> 0 .. MaxLevel]
        /\ rout \in [Readers -> Seq([key : Keys, val : Entry])]
    BY DEF ListInv, SkTypeOK, ReadInv
  <1>3. ASSUME NEW x \in Readers, NEW k \in Keys, InRange(x, k)'
        PROVE  Contents'[k] \in window'[x][k]
    <2>1. InRange(x, k)
      BY <1>2, <1>3 DEF InRange
    <2> QED
      BY <1>1, <2>1 DEF ReadInv
  <1>4. ASSUME NEW x \in Readers PROVE Position(x)' /\ Listing(x)'
    <2>1. CASE x = r
      BY <2>1
    <2>2. CASE x # r
      <3>1. /\ rpc'[x] = rpc[x] /\ rnode'[x] = rnode[x] /\ rlevel'[x] = rlevel[x]
            /\ rout'[x] = rout[x]
        BY <1>2, <2>2
      <3>2. rpc[x] \in {"get", "seek"} => rlevel[x] \in Levels
        BY DEF Descending
      <3> QED
        BY <1>1, <3>1, <3>2, ReaderKept
    <2> QED
      BY <2>1, <2>2
  <1>5. window' \in [Readers -> [Keys -> SUBSET Entry]]
    BY DEF ReadInv
  <1>6. rout' \in [Readers -> Seq([key : Keys, val : Entry])]
    BY <1>2
  <1> QED
    BY <1>3, <1>4, <1>5, <1>6 DEF ReadInv

\* Where a clause of Position does not apply.
LEMMA ElsewhereNext ==
  ASSUME NEW r \in Readers
  PROVE  /\ rpc'[r] \notin {"get", "base", "value", "seek", "idle"} => Getting(r)'
         /\ rpc'[r] \notin {"get", "seek"} => Searching(r)'
         /\ rpc'[r] # "base" => Missing(r)'
         /\ rpc'[r] # "value" => Found(r)'
         /\ rpc'[r] # "walk" => Walking(r)'
         /\ rpc'[r] # "take" => Taking(r)'
         /\ rpc'[r] # "done" => Finished(r)'
PROOF
  BY DEF Getting, Searching, Missing, Found, Walking, Taking, Finished

LEMMA DescendKeepsReads ==
  ASSUME ListInv, Descending, ReadInv, NEW r \in Readers, Descend(r), ReadTypes'
  PROVE  ReadInv'
PROOF
  <1>1. /\ rpc \in [Readers -> {"idle", "get", "base", "value", "seek", "walk",
                                "take", "done"}]
        /\ rnode \in [Readers -> Nodes] /\ rlevel \in [Readers -> 0 .. MaxLevel]
        /\ rout \in [Readers -> Seq([key : Keys, val : Entry])]
    BY DEF ListInv, SkTypeOK, ReadInv
  <1>2. PICK n, l, lo : n = next[rnode[r]][rlevel[r]] /\ l = rlevel[r] /\ lo = rlo[r]
    OBVIOUS
  <1>3. /\ rpc[r] \in {"get", "seek"} /\ l \in Levels /\ lo \in Keys
        /\ rnode[r] \in Standing(l) /\ rnode[r] < lo /\ rout[r] = << >>
        /\ rpc[r] = "get" => rhi[r] = lo
    BY <1>2 DEF Descend, Descending, ReadInv, Position, Searching, Getting
  <1>4. /\ UNCHANGED <<listVars, writeVars>> /\ UNCHANGED <<rlo, rhi, rout, window>>
        /\ \/ /\ n < lo /\ rnode' = [rnode EXCEPT ![r] = n]
              /\ rpc' = rpc /\ rlevel' = rlevel
           \/ /\ n = lo /\ rpc[r] = "get" /\ rpc' = [rpc EXCEPT ![r] = "value"]
              /\ rnode' = rnode /\ rlevel' = rlevel
           \/ /\ ~ (n < lo) /\ ~ (n = lo /\ rpc[r] = "get")
              /\ rlevel' = [rlevel EXCEPT ![r] = l - 1] /\ rnode' = rnode
              /\ rpc' = [rpc EXCEPT ![r] = IF l > 1 THEN @
                                          ELSE IF @ = "get" THEN "base" ELSE "walk"]
    <2>1. UNCHANGED <<listVars, writeVars>> /\ UNCHANGED <<rlo, rhi, rout, window>>
      BY DEF Descend
    <2>2. CASE n < lo
      BY <1>2, <2>1, <2>2 DEF Descend, Below, MoveTo
    <2>3. CASE ~ (n < lo) /\ n = lo /\ rpc[r] = "get"
      BY <1>2, <2>1, <2>3 DEF Descend, Below
    <2>4. CASE ~ (n < lo) /\ ~ (n = lo /\ rpc[r] = "get")
      <3>1. /\ rlevel' = [rlevel EXCEPT ![r] = @ - 1]
            /\ rpc' = [rpc EXCEPT ![r] = IF rlevel[r] > 1 THEN @
                                        ELSE IF @ = "get" THEN "base" ELSE "walk"]
            /\ rnode' = rnode
        BY <1>2, <2>4 DEF Descend, Below
      <3> QED
        BY <1>1, <1>2, <2>1, <2>4, <3>1
    <2> QED
      BY <2>2, <2>3, <2>4
  <1>5. Pointing
    BY DEF ListInv, Listed, Pointing
  <1>6. /\ n \in Nat /\ n \in Linked(l) \cup {Nil} /\ rnode[r] \in Nat
        /\ \A s \in Linked(l) : s <= rnode[r] \/ n <= s
    BY <1>2, <1>3, <1>5, StandingIn
  <1>7. lo \in Nat /\ lo < Nil /\ 1 \in Levels /\ l \in Nat /\ Nil \in Nat
    BY <1>3, Bounds DEF Levels
  <1>8. Linked(l) \subseteq Linked(1) /\ Standing(l) \subseteq Standing(1)
    <2>1. 1 <= l
      BY <1>3, Bounds DEF Levels
    <2> QED
      BY <1>3, <1>7, <2>1 DEF ListInv, Listed, Standing
  <1>9. \A i \in Levels : Linked(i)' = Linked(i) /\ Standing(i)' = Standing(i)
    BY <1>4, ReadKeeps DEF Standing
  <1>10. Listing(r)'
    BY <1>3, <1>4 DEF Listing
  <1>11. CASE n < lo /\ rnode' = [rnode EXCEPT ![r] = n] /\ rpc' = rpc /\ rlevel' = rlevel
    <2>1. n \in Standing(l)
      <3>1. n # Nil
        BY <1>6, <1>7, <1>11
      <3> QED
        BY <1>6, <3>1 DEF Standing
    <2>2. rnode'[r] = n
      BY <1>1, <1>11
    <2>3. Searching(r)'
      <3>1. rnode'[r] \in Standing(rlevel[r])'
        BY <1>2, <1>3, <1>9, <1>11, <2>1, <2>2 DEF Standing
      <3> QED
        BY <1>2, <1>3, <1>4, <1>11, <2>2, <3>1 DEF Searching
    <2>4. Getting(r)'
      BY <1>2, <1>3, <1>4, <1>11 DEF Getting
    <2>5. Position(r)'
      BY <1>3, <1>11, <2>3, <2>4, ElsewhereNext DEF Position
    <2> QED
      BY <1>1, <1>3, <1>4, <1>10, <1>11, <2>5, ReadMoves
  <1>12. CASE /\ n = lo /\ rpc[r] = "get" /\ rpc' = [rpc EXCEPT ![r] = "value"]
              /\ rnode' = rnode /\ rlevel' = rlevel
    <2>1. lo \in Linked(1)
      BY <1>6, <1>7, <1>8, <1>12
    <2>2. rpc'[r] = "value"
      BY <1>1, <1>12
    <2>3. Found(r)' /\ Getting(r)'
      BY <1>2, <1>3, <1>4, <1>7, <1>9, <1>12, <2>1, <2>2 DEF Found, Getting
    <2>4. Position(r)'
      BY <2>2, <2>3, ElsewhereNext DEF Position
    <2> QED
      BY <1>1, <1>3, <1>4, <1>10, <1>12, <2>4, ReadMoves
  <1>13. CASE /\ ~ (n < lo) /\ ~ (n = lo /\ rpc[r] = "get") /\ l > 1
              /\ rlevel' = [rlevel EXCEPT ![r] = l - 1] /\ rnode' = rnode
              /\ rpc' = [rpc EXCEPT ![r] = rpc[r]]
    <2>1. PICK m : m = l - 1
      OBVIOUS
    <2>2. m \in Levels /\ rnode[r] \in Standing(m)
      <3>1. m \in Levels /\ m <= l
        BY <1>3, <1>13, <2>1, Bounds DEF Levels
      <3> QED
        BY <1>3, <3>1 DEF ListInv, Listed, Standing
    <2>3. rlevel'[r] = m /\ rpc'[r] = rpc[r]
      BY <1>1, <1>13, <2>1
    <2>4. Searching(r)'
      <3>1. rnode'[r] \in Standing(rlevel[r])'
        BY <1>9, <1>13, <2>2, <2>3 DEF Standing
      <3> QED
        BY <1>2, <1>3, <1>4, <1>13, <3>1 DEF Searching
    <2>5. Getting(r)'
      BY <1>2, <1>3, <1>4, <2>3 DEF Getting
    <2>6. Position(r)'
      BY <1>3, <2>3, <2>4, <2>5, ElsewhereNext DEF Position
    <2> QED
      BY <1>1, <1>3, <1>4, <1>10, <1>13, <2>3, <2>6, ReadMoves
  <1>14. CASE /\ ~ (n < lo) /\ n # lo /\ rpc[r] = "get" /\ ~ (l > 1)
              /\ rlevel' = [rlevel EXCEPT ![r] = l - 1] /\ rnode' = rnode
              /\ rpc' = [rpc EXCEPT ![r] = "base"]
    <2>1. l = 1
      BY <1>3, <1>14 DEF Levels
    <2>2. lo \notin Linked(1)
      BY <1>3, <1>6, <1>7, <1>14, <2>1
    <2>3. InRange(r, lo)
      BY <1>2, <1>3, <1>7, <1>14 DEF InRange
    <2>4. Absent \in window[r][lo]
      BY <1>3, <2>2, <2>3, UnlinkedAbsent
    <2>5. rpc'[r] = "base"
      BY <1>1, <1>14
    <2>6. Missing(r)' /\ Getting(r)'
      BY <1>2, <1>3, <1>4, <1>7, <1>9, <1>14, <2>1, <2>4, <2>5 DEF Missing, Getting
    <2>7. Position(r)'
      BY <2>5, <2>6, ElsewhereNext DEF Position
    <2> QED
      BY <1>1, <1>3, <1>4, <1>10, <1>14, <2>7, ReadMoves
  <1>15. CASE /\ rpc[r] = "seek" /\ ~ (l > 1)
              /\ rlevel' = [rlevel EXCEPT ![r] = l - 1] /\ rnode' = rnode
              /\ rpc' = [rpc EXCEPT ![r] = "walk"]
    <2>1. l = 1
      BY <1>3, <1>15 DEF Levels
    <2>2. rpc'[r] = "walk"
      BY <1>1, <1>15
    <2>3. CoveredBelow(r, rnode[r] + 1)'
      <3>1. ASSUME NEW k \in Keys, InRange(r, k)', k < rnode'[r] + 1 PROVE FALSE
        <4>1. k \in Nat /\ lo <= k /\ k < rnode[r] + 1
          BY <1>2, <1>4, <1>15, <3>1, Bounds DEF InRange
        <4> QED
          BY <1>3, <1>6, <1>7, <4>1
      <3> QED
        BY <3>1 DEF CoveredBelow
    <2>4. Walking(r)'
      <3>1. Len(rout'[r]) = 0
        BY <1>3, <1>4
      <3>2. rnode'[r] \in Standing(1)'
        BY <1>3, <1>7, <1>9, <1>15, <2>1
      <3> QED
        BY <2>3, <3>1, <3>2 DEF Walking
    <2>5. Position(r)'
      BY <2>2, <2>4, ElsewhereNext DEF Position
    <2> QED
      BY <1>1, <1>3, <1>4, <1>10, <1>15, <2>5, ReadMoves
  <1> QED
    BY <1>1, <1>3, <1>4, <1>11, <1>12, <1>13, <1>14, <1>15

LEMMA GetKeepsReads ==
  ASSUME ListInv, Descending, ReadInv, NEW r \in Readers,
         CheckBase(r) \/ GetValue(r), ReadTypes'
  PROVE  ReadInv'
PROOF
  <1>1. /\ rpc \in [Readers -> {"idle", "get", "base", "value", "seek", "walk",
                                "take", "done"}]
        /\ rnode \in [Readers -> Nodes] /\ rlevel \in [Readers -> 0 .. MaxLevel]
        /\ rout \in [Readers -> Seq([key : Keys, val : Entry])]
        /\ val \in [Keys -> Entry]
    BY DEF ListInv, SkTypeOK, ReadInv, Table
  <1>2. PICK lo : lo = rlo[r]
    OBVIOUS
  <1>3. /\ rpc[r] \in {"base", "value"} /\ lo \in Keys /\ rhi[r] = lo
        /\ rout[r] = << >>
        /\ UNCHANGED <<listVars, writeVars>>
        /\ UNCHANGED <<rlo, rhi, rnode, rlevel, window>>
    BY <1>2 DEF CheckBase, GetValue, ReadInv, Position, Getting
  <1>4. Pointing
    BY DEF ListInv, Listed, Pointing
  <1>5. 1 \in Levels /\ lo \in Nat /\ lo < Nil /\ Nil \in Nat
    BY <1>3, Bounds
  <1>6. \A i \in Levels : Linked(i)' = Linked(i)
    BY <1>3, ReadKeeps
  <1>7. InRange(r, lo) /\ \A k \in Keys : InRange(r, k)' => k = lo
    <2>1. InRange(r, lo)
      BY <1>2, <1>3, <1>5 DEF InRange
    <2>2. ASSUME NEW k \in Keys, InRange(r, k)' PROVE k = lo
      <3>1. lo <= k /\ k <= lo
        BY <1>2, <1>3, <2>2 DEF InRange
      <3>2. k \in Nat
        BY Bounds
      <3> QED
        BY <1>5, <3>1, <3>2
    <2> QED
      BY <2>1, <2>2
  <1>8. CASE CheckBase(r) /\ next[rnode[r]][1] = lo
    <2>1. /\ rpc' = [rpc EXCEPT ![r] = "value"] /\ rout' = rout
          /\ rnode[r] \in Standing(1)
      BY <1>2, <1>8 DEF CheckBase, ReadInv, Position, Missing
    <2>2. lo \in Linked(1)
      BY <1>4, <1>5, <1>8, <2>1, StandingIn
    <2>3. rpc'[r] = "value"
      BY <1>1, <2>1
    <2>4. Found(r)' /\ Getting(r)'
      BY <1>2, <1>3, <1>5, <1>6, <2>1, <2>2, <2>3 DEF Found, Getting
    <2>5. Position(r)'
      BY <2>3, <2>4, ElsewhereNext DEF Position
    <2>6. Listing(r)'
      BY <1>3, <2>1 DEF Listing
    <2> QED
      BY <1>1, <1>3, <2>1, <2>5, <2>6, ReadMoves
  <1>9. CASE CheckBase(r) /\ next[rnode[r]][1] # lo
    <2>1. /\ rpc' = [rpc EXCEPT ![r] = "done"] /\ rout' = rout
          /\ Absent \in window[r][lo]
      BY <1>2, <1>9 DEF CheckBase, ReadInv, Position, Missing
    <2>2. rpc'[r] = "done"
      BY <1>1, <2>1
    <2>3. CoveredBelow(r, Nil)'
      BY <1>3, <1>7, <2>1 DEF CoveredBelow
    <2>4. Finished(r)'
      BY <2>3 DEF Finished
    <2>5. Position(r)'
      BY <2>2, <2>4, ElsewhereNext DEF Position
    <2>6. Listing(r)'
      BY <1>3, <2>1 DEF Listing
    <2> QED
      BY <1>1, <1>3, <2>1, <2>5, <2>6, ReadMoves
  <1>10. CASE GetValue(r)
    <2>1. /\ rpc' = [rpc EXCEPT ![r] = "done"] /\ lo \in Linked(1)
          /\ rout' = [rout EXCEPT ![r] = <<[key |-> lo, val |-> val[lo]]>>]
      BY <1>2, <1>10 DEF GetValue, ReadInv, Position, Found
    <2>2. PICK e : e = [key |-> lo, val |-> val[lo]]
      OBVIOUS
    <2>3. /\ rpc'[r] = "done" /\ rout'[r] = <<e>>
          /\ e \in [key : Keys, val : Entry] /\ e.key = lo /\ e.val = val[lo]
      BY <1>1, <1>3, <2>1, <2>2
    <2>4. val[lo] \in window[r][lo]
      BY <1>3, <1>7, <2>1, LinkedValue
    <2>5. /\ rout'[r] \in Seq([key : Keys, val : Entry]) /\ Len(rout'[r]) = 1
          /\ rout'[r][1] = e
      BY <2>3
    <2>6. Listing(r)'
      <3>1. \A i \in 1 .. Len(rout'[r]) : i = 1
        BY <2>5
      <3>2. \A i \in 2 .. Len(rout'[r]) : FALSE
        BY <2>5
      <3> QED
        BY <1>3, <2>3, <2>4, <2>5, <3>1, <3>2 DEF Listing
    <2>7. lo \in Answered(r)'
      BY <2>3, <2>5 DEF Answered
    <2>8. Finished(r)'
      BY <1>7, <2>7 DEF Finished, CoveredBelow
    <2>9. Position(r)'
      BY <2>3, <2>8, ElsewhereNext DEF Position
    <2> QED
      BY <1>1, <1>3, <2>1, <2>5, <2>6, <2>9, ReadMoves
  <1> QED
    BY <1>8, <1>9, <1>10

LEMMA ScanNextKeepsReads ==
  ASSUME ListInv, Descending, ReadInv, NEW r \in Readers, ScanNext(r), ReadTypes'
  PROVE  ReadInv'
PROOF
  <1>1. /\ rpc \in [Readers -> {"idle", "get", "base", "value", "seek", "walk",
                                "take", "done"}]
        /\ rnode \in [Readers -> Nodes] /\ rlevel \in [Readers -> 0 .. MaxLevel]
        /\ rout \in [Readers -> Seq([key : Keys, val : Entry])]
        /\ rlo[r] \in Nodes /\ rhi[r] \in Keys \cup {Nil}
    BY DEF ListInv, SkTypeOK, ReadInv
  <1>2. PICK n, m : n = next[rnode[r]][1] /\ m = rnode[r]
    OBVIOUS
  <1>3. /\ rpc[r] = "walk" /\ m \in Standing(1) /\ CoveredBelow(r, m + 1)
        /\ \A i \in 1 .. Len(rout[r]) : rout[r][i].key <= m
        /\ UNCHANGED <<listVars, writeVars>> /\ UNCHANGED <<rlo, rhi, rlevel, rout, window>>
    BY <1>2 DEF ScanNext, ReadInv, Position, Walking
  <1>4. \/ /\ n = Nil \/ n > rhi[r]
           /\ rpc' = [rpc EXCEPT ![r] = "done"] /\ rnode' = rnode
        \/ /\ n # Nil /\ ~ (n > rhi[r]) /\ n >= rlo[r]
           /\ rpc' = [rpc EXCEPT ![r] = "take"] /\ rnode' = [rnode EXCEPT ![r] = n]
        \/ /\ n # Nil /\ ~ (n > rhi[r]) /\ ~ (n >= rlo[r])
           /\ rpc' = [rpc EXCEPT ![r] = "walk"] /\ rnode' = [rnode EXCEPT ![r] = n]
    BY <1>2 DEF ScanNext
  <1>5. Pointing
    BY DEF ListInv, Listed, Pointing
  <1>6. 1 \in Levels /\ Nil \in Nat /\ rhi[r] \in Nat /\ rlo[r] \in Nat
    BY <1>1, Bounds
  <1>7. /\ n \in Nat /\ n \in Linked(1) \cup {Nil} /\ m \in Nat /\ m < n
        /\ \A s \in Linked(1) : s <= m \/ n <= s
    BY <1>2, <1>3, <1>5, <1>6, StandingIn
  <1>8. \A i \in Levels : Linked(i)' = Linked(i)
    BY <1>3, ReadKeeps
  <1>9. \A k : InRange(r, k)' <=> rlo[r] <= k /\ k <= rhi[r] /\ rpc'[r] # "idle"
    BY <1>3 DEF InRange
  <1>10. Answered(r)' = Answered(r)
    BY <1>3 DEF Answered
  <1>11. ASSUME NEW k \in Keys, InRange(r, k)', k < n, k \notin Answered(r)
         PROVE  Absent \in window[r][k]
    <2>1. InRange(r, k) /\ k \in Nat
      BY <1>3, <1>9, <1>11, Bounds DEF InRange
    <2>2. CASE k <= m
      BY <1>3, <1>7, <1>11, <2>1, <2>2 DEF CoveredBelow
    <2>3. CASE ~ (k <= m)
      <3>1. k \notin Linked(1)
        BY <1>7, <1>11, <2>1, <2>3
      <3> QED
        BY <2>1, <3>1, UnlinkedAbsent
    <2> QED
      BY <2>2, <2>3
  <1>12. Listing(r)'
    <2>1. Listing(r) /\ rout[r] \in Seq([key : Keys, val : Entry])
      BY <1>1 DEF ReadInv
    <2> QED
      BY <1>3, <2>1, ListedRow DEF Listing
  <1>13. CASE /\ n = Nil \/ n > rhi[r]
              /\ rpc' = [rpc EXCEPT ![r] = "done"] /\ rnode' = rnode
    <2>1. rpc'[r] = "done"
      BY <1>1, <1>13
    <2>2. ASSUME NEW k \in Keys, InRange(r, k)', k \notin Answered(r)'
          PROVE  Absent \in window'[r][k]
      <3>1. k \in Nat /\ k < Nil /\ k <= rhi[r]
        BY <1>9, <2>2, Bounds
      <3>2. k < n
        BY <1>6, <1>7, <1>13, <3>1
      <3> QED
        BY <1>3, <1>10, <1>11, <2>2, <3>2
    <2>3. Finished(r)'
      BY <2>2 DEF Finished, CoveredBelow
    <2>4. Position(r)'
      BY <2>1, <2>3, ElsewhereNext DEF Position
    <2> QED
      BY <1>1, <1>3, <1>12, <1>13, <2>4, ReadMoves
  <1>14. CASE /\ n # Nil /\ ~ (n > rhi[r]) /\ n >= rlo[r]
              /\ rpc' = [rpc EXCEPT ![r] = "take"] /\ rnode' = [rnode EXCEPT ![r] = n]
    <2>1. rpc'[r] = "take" /\ rnode'[r] = n
      BY <1>1, <1>14
    <2>2. CoveredBelow(r, rnode[r])'
      BY <1>3, <1>10, <1>11, <2>1 DEF CoveredBelow
    <2>3. \A i \in 1 .. Len(rout'[r]) : rout'[r][i].key < n
      <3>1. ASSUME NEW i \in 1 .. Len(rout[r]) PROVE rout[r][i].key < n
        <4>1. rout[r][i].key \in Keys
          BY <1>1, ListedRow
        <4>2. rout[r][i].key \in Nat
          BY <4>1, Bounds
        <4> QED
          BY <1>3, <1>7, <4>2
      <3> QED
        BY <1>3, <3>1
    <2>4. Taking(r)'
      BY <1>3, <1>6, <1>7, <1>8, <1>14, <2>1, <2>2, <2>3 DEF Taking
    <2>5. Position(r)'
      BY <2>1, <2>4, ElsewhereNext DEF Position
    <2> QED
      BY <1>1, <1>3, <1>12, <1>14, <2>1, <2>5, ReadMoves
  <1>15. CASE /\ n # Nil /\ ~ (n > rhi[r]) /\ ~ (n >= rlo[r])
              /\ rpc' = [rpc EXCEPT ![r] = "walk"] /\ rnode' = [rnode EXCEPT ![r] = n]
    <2>1. rpc'[r] = "walk" /\ rnode'[r] = n
      BY <1>1, <1>15
    <2>2. CoveredBelow(r, rnode[r] + 1)'
      <3>1. ASSUME NEW k \in Keys, InRange(r, k)', k < n + 1 PROVE FALSE
        BY <1>6, <1>7, <1>9, <1>15, <3>1, Bounds
      <3> QED
        BY <2>1, <3>1 DEF CoveredBelow
    <2>3. \A i \in 1 .. Len(rout'[r]) : rout'[r][i].key <= n
      <3>1. ASSUME NEW i \in 1 .. Len(rout[r]) PROVE rout[r][i].key <= n
        <4>1. rout[r][i].key \in Keys
          BY <1>1, ListedRow
        <4>2. rout[r][i].key \in Nat
          BY <4>1, Bounds
        <4> QED
          BY <1>3, <1>7, <4>2
      <3> QED
        BY <1>3, <3>1
    <2>4. Walking(r)'
      BY <1>6, <1>7, <1>8, <1>15, <2>1, <2>2, <2>3 DEF Walking, Standing
    <2>5. Position(r)'
      BY <2>1, <2>4, ElsewhereNext DEF Position
    <2> QED
      BY <1>1, <1>3, <1>12, <1>15, <2>1, <2>5, ReadMoves
  <1> QED
    BY <1>4, <1>13, <1>14, <1>15

LEMMA AppendRow ==
  ASSUME NEW S, NEW s \in Seq(S), NEW e \in S
  PROVE  /\ Len(s) \in Nat /\ Append(s, e) \in Seq(S)
         /\ Len(Append(s, e)) = Len(s) + 1
         /\ \A i \in 1 .. Len(s) : Append(s, e)[i] = s[i]
         /\ Append(s, e)[Len(s) + 1] = e
PROOF
  <1>1. Len(s) \in Nat
    OBVIOUS
  <1> QED
    BY <1>1, AppendProperties

LEMMA ScanTakeKeepsReads ==
  ASSUME ListInv, Descending, ReadInv, NEW r \in Readers, ScanTake(r), ReadTypes'
  PROVE  ReadInv'
PROOF
  <1>1. /\ rpc \in [Readers -> {"idle", "get", "base", "value", "seek", "walk",
                                "take", "done"}]
        /\ rnode \in [Readers -> Nodes] /\ rlevel \in [Readers -> 0 .. MaxLevel]
        /\ rout \in [Readers -> Seq([key : Keys, val : Entry])]
        /\ val \in [Keys -> Entry]
    BY DEF ListInv, SkTypeOK, ReadInv, Table
  <1>2. PICK m, s : m = rnode[r] /\ s = rout[r]
    OBVIOUS
  <1>3. /\ rpc[r] = "take" /\ m \in Linked(1) /\ CoveredBelow(r, m)
        /\ rlo[r] <= m /\ m <= rhi[r]
        /\ \A i \in 1 .. Len(s) : s[i].key < m
        /\ UNCHANGED <<listVars, writeVars>>
        /\ UNCHANGED <<rlo, rhi, rnode, rlevel, window>>
    BY <1>2 DEF ScanTake, ReadInv, Position, Taking
  <1>4. PICK e : e = [key |-> m, val |-> val[m]]
    OBVIOUS
  <1>5. /\ rpc' = [rpc EXCEPT ![r] = "walk"] /\ rpc'[r] = "walk"
        /\ rout' = [rout EXCEPT ![r] = Append(s, e)] /\ rout'[r] = Append(s, e)
    BY <1>1, <1>2, <1>4 DEF ScanTake
  <1>6. 1 \in Levels /\ Linked(1)' = Linked(1)
    BY <1>3, Bounds, ReadKeeps
  <1>7. m \in Keys /\ m \in Nat
    <2>1. Chain(1, Linked(1))
      BY <1>6, LinkedIsChain DEF ListInv, Listed, Pointing
    <2> QED
      BY <1>3, <2>1, Bounds DEF Chain
  <1>8. e \in [key : Keys, val : Entry] /\ e.key = m /\ e.val = val[m]
    BY <1>1, <1>4, <1>7
  <1>9. /\ s \in Seq([key : Keys, val : Entry]) /\ Len(s) \in Nat
        /\ Append(s, e) \in Seq([key : Keys, val : Entry])
        /\ Len(Append(s, e)) = Len(s) + 1
        /\ \A i \in 1 .. Len(s) : Append(s, e)[i] = s[i]
        /\ Append(s, e)[Len(s) + 1] = e
    <2>1. s \in Seq([key : Keys, val : Entry])
      BY <1>1, <1>2
    <2> QED
      BY <1>8, <2>1, AppendRow
  <1>10. \A i \in 1 .. Len(s) : s[i].key \in Nat
    BY <1>9, ListedRow, Bounds
  <1>11. InRange(r, m) /\ val[m] \in window[r][m]
    <2>1. InRange(r, m)
      BY <1>3 DEF InRange
    <2> QED
      BY <1>3, <1>7, <2>1, LinkedValue
  <1>12. PICK t : t = Append(s, e)
    OBVIOUS
  <1>13. \A i \in 1 .. Len(t) : \/ i \in 1 .. Len(s) /\ t[i] = s[i]
                                \/ i = Len(s) + 1 /\ t[i] = e
    <2>1. \A i \in 1 .. Len(t) : i \in 1 .. Len(s) \/ i = Len(s) + 1
      BY <1>9, <1>12
    <2> QED
      BY <1>9, <1>12, <2>1
  <1>14. Listing(r)'
    <2>1. /\ \A i \in 1 .. Len(s) : s[i].val \in window[r][s[i].key]
          /\ \A i \in 2 .. Len(s) : s[i - 1].key < s[i].key
      BY <1>2 DEF ReadInv, Listing
    <2>2. \A i \in 1 .. Len(t) : t[i].val \in window[r][t[i].key]
      BY <1>8, <1>11, <1>13, <2>1
    <2>3. ASSUME NEW i \in 2 .. Len(t) PROVE t[i - 1].key < t[i].key
      <3>1. i - 1 \in 1 .. Len(s) /\ t[i - 1] = s[i - 1]
        BY <1>9, <1>12
      <3>2. CASE i \in 1 .. Len(s)
        <4>1. i \in 2 .. Len(s) /\ t[i] = s[i]
          BY <1>9, <1>12, <3>2
        <4> QED
          BY <2>1, <3>1, <4>1
      <3>3. CASE i \notin 1 .. Len(s)
        <4>1. t[i] = e
          BY <1>9, <1>12, <3>3
        <4> QED
          BY <1>3, <1>8, <3>1, <4>1
      <3> QED
        BY <3>2, <3>3
    <2> QED
      BY <1>3, <1>5, <1>12, <2>2, <2>3 DEF Listing
  <1>15. Answered(r)' = Answered(r) \cup {m}
    <2>1. Answered(r) = {s[i].key : i \in 1 .. Len(s)}
      BY <1>2 DEF Answered
    <2>2. Answered(r)' = {t[i].key : i \in 1 .. Len(t)}
      BY <1>5, <1>12 DEF Answered
    <2>3. \A i \in 1 .. Len(s) : i \in 1 .. Len(t) /\ t[i] = s[i]
      BY <1>9, <1>12
    <2>4. Len(s) + 1 \in 1 .. Len(t) /\ t[Len(s) + 1].key = m
      BY <1>8, <1>9, <1>12
    <2>5. \A i \in 1 .. Len(t) : t[i].key = m \/ \E j \in 1 .. Len(s) : t[i].key = s[j].key
      BY <1>8, <1>13
    <2>6. \A k : k \in {t[i].key : i \in 1 .. Len(t)} <=>
                   k = m \/ k \in {s[i].key : i \in 1 .. Len(s)}
      BY <2>3, <2>4, <2>5
    <2> QED
      BY <2>1, <2>2, <2>6
  <1>16. CoveredBelow(r, rnode[r] + 1)'
    <2>1. ASSUME NEW k \in Keys, InRange(r, k)', k < m + 1, k \notin Answered(r)'
          PROVE  Absent \in window'[r][k]
      <3>1. k \in Nat /\ k # m /\ k \notin Answered(r)
        BY <1>15, <2>1, Bounds
      <3>2. k < m
        BY <1>7, <2>1, <3>1
      <3>3. InRange(r, k)
        BY <1>3, <2>1 DEF InRange
      <3> QED
        BY <1>3, <3>1, <3>2, <3>3 DEF CoveredBelow
    <2> QED
      BY <1>2, <1>3, <2>1 DEF CoveredBelow
  <1>17. Walking(r)'
    <2>1. \A i \in 1 .. Len(t) : t[i].key <= m
      BY <1>3, <1>7, <1>8, <1>10, <1>13
    <2>2. rnode'[r] \in Standing(1)'
      BY <1>2, <1>3, <1>6 DEF Standing
    <2> QED
      BY <1>2, <1>3, <1>5, <1>12, <1>16, <2>1, <2>2 DEF Walking
  <1>18. Position(r)'
    BY <1>5, <1>17, ElsewhereNext DEF Position
  <1>19. rout'[r] \in Seq([key : Keys, val : Entry])
    BY <1>5, <1>9
  <1> QED
    BY <1>1, <1>3, <1>5, <1>14, <1>18, <1>19, ReadMoves

\* A read that begins or returns: its window starts from what the table holds.
LEMMA TurnKeepsReads ==
  ASSUME ListInv, Descending, ReadInv, NEW r \in Readers,
         GetBegin(r) \/ ScanBegin(r) \/ ReadReturns(r), ReadTypes'
  PROVE  ReadInv'
PROOF
  <1> USE Bounds
  <1>1. /\ rpc \in [Readers -> {"idle", "get", "base", "value", "seek", "walk",
                                "take", "done"}]
        /\ rlo \in [Readers -> Nodes] /\ rhi \in [Readers -> Keys \cup {Nil}]
        /\ rnode \in [Readers -> Nodes] /\ rlevel \in [Readers -> 0 .. MaxLevel]
        /\ rout \in [Readers -> Seq([key : Keys, val : Entry])]
        /\ window \in [Readers -> [Keys -> SUBSET Entry]]
    BY DEF ListInv, SkTypeOK, ReadInv
  <1>2. Contents \in [Keys -> Entry]
    BY DEF ListInv, SkTypeOK, Contents, Table, Entry
  <1>3. ASSUME UNCHANGED <<listVars, writeVars>>,
               NEW pc, rpc' = [rpc EXCEPT ![r] = pc],
               NEW lo, rlo' = [rlo EXCEPT ![r] = lo],
               NEW hi, rhi' = [rhi EXCEPT ![r] = hi],
               NEW n, rnode' = [rnode EXCEPT ![r] = n],
               NEW l, rlevel' = [rlevel EXCEPT ![r] = l],
               rout' = [rout EXCEPT ![r] = << >>],
               NEW win \in [Keys -> SUBSET Entry], window' = [window EXCEPT ![r] = win],
               \A k \in Keys : pc # "idle" /\ lo <= k /\ k <= hi => Contents[k] \in win[k],
               Position(r)'
        PROVE  ReadInv'
    <2>1. Contents' = Contents /\ \A i \in Levels : Linked(i)' = Linked(i)
      BY <1>3, ReadKeeps
    <2>2. << >> \in Seq([key : Keys, val : Entry]) /\ Len(<< >>) = 0
      OBVIOUS
    <2>3. /\ rout' \in [Readers -> Seq([key : Keys, val : Entry])]
          /\ window' \in [Readers -> [Keys -> SUBSET Entry]]
      BY <1>1, <1>3, <2>2
    <2>4. ASSUME NEW x \in Readers, NEW k \in Keys, InRange(x, k)'
          PROVE  Contents'[k] \in window'[x][k]
      <3>1. CASE x = r
        BY <1>1, <1>3, <2>1, <2>4, <3>1 DEF InRange
      <3>2. CASE x # r
        <4>1. InRange(x, k) /\ window'[x] = window[x]
          BY <1>1, <1>3, <2>4, <3>2 DEF InRange
        <4> QED
          BY <2>1, <4>1 DEF ReadInv
      <3> QED
        BY <3>1, <3>2
    <2>5. ASSUME NEW x \in Readers PROVE Position(x)' /\ Listing(x)'
      <3>1. CASE x = r
        <4>1. Len(rout'[r]) = 0
          BY <1>1, <1>3
        <4> QED
          BY <1>3, <3>1, <4>1 DEF Listing
      <3>2. CASE x # r
        <4>1. /\ rpc'[x] = rpc[x] /\ rnode'[x] = rnode[x] /\ rlevel'[x] = rlevel[x]
              /\ rout'[x] = rout[x] /\ rlo'[x] = rlo[x] /\ rhi'[x] = rhi[x]
              /\ window'[x] = window[x]
          BY <1>1, <1>3, <3>2
        <4>2. rpc[x] \in {"get", "seek"} => rlevel[x] \in Levels
          BY DEF Descending
        <4> QED
          BY <2>1, <4>1, <4>2, ReaderKept
      <3> QED
        BY <3>1, <3>2
    <2> QED
      BY <2>3, <2>4, <2>5 DEF ReadInv
  <1>4. ASSUME NEW pc \in {"get", "seek", "walk"}, NEW lo \in Nodes,
               NEW hi \in Keys \cup {Nil}, ReadBegins(r, pc, lo, hi),
               pc = "walk" \/ lo \in Keys, pc = "get" => hi = lo
        PROVE  ReadInv'
    <2>1. /\ rpc[r] = "idle" /\ rpc' = [rpc EXCEPT ![r] = pc]
          /\ rlo' = [rlo EXCEPT ![r] = lo] /\ rhi' = [rhi EXCEPT ![r] = hi]
          /\ rnode' = [rnode EXCEPT ![r] = HeadNode]
          /\ rlevel' = [rlevel EXCEPT ![r] = MaxLevel]
          /\ UNCHANGED <<listVars, writeVars>> /\ rout' = rout
      BY <1>4 DEF ReadBegins
    <2>2. PICK win : win = [k \in Keys |-> IF lo <= k /\ k <= hi THEN {Contents[k]} ELSE {}]
      OBVIOUS
    <2>3. /\ window' = [window EXCEPT ![r] = win] /\ win \in [Keys -> SUBSET Entry]
          /\ \A k \in Keys : lo <= k /\ k <= hi => Contents[k] \in win[k]
      BY <1>2, <1>4, <2>2 DEF ReadBegins
    <2>4. rout[r] = << >> /\ rout' = [rout EXCEPT ![r] = << >>]
      <3>1. rout[r] = << >>
        BY <2>1 DEF ReadInv, Position, Getting
      <3> QED
        BY <1>1, <2>1, <3>1
    <2>5. /\ rpc'[r] = pc /\ rlo'[r] = lo /\ rhi'[r] = hi /\ rnode'[r] = HeadNode
          /\ rlevel'[r] = MaxLevel /\ rout'[r] = << >> /\ Len(rout'[r]) = 0
      BY <1>1, <2>1, <2>4
    <2>6. \A i : HeadNode \in Standing(i)'
      BY DEF Standing
    <2>7. Getting(r)'
      BY <1>4, <2>5 DEF Getting
    <2>8. Searching(r)'
      BY <1>4, <2>5, <2>6 DEF Searching, Standing
    <2>9. Walking(r)'
      <3>1. \A k \in Keys : ~ (k < HeadNode + 1)
        OBVIOUS
      <3>2. CoveredBelow(r, rnode[r] + 1)'
        BY <2>5, <3>1 DEF CoveredBelow
      <3> QED
        BY <2>5, <2>6, <3>2 DEF Walking
    <2>10. Position(r)'
      BY <1>4, <2>5, <2>7, <2>8, <2>9, ElsewhereNext DEF Position
    <2> QED
      BY <1>3, <2>1, <2>3, <2>4, <2>10
  <1>5. CASE GetBegin(r)
    <2>1. PICK k \in Keys : ReadBegins(r, "get", k, k)
      BY <1>5 DEF GetBegin
    <2> QED
      BY <1>4, <2>1, HeadIsNode
  <1>6. CASE ScanBegin(r)
    <2>1. PICK range \in Ranges :
            ReadBegins(r, IF range[1] = HeadNode THEN "walk" ELSE "seek",
                       range[1], range[2])
      BY <1>6 DEF ScanBegin
    <2>2. range[1] \in Nodes /\ range[2] \in Keys \cup {Nil}
      BY SkipListAssumption DEF Nodes, HeadNode, Nil
    <2>3. CASE range[1] = HeadNode
      BY <1>4, <2>1, <2>2, <2>3
    <2>4. CASE range[1] # HeadNode
      <3>1. range[1] \in Keys
        BY <2>2, <2>4 DEF Nodes
      <3> QED
        BY <1>4, <2>1, <2>2, <2>4, <3>1
    <2> QED
      BY <2>3, <2>4
  <1>7. CASE ReadReturns(r)
    <2>1. PICK win : win = [k \in Keys |-> {}]
      OBVIOUS
    <2>2. /\ rpc' = [rpc EXCEPT ![r] = "idle"]
          /\ rlo' = [rlo EXCEPT ![r] = HeadNode] /\ rhi' = [rhi EXCEPT ![r] = Nil]
          /\ rnode' = [rnode EXCEPT ![r] = HeadNode]
          /\ rlevel' = [rlevel EXCEPT ![r] = 0]
          /\ rout' = [rout EXCEPT ![r] = << >>]
          /\ window' = [window EXCEPT ![r] = win]
          /\ UNCHANGED <<listVars, writeVars>>
      BY <1>7, <2>1 DEF ReadReturns
    <2>3. win \in [Keys -> SUBSET Entry]
      BY <2>1
    <2>4. rpc'[r] = "idle" /\ rout'[r] = << >>
      BY <1>1, <2>2
    <2>5. Getting(r)'
      BY <2>4 DEF Getting
    <2>6. Position(r)'
      BY <2>4, <2>5, ElsewhereNext DEF Position
    <2> QED
      BY <1>3, <2>2, <2>3, <2>6
  <1> QED
    BY <1>5, <1>6, <1>7

LEMMA ReadNext ==
  ListInv /\ Descending /\ ReadInv /\ [SkNext]_skVars => ReadInv'
PROOF
  <1> SUFFICES ASSUME ListInv, Descending, ReadInv, [SkNext]_skVars
               PROVE  ReadInv'
    OBVIOUS
  <1>1. ListInv'
    BY ListNext
  <1>2. ASSUME NEW w \in Writers, PutCall(w) \/ PutStep(w)
        PROVE  ReadInv'
    <2>1. UNCHANGED readVars
      BY <1>2 DEF PutCall, PutStep, PutCheck, PutRefused, PutUpdate, PutNewNode,
                  PutLink, PutReturn
    <2>2. CASE PutCall(w) \/ PutCheck(w) \/ PutRefused(w) \/ PutReturn(w)
      <3>1. window' = window /\ next' = next
        BY <2>2 DEF PutCall, PutCheck, PutRefused, PutReturn, listVars
      <3>2. Contents' = Contents
        BY <2>2, PutCallKeeps, PutQuietKeeps
      <3>3. \A i \in Levels : Linked(i)' = Linked(i)
        BY <3>1, SameLinked DEF ListInv, Listed, Pointing
      <3> QED
        BY <1>1, <2>1, <3>1, <3>2, <3>3, WritesKeepReads
    <2>3. CASE PutUpdate(w)
      <3>1. window' = Seen
        BY <2>3 DEF PutUpdate
      <3>2. \A i \in Levels : Linked(i)' = Linked(i)
        BY <2>3, PutUpdateKeeps
      <3> QED
        BY <1>1, <2>1, <3>1, <3>2, WritesKeepReads
    <2>4. CASE PutNewNode(w)
      <3>1. window' = window
        BY <2>4 DEF PutNewNode
      <3>2. Contents' = Contents /\ \A i \in Levels : Linked(i)' = Linked(i)
        BY <2>4, PutNewNodeKeeps
      <3> QED
        BY <1>1, <2>1, <3>1, <3>2, WritesKeepReads
    <2>5. CASE PutLink(w)
      <3>1. window' = Seen
        BY <2>5 DEF PutLink
      <3>2. \A i \in Levels : Linked(i) \subseteq Linked(i)'
        BY <2>5, PutLinkKeeps
      <3> QED
        BY <1>1, <2>1, <3>1, <3>2, WritesKeepReads
    <2> QED
      BY <1>2, <2>2, <2>3, <2>4, <2>5 DEF PutStep
  <1>3. CASE Freeze \/ UNCHANGED skVars
    <2>1. UNCHANGED readVars /\ window' = window /\ next' = next /\ val' = val
      BY <1>3 DEF Freeze, skVars, listVars
    <2>2. \A i \in Levels : Linked(i)' = Linked(i)
      BY <2>1, SameLinked DEF ListInv, Listed, Pointing
    <2>3. Contents' = Contents
      BY <2>1, <2>2, Bounds, ContentsKept
    <2> QED
      BY <1>1, <2>1, <2>2, <2>3, WritesKeepReads
  <1>4. ASSUME NEW r \in Readers, GetBegin(r) \/ ScanBegin(r) \/ ReadStep(r)
        PROVE  ReadInv'
    <2>1. ReadTypes'
      BY <1>4, ReadTypesKept
    <2> QED
      BY <1>4, <2>1, DescendKeepsReads, GetKeepsReads, ScanNextKeepsReads,
         ScanTakeKeepsReads, TurnKeepsReads DEF ReadStep
  <1> QED
    BY <1>2, <1>3, <1>4 DEF SkNext

LEMMA ReadInit == SkInit => ReadInv
PROOF
  <1> SUFFICES ASSUME SkInit PROVE ReadInv
    OBVIOUS
  <1>1. \A r \in Readers : rpc[r] = "idle" /\ rout[r] = << >> /\ Len(rout[r]) = 0
    BY DEF SkInit
  <1>2. /\ window \in [Readers -> [Keys -> SUBSET Entry]]
        /\ rout \in [Readers -> Seq([key : Keys, val : Entry])]
    <2>1. << >> \in Seq([key : Keys, val : Entry])
      OBVIOUS
    <2> QED
      BY <2>1 DEF SkInit
  <1>3. ASSUME NEW r \in Readers PROVE Position(r) /\ Listing(r)
    <2>1. Listing(r)
      BY <1>1 DEF Listing
    <2>2. Position(r)
      BY <1>1 DEF Position, Getting, Searching, Missing, Found, Walking, Taking, Finished
    <2> QED
      BY <2>1, <2>2
  <1> QED
    BY <1>1, <1>2, <1>3 DEF ReadInv, InRange

\* A Get or Scan that meets a half-linked node still answers every key of its
\* range with an entry that the key had during the call, in ascending order and
\* each key once, whatever the Puts do between its loads
\* (memtable.go:151-191, memtable.go:213-267).
THEOREM ReadsAnswerFromTheirWindow == SkSpec => []ReadsInWindow
PROOF
  <1>1. ListInv /\ ReadInv => ReadsInWindow
    <2> SUFFICES ASSUME ListInv, ReadInv, NEW r \in Readers, rpc[r] = "done"
                 PROVE  /\ \A i \in 1 .. Len(rout[r]) :
                             rout[r][i].val \in window[r][rout[r][i].key]
                        /\ \A i \in 2 .. Len(rout[r]) :
                             rout[r][i - 1].key < rout[r][i].key
                        /\ \A k \in Keys : InRange(r, k) /\ k \notin Answered(r) =>
                             Absent \in window[r][k]
      BY DEF ReadsInWindow
    <2>1. Listing(r) /\ CoveredBelow(r, Nil)
      BY DEF ReadInv, Position, Finished
    <2> QED
      BY <2>1, Bounds DEF Listing, CoveredBelow
  <1>2. SkInit => ListInv /\ Descending /\ ReadInv
    BY ListInit, ReadInit DEF SkInit, Descending
  <1> QED
    BY <1>1, <1>2, ListNext, ReadNext, PTL DEF SkSpec
=============================================================================
