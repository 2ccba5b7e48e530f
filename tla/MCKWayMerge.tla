---------------------------- MODULE MCKWayMerge ----------------------------
(* A small instance of KWayMerge for TLC.                                  *)
EXTENDS KWayMerge

CONSTANTS small, big

\* Key 1 is the empty key, keys 2 and 3 are short, key 4 has 65533 bytes.
Lengths == <<0, 3, 3, 65533>>

\* Two small entries share a block; a big one fills its own.
Sizes == [v \in Values |-> IF v = big THEN 5000 ELSE 10]

\* Five bits in words of four: keys share bits, and key 4 has those of key 2.
FirstHash == <<0, 1, 2, 6>>
SecondHash == <<1, 3, 2, 8>>

\* Any table over the four keys without small values, and any over the keys 2
\* and 3.
WideTables == {t \in Table : \A k \in Keys : t[k] # small}
NarrowTables == {t \in Table : t[1] = Absent /\ t[4] = Absent}

\* Two files of any tables, or three over two keys.
TwoOrThreeFiles ==
  {<<s, t>> : s \in WideTables, t \in WideTables} \cup
  {<<s, t, u>> : s \in NarrowTables, t \in NarrowTables, u \in NarrowTables}
=============================================================================
