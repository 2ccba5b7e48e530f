----------------------------- MODULE MCSkipList -----------------------------
(* A small instance of SkipList for TLC.                                   *)
EXTENDS SkipList, TLC

CONSTANTS w1, w2, r1

\* From key 2 on, and up to key 2.
TwoRanges == {<<2, Nil>>, <<HeadNode, 2>>}
\* An empty table, or one in which a node may go before, between and behind.
TwoStarts == {{}, {1, 3}}
=============================================================================
