--------------------------- MODULE MCVersionSet ---------------------------
(* Small instances of VersionSet for TLC.                                  *)
EXTENDS VersionSet, TLC

CONSTANTS k1, k2, v1, v2, r1, r2, c1

OneKey  == {k1}
TwoKeys == {k1, k2}

\* Tables that put, delete and leave out k1 under a value of k2: a file may
\* answer one key and not the other, and a tombstone may shadow a value.
MixedTables ==
  {(k1 :> v1) @@ NoTable, (k1 :> Tomb) @@ NoTable, (k2 :> v1) @@ NoTable}

\* Every file holds k1, so a lookup of k1 stops at the first file and a Scan
\* goes through all of them.
FullTables == {[k \in Keys |-> v1]}
=============================================================================
