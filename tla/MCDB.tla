------------------------------- MODULE MCDB -------------------------------
(* Small instances of DB for TLC.                                          *)
EXTENDS DB, TLC

CONSTANTS k1, k2, v1, v2, w1, w2, r1
=============================================================================
