------------------------------ MODULE MCWAL ------------------------------
(* Small instances of WAL for TLC.                                         *)
EXTENDS WAL, TLC

CONSTANTS w1, w2
=============================================================================
