------------------------------ MODULE MCServer ------------------------------
(* A small instance of Server for TLC.                                     *)
EXTENDS Server, TLC

CONSTANTS embedder, c1, c2
=============================================================================
