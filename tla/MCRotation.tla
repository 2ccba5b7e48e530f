---------------------------- MODULE MCRotation ----------------------------
(* Small instances of Rotation for TLC.                                    *)
EXTENDS Rotation, TLC

CONSTANTS w1, w2
=============================================================================
