------------------------------ MODULE MCBridge ------------------------------
(* Bridge for TLC.                                                         *)
EXTENDS Bridge, TLC

ThreadSymmetry == Permutations(Threads)
=============================================================================
