---------------------------- MODULE MCRingQueue ----------------------------
(* RingQueue for TLC.                                                      *)
EXTENDS RingQueue, TLC

ThreadSymmetry == Permutations(Producers) \cup Permutations(Consumers)
=============================================================================
