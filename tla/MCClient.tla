------------------------------ MODULE MCClient ------------------------------
(* Client for TLC.                                                         *)
EXTENDS Client
=============================================================================
