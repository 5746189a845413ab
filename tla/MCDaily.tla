------------------------------ MODULE MCDaily ------------------------------
(* Daily for TLC.                                                          *)
EXTENDS Daily
=============================================================================
