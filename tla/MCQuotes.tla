------------------------------ MODULE MCQuotes ------------------------------
(* Quotes for TLC.                                                         *)
EXTENDS Quotes
=============================================================================
